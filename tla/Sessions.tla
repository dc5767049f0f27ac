------------------------------ MODULE Sessions ------------------------------
(***************************************************************************)
(* Refresh tokens: the sessions table (services/api/src/auth), the apps    *)
(* and browsers that hold a token each, and the calls that rotate it.      *)
(*                                                                         *)
(* A session row is named by its token.  rotateRefreshToken reads the row  *)
(* and marks it revoked in two statements, and issueTokens inserts the new *)
(* row in a third; calls of any number of requests interleave between      *)
(* them.  A mobile app sends its refreshes through one shared promise (a   *)
(* flight); a browser keeps the token in a cookie that all its tabs share, *)
(* each with a flight of its own, and a page that loads refreshes outside  *)
(* any flight.                                                             *)
(*                                                                         *)
(* Faults: an answer that never arrives, an app or a browser that is shut  *)
(* down, a request that fails on the server (an expired token is refused   *)
(* the same way).  Access tokens are not modelled: any request may find    *)
(* its own expired and start a refresh.                                    *)
(***************************************************************************)
EXTENDS Integers, FiniteSets

CONSTANTS
    Users,
    Clients,    \* apps and browsers that someone logs in on
    OwnerOf,    \* [Clients -> Users]
    Apps,       \* the clients that are mobile apps
    Callers,    \* places in a client that log in or refresh
    ClientOf,   \* [Callers -> Clients]
    Flights,
    FlightOf,   \* [Callers -> Flights]: the refreshPromise a caller goes through
    Forms,      \* callers that may log in
    PageLoads,  \* callers that are hydrate() of a browser's page
    MaxSessions,    \* bound on the rows of the table
    MaxDisturbances \* bound on faults and password resets

NoToken == 0
NoClient == "no client"

ASSUME SessionsAssumption ==
    /\ OwnerOf \in [Clients -> Users]
    /\ Apps \in SUBSET Clients
    /\ ClientOf \in [Callers -> Clients]
    /\ FlightOf \in [Callers -> Flights]
    /\ Forms \in SUBSET Callers
    /\ PageLoads \in SUBSET Callers
    /\ NoClient \notin Clients
    /\ MaxSessions \in Nat
    /\ MaxDisturbances \in Nat

Tokens == 1 .. MaxSessions

VARIABLES
    sessions,   \* how many rows there are; tokens are numbered as issued
    client,     \* the client a token was issued to; the row says its owner
    state,      \* ABSENT, LIVE, or why revokedAt is set: the code keeps no reason
    password,   \* per user, how often the password was reset
    held,       \* the token in an app's secure storage, in a browser's cookie
    call,       \* the login or refresh a caller has under way
    leaving,    \* the token a client's logout took up
    disturbances,   \* faults and resets so far
    parent,     \* history: the token a token replaced
    authOf,     \* the password a token's login was checked against
    escaped,    \* tokens of logins and refreshes a reset overtook
    raced,      \* tokens two calls, or a call and a logout, had in hand at once
    lost        \* tokens of calls or logouts nobody waited for

tableVars == <<sessions, client, parent, authOf, escaped>>
vars == <<tableVars, state, password, held, call, leaving, disturbances, raced, lost>>

States == {"ABSENT", "LIVE", "ROTATED", "LOGGED_OUT", "CONDEMNED"}

Steps == {"idle", "sent", "live", "reuse", "entitled", "issued", "refused", "clearing"}

Calls == [step : Steps, token : Tokens \cup {NoToken}, next : Tokens \cup {NoToken},
          auth : Nat, overtaken : BOOLEAN, heard : BOOLEAN]

Idle == [step |-> "idle", token |-> NoToken, next |-> NoToken, auth |-> 0,
         overtaken |-> FALSE, heard |-> FALSE]

TypeOK ==
    /\ sessions \in 0 .. MaxSessions
    /\ client \in [Tokens -> Clients \cup {NoClient}]
    /\ state \in [Tokens -> States]
    /\ password \in [Users -> Nat]
    /\ held \in [Clients -> Tokens \cup {NoToken}]
    /\ call \in [Callers -> Calls]
    /\ leaving \in [Clients -> Tokens \cup {NoToken}]
    /\ disturbances \in Nat
    /\ parent \in [Tokens -> Tokens \cup {NoToken}]
    /\ authOf \in [Tokens -> Nat]
    /\ escaped \in SUBSET Tokens
    /\ raced \in SUBSET Tokens
    /\ lost \in SUBSET Tokens

Init ==
    /\ sessions = 0
    /\ client = [t \in Tokens |-> NoClient]
    /\ state = [t \in Tokens |-> "ABSENT"]
    /\ password = [u \in Users |-> 0]
    /\ held = [c \in Clients |-> NoToken]
    /\ call = [p \in Callers |-> Idle]
    /\ leaving = [c \in Clients |-> NoToken]
    /\ disturbances = 0
    /\ parent = [t \in Tokens |-> NoToken]
    /\ authOf = [t \in Tokens |-> 0]
    /\ escaped = {}
    /\ raced = {}
    /\ lost = {}

-----------------------------------------------------------------------------

Issued == 1 .. sessions

UserOf(p) == OwnerOf[ClientOf[p]]

Live == {t \in Tokens : state[t] = "LIVE"}

Revoked == {t \in Tokens : state[t] \in {"ROTATED", "LOGGED_OUT", "CONDEMNED"}}

\* updateMany on the user's sessions that have no revokedAt.
Condemn(u) == state' = [t \in Tokens |-> IF t \in Live /\ OwnerOf[client[t]] = u
                                            THEN "CONDEMNED" ELSE state[t]]

Busy(p) == call[p].step # "idle"

\* A token is in hand while a call presents it or brings it.
InHand(t) == t # NoToken /\ \E p \in Callers : t \in {call[p].token, call[p].next}

\* Bound: every call under way can still have its session.
Room == sessions + Cardinality({p \in Callers : Busy(p)}) < MaxSessions

GoTo(p, s) == call' = [call EXCEPT ![p].step = s]

\* An answer goes to whoever still waits for it.
Answer(p, s) == call' = [call EXCEPT ![p] = IF @.heard THEN [@ EXCEPT !.step = s] ELSE Idle]

-----------------------------------------------------------------------------
(* The clients send.                                                         *)

\* Credentials were checked: verifyCustomerOtp or staffLogin.  An app shows
\* its login screen only without a token; a browser may in an old tab.
LogIn(p) ==
    LET c == ClientOf[p] IN
    /\ p \in Forms
    /\ ~Busy(p)
    /\ Room
    /\ c \in Apps => held[c] = NoToken
    /\ call' = [call EXCEPT ![p] = [Idle EXCEPT !.step = "entitled", !.heard = TRUE,
                                                !.auth = password[OwnerOf[c]]]]
    /\ UNCHANGED <<tableVars, state, password, held, leaving, disturbances, raced, lost>>

\* Mutant: every 401 handler refreshes on its own.
RefreshMutant(p) ==
    /\ ~Busy(p)
    /\ Room
    /\ held[ClientOf[p]] # NoToken
    /\ call' = [call EXCEPT ![p] = [Idle EXCEPT !.step = "sent", !.heard = TRUE,
                                                !.token = held[ClientOf[p]]]]
    /\ raced' = IF \E q \in Callers : /\ FlightOf[q] # FlightOf[p]
                                      /\ Busy(q) /\ call[q].token = held[ClientOf[p]]
                  THEN raced \cup {held[ClientOf[p]]} ELSE raced
    /\ UNCHANGED <<tableVars, state, password, held, leaving, disturbances, lost>>

\* A 401, or a page that loads: present the token, unless the flight is taken.
Refresh(p) ==
    LET t == held[ClientOf[p]] IN
    /\ ~Busy(p)
    /\ Room
    /\ t # NoToken
    /\ \A q \in Callers : FlightOf[q] = FlightOf[p] => ~(Busy(q) /\ call[q].heard)
    /\ call' = [call EXCEPT ![p] = [Idle EXCEPT !.step = "sent", !.heard = TRUE,
                                                !.token = t]]
    /\ raced' = IF InHand(t) \/ leaving[ClientOf[p]] = t THEN raced \cup {t} ELSE raced
    /\ UNCHANGED <<tableVars, state, password, held, leaving, disturbances, lost>>

-----------------------------------------------------------------------------
(* The server: rotateRefreshToken, then issueTokens.                         *)

\* Mutant: revokedAt is not looked at.
CheckMutant(p) ==
    /\ call[p].step = "sent"
    /\ call' = [call EXCEPT ![p].step = "live", ![p].auth = authOf[call[p].token]]
    /\ UNCHANGED <<tableVars, state, password, held, leaving, disturbances, raced, lost>>

\* The session is read; whether it is revoked is decided on what was read.
Check(p) ==
    LET t == call[p].token IN
    /\ call[p].step = "sent"
    /\ IF t \in Revoked
         THEN GoTo(p, "reuse")
         ELSE call' = [call EXCEPT ![p].step = "live", ![p].auth = authOf[t]]
    /\ UNCHANGED <<tableVars, state, password, held, leaving, disturbances, raced, lost>>

\* "Reuse detected": every session of the user is revoked, and it is reported.
ReportReuse(p) ==
    /\ call[p].step = "reuse"
    /\ Condemn(UserOf(p))
    /\ Answer(p, "refused")
    /\ UNCHANGED <<tableVars, password, held, leaving, disturbances, raced, lost>>

\* session.update by id, whether or not it was revoked since it was read.
Rotate(p) ==
    /\ call[p].step = "live"
    /\ state' = [state EXCEPT ![call[p].token] = "ROTATED"]
    /\ GoTo(p, "entitled")
    /\ UNCHANGED <<tableVars, password, held, leaving, disturbances, raced, lost>>

\* session.create: a new row, and the answer that carries its token.
Issue(p) ==
    LET t == sessions + 1  old == call[p].token IN
    /\ call[p].step = "entitled"
    /\ sessions < MaxSessions
    /\ sessions' = t
    /\ state' = [state EXCEPT ![t] = "LIVE"]
    /\ client' = [client EXCEPT ![t] = ClientOf[p]]
    /\ parent' = [parent EXCEPT ![t] = old]
    /\ authOf' = [authOf EXCEPT ![t] = call[p].auth]
    /\ escaped' = IF call[p].overtaken \/ old \in escaped THEN escaped \cup {t} ELSE escaped
    /\ call' = [call EXCEPT ![p] = IF @.heard THEN [@ EXCEPT !.step = "issued", !.next = t]
                                              ELSE Idle]
    /\ UNCHANGED <<password, held, leaving, disturbances, raced, lost>>

\* The token has expired, the request is throttled, or a query fails: an
\* error is answered, whatever was committed before.
Refuse(p) ==
    /\ call[p].step \in {"sent", "live", "reuse", "entitled"}
    /\ disturbances < MaxDisturbances
    /\ disturbances' = disturbances + 1
    /\ Answer(p, "refused")
    /\ UNCHANGED <<tableVars, state, password, held, leaving, raced, lost>>

-----------------------------------------------------------------------------
(* The clients receive.                                                      *)

\* Mutant: a token that is there is not overwritten.
StoreMutant(p) ==
    /\ call[p].step = "issued"
    /\ held' = [held EXCEPT ![ClientOf[p]] = IF @ = NoToken THEN call[p].next ELSE @]
    /\ call' = [call EXCEPT ![p] = Idle]
    /\ UNCHANGED <<tableVars, state, password, leaving, disturbances, raced, lost>>

\* setTokens, or the cookie is set; whatever was there is overwritten.
Store(p) ==
    /\ call[p].step = "issued"
    /\ held' = [held EXCEPT ![ClientOf[p]] = call[p].next]
    /\ call' = [call EXCEPT ![p] = Idle]
    /\ UNCHANGED <<tableVars, state, password, leaving, disturbances, raced, lost>>

\* A refresh that failed clears the token; a browser's 401 handler logs out too.
Clear(p) ==
    LET c == ClientOf[p] IN
    /\ call[p].step = "refused"
    /\ held' = IF call[p].token = NoToken THEN held ELSE [held EXCEPT ![c] = NoToken]
    /\ IF c \in Apps \/ p \in PageLoads \/ call[p].token = NoToken
         THEN call' = [call EXCEPT ![p] = Idle]
         ELSE GoTo(p, "clearing")
    /\ UNCHANGED <<tableVars, state, password, leaving, disturbances, raced, lost>>

\* revokeByRefreshToken: a session that has no revokedAt gets one.
RevokeOne(t) ==
    state' = IF t \in Live THEN [state EXCEPT ![t] = "LOGGED_OUT"] ELSE state

\* /api/auth/logout revokes what the cookie holds by now, if it gets through.
ClearCookie(p) ==
    LET c == ClientOf[p] IN
    /\ call[p].step = "clearing"
    /\ RevokeOne(held[c]) \/ UNCHANGED state
    /\ raced' = IF InHand(held[c]) THEN raced \cup {held[c]} ELSE raced
    /\ held' = [held EXCEPT ![c] = NoToken]
    /\ call' = [call EXCEPT ![p] = Idle]
    /\ UNCHANGED <<tableVars, password, leaving, disturbances, lost>>

\* Nobody waits for the call any more: an answer is lost, the server works on.
Unheard(p) ==
    IF call[p].step \in {"issued", "refused", "clearing"} THEN Idle
                                                          ELSE [call[p] EXCEPT !.heard = FALSE]

\* The connection breaks: the caller keeps the token it has.
Abandon(p) ==
    /\ call[p].heard
    /\ disturbances < MaxDisturbances
    /\ disturbances' = disturbances + 1
    /\ call' = [call EXCEPT ![p] = Unheard(p)]
    /\ lost' = lost \cup ({call[p].token} \ {NoToken})
    /\ UNCHANGED <<tableVars, state, password, held, leaving, raced>>

-----------------------------------------------------------------------------
(* Logout, shutdown, and the administrator's password reset.                 *)

LogOut(c) ==
    /\ held[c] # NoToken
    /\ leaving[c] = NoToken
    /\ leaving' = [leaving EXCEPT ![c] = held[c]]
    /\ raced' = IF InHand(held[c]) THEN raced \cup {held[c]} ELSE raced
    /\ UNCHANGED <<tableVars, state, password, held, call, disturbances, lost>>

\* The server logs out the token that was taken up, not the one held by now.
RevokeLeaving(c) ==
    /\ leaving[c] \in Live
    /\ RevokeOne(leaving[c])
    /\ UNCHANGED <<tableVars, password, held, call, leaving, disturbances, raced, lost>>

\* The token is cleared whether or not the server was reached.
FinishLogOut(c) ==
    /\ leaving[c] # NoToken
    /\ leaving' = [leaving EXCEPT ![c] = NoToken]
    /\ held' = [held EXCEPT ![c] = NoToken]
    /\ UNCHANGED <<tableVars, state, password, call, disturbances, raced, lost>>

CallersOf(c) == {p \in Callers : ClientOf[p] = c}

\* The app is killed, the browser closed: what is stored stays.
ShutDown(c) ==
    /\ disturbances < MaxDisturbances
    /\ disturbances' = disturbances + 1
    /\ leaving' = [leaving EXCEPT ![c] = NoToken]
    /\ call' = [p \in Callers |-> IF p \in CallersOf(c) THEN Unheard(p) ELSE call[p]]
    /\ lost' = lost \cup (({leaving[c]} \cup {call[p].token : p \in CallersOf(c)}) \ {NoToken})
    /\ UNCHANGED <<tableVars, state, password, held, raced>>

\* Mutant: the new password is stored, the sessions are left alone.
ResetPasswordMutant(u) ==
    /\ disturbances < MaxDisturbances
    /\ disturbances' = disturbances + 1
    /\ password' = [password EXCEPT ![u] = @ + 1]
    /\ UNCHANGED <<tableVars, state, held, call, leaving, raced, lost>>

\* One transaction.  Calls that passed their check are overtaken by it.
ResetPassword(u) ==
    /\ disturbances < MaxDisturbances
    /\ disturbances' = disturbances + 1
    /\ password' = [password EXCEPT ![u] = @ + 1]
    /\ Condemn(u)
    /\ call' = [p \in Callers |->
                  IF UserOf(p) = u /\ call[p].step \in {"live", "entitled"}
                    THEN [call[p] EXCEPT !.overtaken = TRUE] ELSE call[p]]
    /\ UNCHANGED <<tableVars, held, leaving, raced, lost>>

-----------------------------------------------------------------------------

Server(p) == Check(p) \/ ReportReuse(p) \/ Rotate(p) \/ Issue(p) \/ Refuse(p)

Caller(p) ==
    \/ LogIn(p) \/ Refresh(p) \/ Store(p) \/ Clear(p) \/ ClearCookie(p) \/ Abandon(p)

Client(c) == LogOut(c) \/ RevokeLeaving(c) \/ FinishLogOut(c) \/ ShutDown(c)

Next ==
    \/ \E p \in Callers : Server(p) \/ Caller(p)
    \/ \E c \in Clients : Client(c)
    \/ \E u \in Users : ResetPassword(u)

Spec == Init /\ [][Next]_vars

-----------------------------------------------------------------------------
(* Properties.                                                               *)

\* "Force re-authentication everywhere" (staff.service.ts:260): no session
\* outlives the password it was opened with, unless the reset overtook its
\* login or a refresh it descends from.
ResetEndsSessions ==
    \A t \in Live : t \in escaped \/ authOf[t] = password[OwnerOf[client[t]]]

\* One token is replaced twice only if two calls had it in hand at once.
ReplacedOnce ==
    \A s, t \in Issued : s # t /\ parent[s] = parent[t] /\ parent[s] # NoToken
                            => parent[s] \in raced

\* Nobody is logged out for nothing: a client holds a revoked token only
\* while it is being replaced or logged out, or because a reset or an alarm
\* revoked it, its answer was lost, or two of its calls raced.
LoggedOutForCause ==
    \A c \in Clients : held[c] \in Revoked =>
        \/ state[held[c]] = "CONDEMNED"
        \/ held[c] \in lost \cup raced
        \/ leaving[c] = held[c]
        \/ InHand(held[c])

\* The single flight is "the fix" (customer-mobile/src/api/client.ts:36): what
\* is taken for reuse is a token whose answer was lost or that two flights (or
\* a logout) raced with, or one that a reset or an earlier alarm had revoked.
AlarmForCause ==
    \A p \in Callers : call[p].step = "reuse" =>
        call[p].token \in lost \cup raced \/ state[call[p].token] = "CONDEMNED"

=============================================================================
