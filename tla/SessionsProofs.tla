--------------------------- MODULE SessionsProofs ---------------------------
(***************************************************************************)
(* Theorems about Sessions, for any number of users, clients, callers,     *)
(* flights, sessions and disturbances.  Four facts about the table and the *)
(* calls carry them: what exists and whose it is (ShapeInv), that a token  *)
(* on its way to its client is nobody else's (FreshInv), what a token that *)
(* is being replaced looks like (ReplaceInv), and why a token that a client *)
(* still shows is revoked (CauseInv).                                      *)
(***************************************************************************)
EXTENDS Sessions, TLAPS

\* A token that exists and was issued to the client.
Owned(t, c) == t \in Tokens /\ state[t] # "ABSENT" /\ client[t] = c

ShapeInv ==
    /\ \A t \in Tokens : state[t] = "ABSENT" <=> t > sessions
    /\ \A t \in Tokens : state[t] # "ABSENT" => client[t] \in Clients
    /\ \A c \in Clients : held[c] # NoToken => Owned(held[c], c)
    /\ \A c \in Clients : leaving[c] # NoToken => Owned(leaving[c], c)
    /\ \A p \in Callers : call[p].token # NoToken => Owned(call[p].token, ClientOf[p])
    /\ \A p \in Callers : call[p].step \in {"sent", "live", "reuse"} => call[p].token # NoToken
    /\ \A p \in Callers : call[p].step = "idle" => call[p] = Idle
    /\ \A p \in Callers : call[p].next # NoToken <=> call[p].step = "issued"
    /\ \A t \in Tokens : parent[t] # NoToken => t <= sessions /\ parent[t] <= sessions

FreshInv ==
    \A p \in Callers : call[p].step = "issued" =>
        LET n == call[p].next IN
        /\ Owned(n, ClientOf[p])
        /\ state[n] \in {"LIVE", "CONDEMNED"}
        /\ \A c \in Clients : held[c] # n /\ leaving[c] # n
        /\ \A q \in Callers : call[q].token # n /\ (q # p => call[q].next # n)

ReplaceInv ==
    /\ \A p \in Callers : call[p].step \in {"reuse", "entitled", "issued"} /\ call[p].token # NoToken
                            => call[p].token \in Revoked
    /\ \A t \in Tokens : parent[t] # NoToken => parent[t] \in Revoked
    /\ \A t \in Tokens, p \in Callers :
          parent[t] # NoToken /\ parent[t] = call[p].token /\ call[p].step \in {"live", "entitled"}
            => parent[t] \in raced
    /\ \A p, q \in Callers : p # q /\ call[p].token = call[q].token /\ call[p].token # NoToken
                            => call[p].token \in raced

CauseInv ==
    /\ \A p \in Callers : Busy(p) /\ ~call[p].heard => call[p].token \in lost \cup {NoToken}
    /\ \A p \in Callers : call[p].step \in {"sent", "reuse"} /\ call[p].token \in Revoked =>
          call[p].token \in lost \cup raced \/ state[call[p].token] = "CONDEMNED"
    /\ \A c \in Clients, p \in Callers : leaving[c] = call[p].token /\ leaving[c] # NoToken
                            => leaving[c] \in raced

AuthInv ==
    \A p \in Callers : call[p].step \in {"live", "entitled"} =>
        \/ call[p].overtaken
        \/ call[p].token \in escaped
        \/ call[p].auth = password[UserOf(p)]

Inv ==
    /\ ShapeInv
    /\ FreshInv
    /\ ReplaceInv
    /\ ReplacedOnce
    /\ CauseInv
    /\ LoggedOutForCause
    /\ AuthInv
    /\ ResetEndsSessions

-----------------------------------------------------------------------------
(* Type correctness.                                                         *)

LEMMA IdleIsCall == Idle \in Calls
BY DEF Idle, Calls, Steps, Tokens, NoToken

LEMMA Tokenhood == NoToken \notin Tokens /\ Tokens \subseteq Nat
BY SessionsAssumption DEF NoToken, Tokens

\* A step of the server keeps every variable in its range.
LEMMA ServerTypes ==
    ASSUME TypeOK, ShapeInv, NEW p \in Callers, Server(p)
    PROVE  TypeOK'
<1> USE IdleIsCall, Tokenhood, SessionsAssumption
<1>1. CASE Check(p)
  <2>1. call[p].token \in Tokens
    BY <1>1 DEF Check, ShapeInv, Owned
  <2>2. call' \in [Callers -> Calls]
    <3>1. authOf[call[p].token] \in Nat /\ call[p] \in Calls
      BY <2>1 DEF TypeOK
    <3>2. /\ [call[p] EXCEPT !.step = "reuse"] \in Calls
          /\ [call[p] EXCEPT !.step = "live", !.auth = authOf[call[p].token]] \in Calls
      BY <3>1 DEF Calls, Steps
    <3>3. \/ call' = [call EXCEPT ![p] = [call[p] EXCEPT !.step = "reuse"]]
          \/ call' = [call EXCEPT ![p] = [call[p] EXCEPT !.step = "live",
                                                         !.auth = authOf[call[p].token]]]
      BY <1>1 DEF Check, GoTo
    <3>4. QED
      BY <3>2, <3>3 DEF TypeOK
  <2>3. QED
    BY <1>1, <2>2 DEF Check, TypeOK, tableVars
<1>2. CASE ReportReuse(p)
  <2>1. call' \in [Callers -> Calls]
    BY <1>2 DEF ReportReuse, Answer, TypeOK, Calls, Steps
  <2>2. state' \in [Tokens -> States]
    BY <1>2 DEF ReportReuse, Condemn, TypeOK, States
  <2>3. QED
    BY <1>2, <2>1, <2>2 DEF ReportReuse, TypeOK, tableVars
<1>3. CASE Rotate(p)
  <2>1. call' \in [Callers -> Calls]
    BY <1>3 DEF Rotate, GoTo, TypeOK, Calls, Steps
  <2>2. state' \in [Tokens -> States]
    BY <1>3 DEF Rotate, TypeOK, States
  <2>3. QED
    BY <1>3, <2>1, <2>2 DEF Rotate, TypeOK, tableVars
<1>4. CASE Issue(p)
  <2>1. sessions + 1 \in Tokens /\ sessions' \in 0 .. MaxSessions
    BY <1>4 DEF Issue, TypeOK, Tokens
  <2>2. call' \in [Callers -> Calls]
    BY <1>4, <2>1 DEF Issue, TypeOK, Calls, Steps
  <2>3. /\ state' \in [Tokens -> States]
        /\ client' \in [Tokens -> Clients \cup {NoClient}]
        /\ parent' \in [Tokens -> Tokens \cup {NoToken}]
        /\ authOf' \in [Tokens -> Nat]
        /\ escaped' \in SUBSET Tokens
    BY <1>4, <2>1 DEF Issue, TypeOK, States, Calls
  <2>4. QED
    BY <1>4, <2>1, <2>2, <2>3 DEF Issue, TypeOK
<1>5. CASE Refuse(p)
  <2>1. call' \in [Callers -> Calls]
    BY <1>5 DEF Refuse, Answer, TypeOK, Calls, Steps
  <2>2. QED
    BY <1>5, <2>1 DEF Refuse, TypeOK, tableVars
<1>6. QED
  BY <1>1, <1>2, <1>3, <1>4, <1>5 DEF Server

\* A step of a client keeps every variable in its range.
LEMMA CallerTypes ==
    ASSUME TypeOK, NEW p \in Callers, Caller(p)
    PROVE  TypeOK'
<1> USE IdleIsCall, Tokenhood, SessionsAssumption
<1>1. CASE LogIn(p)
  <2>1. call' \in [Callers -> Calls]
    <3>1. password[UserOf(p)] \in Nat
      BY DEF TypeOK, UserOf
    <3>2. [Idle EXCEPT !.step = "entitled", !.heard = TRUE, !.auth = password[UserOf(p)]] \in Calls
      BY <3>1 DEF Calls, Steps, Idle, NoToken
    <3>3. QED
      BY <1>1, <3>2 DEF LogIn, TypeOK, UserOf
  <2>2. QED
    BY <1>1, <2>1 DEF LogIn, TypeOK, tableVars
<1>2. CASE Refresh(p)
  <2>1. held[ClientOf[p]] \in Tokens
    BY <1>2 DEF Refresh, TypeOK
  <2>2. call' \in [Callers -> Calls]
    BY <1>2, <2>1 DEF Refresh, TypeOK, Calls, Steps, Idle
  <2>3. QED
    BY <1>2, <2>1, <2>2 DEF Refresh, TypeOK, tableVars
<1>3. CASE Store(p)
  BY <1>3 DEF Store, TypeOK, tableVars, Calls
<1>4. CASE Clear(p)
  <2>1. call' \in [Callers -> Calls]
    <3>1. [call[p] EXCEPT !.step = "clearing"] \in Calls
      BY DEF TypeOK, Calls, Steps
    <3>2. \/ call' = [call EXCEPT ![p] = Idle]
          \/ call' = [call EXCEPT ![p] = [call[p] EXCEPT !.step = "clearing"]]
      BY <1>4 DEF Clear, GoTo
    <3>3. QED
      BY <3>1, <3>2 DEF TypeOK
  <2>2. QED
    BY <1>4, <2>1 DEF Clear, TypeOK, tableVars
<1>5. CASE ClearCookie(p)
  <2>1. held[ClientOf[p]] \in Tokens \cup {NoToken}
    BY DEF TypeOK
  <2>2. state' \in [Tokens -> States]
    BY <1>5 DEF ClearCookie, RevokeOne, TypeOK, States
  <2>3. raced' \in SUBSET Tokens
    BY <1>5, <2>1 DEF ClearCookie, InHand, TypeOK
  <2>4. QED
    BY <1>5, <2>2, <2>3 DEF ClearCookie, TypeOK, tableVars
<1>6. CASE Abandon(p)
  <2>1. call' \in [Callers -> Calls]
    <3>1. Unheard(p) \in Calls
      BY DEF Unheard, TypeOK, Calls
    <3>2. QED
      BY <1>6, <3>1 DEF Abandon, TypeOK
  <2>2. lost' \in SUBSET Tokens
    <3>1. call[p].token \in Tokens \cup {NoToken}
      BY DEF TypeOK, Calls
    <3>2. QED
      BY <1>6, <3>1 DEF Abandon, TypeOK
  <2>3. QED
    BY <1>6, <2>1, <2>2 DEF Abandon, TypeOK, tableVars
<1>7. QED
  BY <1>1, <1>2, <1>3, <1>4, <1>5, <1>6 DEF Caller

\* Logout, shutdown and reset keep every variable in its range.
LEMMA ClientTypes ==
    ASSUME TypeOK, NEW c \in Clients, Client(c)
    PROVE  TypeOK'
<1> USE IdleIsCall, Tokenhood, SessionsAssumption
<1>1. CASE LogOut(c)
  BY <1>1 DEF LogOut, InHand, TypeOK, tableVars
<1>2. CASE RevokeLeaving(c)
  BY <1>2 DEF RevokeLeaving, RevokeOne, TypeOK, tableVars, States
<1>3. CASE FinishLogOut(c)
  BY <1>3 DEF FinishLogOut, TypeOK, tableVars
<1>4. CASE ShutDown(c)
  <2>1. call' \in [Callers -> Calls]
    <3>1. \A q \in Callers : Unheard(q) \in Calls
      BY DEF Unheard, TypeOK, Calls
    <3>2. QED
      BY <1>4, <3>1 DEF ShutDown, TypeOK
  <2>2. lost' \in SUBSET Tokens
    <3>1. \A q \in Callers : call[q].token \in Tokens \cup {NoToken}
      BY DEF TypeOK, Calls
    <3>2. {call[q].token : q \in CallersOf(c)} \subseteq Tokens \cup {NoToken}
      BY <3>1 DEF CallersOf
    <3>3. leaving[c] \in Tokens \cup {NoToken} /\ lost \in SUBSET Tokens
      BY DEF TypeOK
    <3>4. QED
      BY <1>4, <3>2, <3>3, Zenon DEF ShutDown
  <2>3. leaving' \in [Clients -> Tokens \cup {NoToken}]
    BY <1>4 DEF ShutDown, TypeOK
  <2>4. QED
    BY <1>4, <2>1, <2>2, <2>3 DEF ShutDown, TypeOK, tableVars
<1>5. QED
  BY <1>1, <1>2, <1>3, <1>4 DEF Client

LEMMA ResetTypes ==
    ASSUME TypeOK, NEW u \in Users, ResetPassword(u)
    PROVE  TypeOK'
<1>1. call' \in [Callers -> Calls]
  <2>1. \A q \in Callers : [call[q] EXCEPT !.overtaken = TRUE] \in Calls
    BY DEF TypeOK, Calls
  <2>2. QED
    BY <2>1 DEF ResetPassword, TypeOK
<1>2. state' \in [Tokens -> States]
  BY DEF ResetPassword, Condemn, TypeOK, States
<1>3. QED
  BY <1>1, <1>2 DEF ResetPassword, TypeOK, tableVars

LEMMA InitTypes == Init => TypeOK /\ Inv
<1>1. Init => TypeOK
  BY IdleIsCall, Tokenhood, SessionsAssumption DEF Init, TypeOK, States
<1>2. Init => Inv
  BY Tokenhood, SessionsAssumption
     DEF Init, Inv, ShapeInv, FreshInv, ReplaceInv, ReplacedOnce, CauseInv, LoggedOutForCause,
         AuthInv, ResetEndsSessions, Idle, Live, Revoked, Issued, Tokens, NoToken, Busy
<1>3. QED
  BY <1>1, <1>2

-----------------------------------------------------------------------------
(* The invariant: steps that only withdraw.  In nine of the actions calls   *)
(* end or fail, clients let go of tokens, and sessions are revoked; what    *)
(* they have in common is enough for the invariant.                         *)

\* What may become of a call: over, or failing, or no longer heard.
Withdrawn(q) ==
    \/ call'[q] = call[q]
    \/ /\ Busy(q)
       /\ call'[q] = Idle
       /\ call[q].token \in lost' \cup {NoToken} \/ held'[ClientOf[q]] = NoToken
    \/ /\ Busy(q)
       /\ call'[q].token = call[q].token
       /\ call'[q].auth = call[q].auth /\ call'[q].overtaken = call[q].overtaken
       /\ call'[q].next = call[q].next
       /\ \/ call'[q].step = call[q].step
          \/ /\ call[q].step # "issued"
             /\ call'[q].step \in {"refused", "clearing"}
       /\ call'[q].heard = call[q].heard \/ call[q].token \in lost' \cup {NoToken}

\* A logout takes up the token that is held, drops one, or leaves it.
Departs(c) ==
    /\ \/ leaving'[c] \in {leaving[c], NoToken}
       \/ leaving'[c] = held[c] /\ (InHand(held[c]) => held[c] \in raced')
    /\ leaving[c] \in {NoToken, leaving'[c]} \cup lost' \/ held'[c] = NoToken

\* A token is logged out by its client, which shows it no longer or is
\* logging out; a call that still has it is in a race.
Parting(t) ==
    \E c \in Clients :
        \/ t = leaving[c] /\ leaving'[c] = leaving[c]
        \/ t = held[c] /\ held'[c] = NoToken /\ (InHand(t) => t \in raced')

Retreat ==
    /\ UNCHANGED <<tableVars, password>>
    /\ raced \subseteq raced' /\ lost \subseteq lost'
    /\ \A q \in Callers : Withdrawn(q)
    /\ \A c \in Clients : held'[c] \in {held[c], NoToken} /\ Departs(c)
    /\ \A t \in Tokens : state'[t] # state[t] =>
          /\ state[t] = "LIVE"
          /\ state'[t] = "CONDEMNED" \/ (state'[t] = "LOGGED_OUT" /\ Parting(t))

\* Tokens stay where they belong.
LEMMA RetreatShape ==
    ASSUME TypeOK, TypeOK', Inv, Retreat
    PROVE  ShapeInv' /\ FreshInv'
<1> USE Tokenhood DEF Inv, TypeOK
<1>1. /\ UNCHANGED tableVars
      /\ \A t \in Tokens : state'[t] = "ABSENT" <=> state[t] = "ABSENT"
      /\ \A t, c : Owned(t, c) => Owned(t, c)'
  BY DEF Retreat, Owned, tableVars
<1>2. \A q \in Callers :
        /\ call'[q].token \in {call[q].token, NoToken}
        /\ call'[q].next \in {call[q].next, NoToken}
        /\ call'[q].step = "issued" => call[q].step = "issued" /\ call'[q].next = call[q].next
  BY DEF Retreat, Withdrawn, Idle
<1>3. \A c \in Clients : /\ held'[c] \in {held[c], NoToken}
                         /\ leaving'[c] \in {leaving[c], held[c], NoToken}
  BY DEF Retreat, Departs
<1>4. ShapeInv'
  <2>1. /\ \A t \in Tokens : state'[t] = "ABSENT" <=> t > sessions'
        /\ \A t \in Tokens : state'[t] # "ABSENT" => client'[t] \in Clients
        /\ \A t \in Tokens : parent'[t] # NoToken => t <= sessions' /\ parent'[t] <= sessions'
    BY <1>1 DEF ShapeInv, tableVars
  <2>2. /\ \A c \in Clients : held'[c] # NoToken => Owned(held[c], c)' /\ held'[c] = held[c]
        /\ \A c \in Clients : leaving'[c] # NoToken => Owned(leaving'[c], c)
    BY <1>1, <1>3 DEF ShapeInv
  <2>3. \A q \in Callers : call'[q].token # NoToken => Owned(call'[q].token, ClientOf[q])
    BY <1>2 DEF ShapeInv
  <2>4. \A q \in Callers :
          /\ call'[q].step \in {"sent", "live", "reuse"} => call'[q].token # NoToken
          /\ call'[q].step = "idle" => call'[q] = Idle
          /\ call'[q].next # NoToken <=> call'[q].step = "issued"
    <3> SUFFICES ASSUME NEW q \in Callers
                 PROVE  /\ call'[q].step \in {"sent", "live", "reuse"} => call'[q].token # NoToken
                        /\ call'[q].step = "idle" => call'[q] = Idle
                        /\ call'[q].next # NoToken <=> call'[q].step = "issued"
      OBVIOUS
    <3>1. CASE call'[q] = Idle
      BY <3>1 DEF Idle
    <3>2. CASE call'[q] # Idle
      BY <3>2 DEF Retreat, Withdrawn, ShapeInv, Busy
    <3>3. QED
      BY <3>1, <3>2
  <2>5. QED
    BY <1>1, <2>1, <2>2, <2>3, <2>4, Zenon DEF ShapeInv
<1>5. FreshInv'
  <2> SUFFICES ASSUME NEW p \in Callers, call'[p].step = "issued", NEW n, n = call'[p].next
               PROVE  /\ Owned(n, ClientOf[p])'
                      /\ state'[n] \in {"LIVE", "CONDEMNED"}
                      /\ \A c \in Clients : held'[c] # n /\ leaving'[c] # n
                      /\ \A q \in Callers : call'[q].token # n /\ (q # p => call'[q].next # n)
    BY DEF FreshInv
  <2>1. /\ call[p].step = "issued" /\ call[p].next = n /\ n # NoToken
        /\ Owned(n, ClientOf[p]) /\ n \in Tokens
        /\ state[n] \in {"LIVE", "CONDEMNED"}
        /\ \A c \in Clients : held[c] # n /\ leaving[c] # n
        /\ \A q \in Callers : call[q].token # n /\ (q # p => call[q].next # n)
    BY <1>2 DEF FreshInv, ShapeInv, Owned
  <2>2. state'[n] \in {"LIVE", "CONDEMNED"}
    BY <2>1 DEF Retreat, Parting
  <2>3. QED
    BY <1>1, <1>2, <1>3, <2>1, <2>2
<1>6. QED
  BY <1>4, <1>5

\* No token is replaced, and none that was replaced comes back.
LEMMA RetreatReplace ==
    ASSUME TypeOK, TypeOK', Inv, Retreat
    PROVE  ReplaceInv' /\ ReplacedOnce'
<1> USE Tokenhood DEF Inv, TypeOK
<1>1. /\ parent' = parent /\ Issued' = Issued
      /\ Revoked \subseteq Revoked' /\ raced \subseteq raced'
  BY DEF Retreat, tableVars, Revoked, Issued
<1>2. \A q \in Callers :
        \/ call'[q].token = NoToken
        \/ /\ call'[q].token = call[q].token
           /\ call'[q].step \in {"live", "reuse", "entitled", "issued"}
                => call'[q].step = call[q].step
  BY DEF Retreat, Withdrawn, Idle
<1>3. ReplaceInv'
  BY <1>1, <1>2 DEF ReplaceInv
<1>4. ReplacedOnce'
  BY <1>1 DEF ReplacedOnce
<1>5. QED
  BY <1>3, <1>4

\* Nothing is withdrawn from a client without a cause.
LEMMA RetreatCause ==
    ASSUME TypeOK, TypeOK', Inv, Retreat
    PROVE  CauseInv' /\ LoggedOutForCause'
<1> USE Tokenhood DEF Inv, TypeOK
<1>1. raced \subseteq raced' /\ lost \subseteq lost'
  BY DEF Retreat
<1>2. CauseInv'
  <2>1. ASSUME NEW q \in Callers, Busy(q)', ~call'[q].heard
        PROVE  call'[q].token \in lost' \cup {NoToken}
    <3>1. call'[q] # Idle
      BY <2>1 DEF Busy, Idle
    <3>2. Busy(q) /\ call'[q].token = call[q].token
      BY <2>1, <3>1 DEF Retreat, Withdrawn, Busy
    <3>3. \/ call[q].heard = call'[q].heard
          \/ call[q].token \in lost' \cup {NoToken}
      BY <3>1 DEF Retreat, Withdrawn
    <3>4. QED
      BY <1>1, <2>1, <3>2, <3>3 DEF CauseInv
  <2>2. ASSUME NEW q \in Callers, call'[q].step \in {"sent", "reuse"}, call'[q].token \in Revoked'
        PROVE  call'[q].token \in lost' \cup raced' \/ state'[call'[q].token] = "CONDEMNED"
    <3>1. call[q].step = call'[q].step /\ call[q].token = call'[q].token
      BY <2>2 DEF Retreat, Withdrawn, Idle
    <3> DEFINE t == call[q].token
    <3>2. t \in Tokens /\ t # NoToken
      BY <2>2, <3>1 DEF Revoked
    <3>3. CASE state'[t] = state[t]
      BY <1>1, <2>2, <3>1, <3>2, <3>3 DEF CauseInv, Revoked
    <3>4. CASE state'[t] = "LOGGED_OUT" /\ Parting(t)
      <4>1. PICK c \in Clients : \/ t = leaving[c]
                                 \/ InHand(t) => t \in raced'
        BY <3>4 DEF Parting
      <4>2. InHand(t)
        BY <3>2 DEF InHand
      <4>3. t \in raced'
        BY <1>1, <3>2, <4>1, <4>2 DEF CauseInv
      <4>4. QED
        BY <3>1, <4>3
    <3>5. QED
      BY <3>1, <3>2, <3>3, <3>4 DEF Retreat
  <2>3. ASSUME NEW c \in Clients, NEW q \in Callers, leaving'[c] = call'[q].token,
               leaving'[c] # NoToken
        PROVE  leaving'[c] \in raced'
    <3>1. call[q].token = leaving'[c]
      BY <2>3 DEF Retreat, Withdrawn, Idle
    <3>2. CASE leaving'[c] = leaving[c]
      BY <1>1, <2>3, <3>1, <3>2 DEF CauseInv
    <3>3. CASE leaving'[c] = held[c] /\ (InHand(held[c]) => held[c] \in raced')
      BY <2>3, <3>1, <3>3 DEF InHand
    <3>4. QED
      BY <2>3, <3>2, <3>3 DEF Retreat, Departs
  <2>4. QED
    BY <2>1, <2>2, <2>3 DEF CauseInv
<1>3. LoggedOutForCause'
  <2> SUFFICES ASSUME NEW c \in Clients, held'[c] \in Revoked'
               PROVE  \/ state'[held'[c]] = "CONDEMNED"
                      \/ held'[c] \in lost' \cup raced'
                      \/ leaving'[c] = held'[c]
                      \/ InHand(held[c])' /\ held'[c] = held[c]
    BY DEF LoggedOutForCause, InHand
  <2> DEFINE t == held[c]
  <2>1. held'[c] = t /\ t \in Tokens /\ t # NoToken /\ Owned(t, c)
    BY DEF Retreat, Revoked, ShapeInv
  <2>2. CASE state'[t] = "LOGGED_OUT" /\ Parting(t)
    <3>1. PICK d \in Clients : \/ t = leaving[d] /\ leaving'[d] = leaving[d]
                               \/ t = held[d] /\ held'[d] = NoToken
      BY <2>2 DEF Parting
    <3>2. d = c
      BY <2>1, <3>1 DEF ShapeInv, Owned
    <3>3. QED
      BY <2>1, <3>1, <3>2
  <2>3. CASE state'[t] = state[t]
    <3>1. \/ state[t] = "CONDEMNED"
          \/ t \in lost \cup raced
          \/ leaving[c] = t
          \/ InHand(t)
      BY <2>1, <2>3 DEF LoggedOutForCause, Revoked
    <3>2. CASE leaving[c] = t
      BY <2>1, <3>2 DEF Retreat, Departs
    <3>3. CASE InHand(t)
      <4>1. PICK q \in Callers : t \in {call[q].token, call[q].next}
        BY <3>3 DEF InHand
      <4>2. t = call[q].token
        BY <2>1, <4>1 DEF FreshInv, ShapeInv
      <4>3. ClientOf[q] = c
        BY <2>1, <4>2 DEF ShapeInv, Owned
      <4>4. call'[q].token = t \/ t \in lost'
        BY <2>1, <4>2, <4>3 DEF Retreat, Withdrawn
      <4>5. call'[q].token = t => InHand(t)'
        BY <2>1 DEF InHand
      <4>6. QED
        BY <2>1, <4>4, <4>5
    <3>4. QED
      BY <1>1, <2>1, <2>3, <3>1, <3>2, <3>3
  <2>4. QED
    BY <2>1, <2>2, <2>3 DEF Retreat
<1>4. QED
  BY <1>2, <1>3

\* No session and no call gets a claim to a password.
LEMMA RetreatAuth ==
    ASSUME TypeOK, TypeOK', Inv, Retreat
    PROVE  AuthInv' /\ ResetEndsSessions'
<1> USE Tokenhood DEF Inv, TypeOK
<1>1. AuthInv'
  <2> SUFFICES ASSUME NEW q \in Callers, call'[q].step \in {"live", "entitled"}
               PROVE  \/ call'[q].overtaken
                      \/ call'[q].token \in escaped'
                      \/ call'[q].auth = password'[UserOf(q)]
    BY DEF AuthInv, UserOf
  <2>1. call[q].step \in {"live", "entitled"} /\ call'[q].token = call[q].token
        /\ call'[q].auth = call[q].auth /\ call'[q].overtaken = call[q].overtaken
    BY DEF Retreat, Withdrawn, Idle
  <2>2. QED
    BY <2>1 DEF AuthInv, Retreat, tableVars
<1>2. ResetEndsSessions'
  <2>1. Live' \subseteq Live
    BY DEF Retreat, Live
  <2>2. QED
    BY <2>1 DEF ResetEndsSessions, Retreat, tableVars
<1>3. QED
  BY <1>1, <1>2

LEMMA RetreatStep ==
    ASSUME TypeOK, TypeOK', Inv, Retreat
    PROVE  Inv'
BY RetreatShape, RetreatReplace, RetreatCause, RetreatAuth DEF Inv

LEMMA AnswerWithdraws ==
    ASSUME TypeOK, Inv, NEW p \in Callers, Answer(p, "refused"), Busy(p),
           call[p].step # "issued", lost \subseteq lost'
    PROVE  \A q \in Callers : Withdrawn(q)
<1> SUFFICES ASSUME NEW q \in Callers PROVE Withdrawn(q)
  OBVIOUS
<1>1. CASE q # p
  BY <1>1 DEF Answer, Withdrawn, TypeOK
<1>2. CASE q = p /\ call[p].heard
  <2>1. call'[p] = [call[p] EXCEPT !.step = "refused"] /\ call[p] \in Calls
    BY <1>2 DEF Answer, TypeOK
  <2>2. QED
    BY <1>2, <2>1 DEF Withdrawn, Calls
<1>3. CASE q = p /\ ~call[p].heard
  <2>1. call'[p] = Idle /\ call[p].token \in lost' \cup {NoToken}
    BY <1>3 DEF Answer, TypeOK, Inv, CauseInv
  <2>2. QED
    BY <1>3, <2>1 DEF Withdrawn
<1>4. QED
  BY <1>1, <1>2, <1>3

\* The actions of a call that ends or fails.
LEMMA CallRetreats ==
    ASSUME TypeOK, Inv, NEW p \in Callers,
           ReportReuse(p) \/ Refuse(p) \/ Clear(p) \/ ClearCookie(p) \/ Abandon(p)
    PROVE  Retreat
<1> USE Tokenhood, SessionsAssumption
<1>0. call[p] \in Calls
  BY DEF TypeOK
<1>1. CASE ReportReuse(p)
  <2>1. \A q \in Callers : Withdrawn(q)
    BY <1>1, AnswerWithdraws DEF ReportReuse, Busy
  <2>2. \A t \in Tokens : state'[t] # state[t] => state[t] = "LIVE" /\ state'[t] = "CONDEMNED"
    BY <1>1 DEF ReportReuse, Condemn, Live, TypeOK
  <2>3. QED
    BY <1>1, <2>1, <2>2 DEF ReportReuse, Retreat, Departs
<1>2. CASE Refuse(p)
  <2>1. \A q \in Callers : Withdrawn(q)
    BY <1>2, AnswerWithdraws DEF Refuse, Busy
  <2>2. QED
    BY <1>2, <2>1 DEF Refuse, Retreat, Departs
<1>3. CASE Clear(p)
  <2>1. /\ call[p].step = "refused" /\ Busy(p)
        /\ \A c \in Clients : held'[c] \in {held[c], NoToken}
        /\ call[p].token # NoToken => held'[ClientOf[p]] = NoToken
        /\ UNCHANGED <<tableVars, state, password, leaving, disturbances, raced, lost>>
    BY <1>3 DEF Clear, Busy, TypeOK
  <2>2. \/ call' = [call EXCEPT ![p] = Idle]
        \/ call' = [call EXCEPT ![p].step = "clearing"]
    BY <1>3 DEF Clear, GoTo
  <2>3. \A q \in Callers : Withdrawn(q)
    <3>1. CASE call' = [call EXCEPT ![p] = Idle]
      BY <2>1, <3>1 DEF Withdrawn, TypeOK
    <3>2. CASE call' = [call EXCEPT ![p].step = "clearing"]
      BY <1>0, <2>1, <3>2 DEF Withdrawn, TypeOK, Calls
    <3>3. QED
      BY <2>2, <3>1, <3>2
  <2>4. QED
    BY <2>1, <2>3 DEF Retreat, Departs
<1>4. CASE ClearCookie(p)
  <2> DEFINE c == ClientOf[p]
  <2>1. /\ c \in Clients /\ held'[c] = NoToken
        /\ \A d \in Clients : held'[d] \in {held[d], NoToken}
        /\ InHand(held[c]) => held[c] \in raced'
        /\ raced \subseteq raced'
        /\ UNCHANGED <<tableVars, password, leaving, disturbances, lost>>
    BY <1>4 DEF ClearCookie, TypeOK
  <2>2. \A q \in Callers : Withdrawn(q)
    BY <1>4, <2>1 DEF ClearCookie, Withdrawn, TypeOK, Busy
  <2>3. \A t \in Tokens : state'[t] # state[t] =>
            state[t] = "LIVE" /\ state'[t] = "LOGGED_OUT" /\ t = held[c]
    BY <1>4 DEF ClearCookie, RevokeOne, Live, TypeOK
  <2>4. QED
    BY <2>1, <2>2, <2>3 DEF Retreat, Departs, Parting
<1>5. CASE Abandon(p)
  <2>1. Busy(p)
    BY <1>5 DEF Abandon, Busy, Inv, ShapeInv, Idle
  <2>2. call[p].token \in lost' \cup {NoToken} /\ lost \subseteq lost'
    BY <1>5 DEF Abandon
  <2>3. \A q \in Callers : Withdrawn(q)
    <3>1. \A q \in Callers : q # p => call'[q] = call[q]
      BY <1>5 DEF Abandon, TypeOK
    <3>2. call'[p] = Idle \/ call'[p] = [call[p] EXCEPT !.heard = FALSE]
      BY <1>5 DEF Abandon, Unheard, TypeOK
    <3>3. QED
      BY <1>0, <2>1, <2>2, <3>1, <3>2 DEF Withdrawn, Calls
  <2>4. QED
    BY <1>5, <2>2, <2>3 DEF Abandon, Retreat, Departs
<1>6. QED
  BY <1>1, <1>2, <1>3, <1>4, <1>5

\* The actions of a client that logs out or is shut down.
LEMMA ClientRetreats ==
    ASSUME TypeOK, Inv, NEW c \in Clients, Client(c)
    PROVE  Retreat
<1> USE Tokenhood, SessionsAssumption
<1>1. CASE LogOut(c)
  <2>1. /\ \A d \in Clients : held'[d] = held[d] /\ (d # c => leaving'[d] = leaving[d])
        /\ leaving[c] = NoToken /\ leaving'[c] = held[c]
        /\ InHand(held[c]) => held[c] \in raced'
        /\ raced \subseteq raced'
        /\ UNCHANGED <<tableVars, state, password, call, disturbances, lost>>
    BY <1>1 DEF LogOut, TypeOK
  <2>2. QED
    BY <2>1 DEF Retreat, Departs, Withdrawn
<1>2. CASE RevokeLeaving(c)
  <2>1. \A t \in Tokens : state'[t] # state[t] =>
            state[t] = "LIVE" /\ state'[t] = "LOGGED_OUT" /\ t = leaving[c]
    BY <1>2 DEF RevokeLeaving, RevokeOne, Live, TypeOK
  <2>2. UNCHANGED <<tableVars, password, held, call, leaving, disturbances, raced, lost>>
    BY <1>2 DEF RevokeLeaving
  <2>3. QED
    BY <2>1, <2>2 DEF Retreat, Departs, Parting, Withdrawn
<1>3. CASE FinishLogOut(c)
  <2>1. /\ \A d \in Clients : d # c => held'[d] = held[d] /\ leaving'[d] = leaving[d]
        /\ held'[c] = NoToken /\ leaving'[c] = NoToken
        /\ UNCHANGED <<tableVars, state, password, call, disturbances, raced, lost>>
    BY <1>3 DEF FinishLogOut, TypeOK
  <2>2. QED
    BY <2>1 DEF Retreat, Departs, Withdrawn
<1>4. CASE ShutDown(c)
  <2>1. /\ lost \subseteq lost' /\ leaving[c] \in lost' \cup {NoToken}
        /\ \A q \in CallersOf(c) : call[q].token \in lost' \cup {NoToken}
    BY <1>4, Zenon DEF ShutDown
  <2>2. /\ \A d \in Clients : held'[d] = held[d] /\ (d # c => leaving'[d] = leaving[d])
        /\ leaving'[c] = NoToken
        /\ UNCHANGED <<tableVars, state, password, raced>>
    BY <1>4 DEF ShutDown, TypeOK
  <2>3. \A q \in Callers : Withdrawn(q)
    <3> SUFFICES ASSUME NEW q \in Callers PROVE Withdrawn(q)
      OBVIOUS
    <3>1. CASE q \notin CallersOf(c)
      BY <1>4, <3>1 DEF ShutDown, Withdrawn
    <3>2. CASE q \in CallersOf(c)
      <4>1. call'[q] = Unheard(q) /\ call[q] \in Calls
        BY <1>4, <3>2 DEF ShutDown, TypeOK
      <4>2. CASE call[q].step \in {"issued", "refused", "clearing"}
        BY <2>1, <3>2, <4>1, <4>2 DEF Unheard, Withdrawn, Busy
      <4>3. CASE call[q].step = "idle"
        <5>1. call[q].heard = FALSE
          BY <4>3 DEF Inv, ShapeInv, Idle
        <5>2. call'[q] = call[q]
          BY <4>1, <4>3, <5>1 DEF Unheard, Calls
        <5>3. QED
          BY <5>2 DEF Withdrawn
      <4>4. CASE call[q].step \notin {"issued", "refused", "clearing", "idle"}
        BY <2>1, <3>2, <4>1, <4>4 DEF Unheard, Withdrawn, Calls, Busy
      <4>5. QED
        BY <4>2, <4>3, <4>4
    <3>3. QED
      BY <3>1, <3>2
  <2>4. QED
    BY <2>1, <2>2, <2>3 DEF Retreat, Departs
<1>5. QED
  BY <1>1, <1>2, <1>3, <1>4 DEF Client

-----------------------------------------------------------------------------
(* The steps that advance: a login or a refresh, from its call to its token. *)

LEMMA IdleFields ==
    /\ Idle.step = "idle" /\ Idle.token = NoToken /\ Idle.next = NoToken
    /\ Idle.heard = FALSE
BY DEF Idle

\* A token that was revoked is not taken for live.
LEMMA CheckStep ==
    ASSUME TypeOK, TypeOK', Inv, NEW p \in Callers, Check(p)
    PROVE  Inv'
<1> USE Tokenhood, SessionsAssumption
<1>0. /\ call[p].step = "sent" /\ call[p].token \in Tokens
      /\ call'[p].step \in {"live", "reuse"}
      /\ call[p].token \in Revoked <=> call'[p].step = "reuse"
      /\ call'[p].step = "live" => call'[p].auth = authOf[call[p].token]
      /\ call'[p].token = call[p].token /\ call'[p].next = call[p].next
      /\ call'[p].heard = call[p].heard
      /\ \A q \in Callers : q # p => call'[q] = call[q]
      /\ UNCHANGED <<tableVars, state, password, held, leaving, raced, lost>>
  BY DEF Check, GoTo, TypeOK, Calls, Inv, ShapeInv, Owned
<1>1. ShapeInv'
  BY <1>0 DEF Inv, tableVars, ShapeInv, Owned
<1>2. FreshInv'
  BY <1>0 DEF Inv, tableVars, FreshInv, ShapeInv, Owned
<1>3. ReplaceInv' /\ ReplacedOnce'
  <2>1. ReplaceInv'
    BY <1>0 DEF Inv, tableVars, ReplaceInv, Revoked
  <2>2. ReplacedOnce'
    BY <1>0 DEF Inv, tableVars, ReplacedOnce, Issued
  <2>3. QED
    BY <2>1, <2>2
<1>4. CauseInv'
  BY <1>0 DEF Inv, tableVars, CauseInv, Revoked, Busy
<1>5. LoggedOutForCause'
  BY <1>0 DEF Inv, tableVars, LoggedOutForCause, Revoked, InHand
<1>6. AuthInv' /\ ResetEndsSessions'
  <2>1. ASSUME call'[p].step = "live"
        PROVE  call[p].token \in escaped \/ call'[p].auth = password[UserOf(p)]
    <3>1. Owned(call[p].token, ClientOf[p]) /\ call[p].token \notin Revoked
      BY <1>0, <2>1 DEF Inv, ShapeInv
    <3>2. call[p].token \in Live
      BY <3>1 DEF Owned, Revoked, Live, TypeOK, States
    <3>3. QED
      BY <1>0, <2>1, <3>1, <3>2 DEF Inv, ResetEndsSessions, Owned, UserOf
  <2>2. AuthInv'
    BY <1>0, <2>1 DEF Inv, tableVars, AuthInv, UserOf
  <2>3. ResetEndsSessions'
    BY <1>0 DEF Inv, tableVars, ResetEndsSessions, Live
  <2>4. QED
    BY <2>2, <2>3
<1>7. QED
  BY <1>1, <1>2, <1>3, <1>4, <1>5, <1>6 DEF Inv

\* Of two calls that rotate one token, both have it in hand.
LEMMA RotateStep ==
    ASSUME TypeOK, TypeOK', Inv, NEW p \in Callers, Rotate(p)
    PROVE  Inv'
<1> USE Tokenhood, SessionsAssumption
<1>0. /\ call[p].step = "live" /\ call[p].token \in Tokens
      /\ Owned(call[p].token, ClientOf[p])
      /\ call'[p].step = "entitled"
      /\ call'[p].token = call[p].token /\ call'[p].next = call[p].next
      /\ call'[p].heard = call[p].heard /\ call'[p].auth = call[p].auth
      /\ call'[p].overtaken = call[p].overtaken
      /\ \A q \in Callers : q # p => call'[q] = call[q]
      /\ state'[call[p].token] = "ROTATED"
      /\ \A t \in Tokens : t # call[p].token => state'[t] = state[t]
      /\ UNCHANGED <<tableVars, password, held, leaving, raced, lost>>
  BY DEF Rotate, GoTo, TypeOK, Calls, Inv, ShapeInv, Owned
<1>8. /\ \A t \in Tokens : state'[t] = "ABSENT" <=> state[t] = "ABSENT"
      /\ \A t, c : Owned(t, c)' <=> Owned(t, c)
      /\ \A t : t \in Revoked' <=> t \in Revoked \/ t = call[p].token
      /\ Live' \subseteq Live
  BY <1>0 DEF Owned, tableVars, Revoked, Live
<1>9. \A q \in Callers :
        /\ call'[q].token = call[q].token /\ call'[q].next = call[q].next
        /\ call'[q].heard = call[q].heard
        /\ q # p => call'[q] = call[q]
  BY <1>0
<1>1. ShapeInv'
  <2>1. \A q \in Callers :
          /\ call'[q].step \in {"sent", "live", "reuse"} => call'[q].token # NoToken
          /\ call'[q].step = "idle" => call'[q] = Idle
          /\ call'[q].next # NoToken <=> call'[q].step = "issued"
    BY <1>0 DEF Inv, ShapeInv
  <2>2. QED
    BY <1>0, <1>8, <1>9, <2>1 DEF Inv, tableVars, ShapeInv
<1>2. FreshInv'
  <2> SUFFICES ASSUME NEW q \in Callers, call'[q].step = "issued", NEW n, n = call'[q].next
               PROVE  /\ Owned(n, ClientOf[q])'
                      /\ state'[n] \in {"LIVE", "CONDEMNED"}
                      /\ \A c \in Clients : held'[c] # n /\ leaving'[c] # n
                      /\ \A r \in Callers : call'[r].token # n /\ (r # q => call'[r].next # n)
    BY DEF FreshInv
  <2>1. /\ q # p /\ call[q].step = "issued" /\ call[q].next = n
        /\ Owned(n, ClientOf[q]) /\ n \in Tokens /\ n # call[p].token
        /\ state[n] \in {"LIVE", "CONDEMNED"}
        /\ \A c \in Clients : held[c] # n /\ leaving[c] # n
        /\ \A r \in Callers : call[r].token # n /\ (r # q => call[r].next # n)
    BY <1>0 DEF Inv, FreshInv, Owned
  <2>2. QED
    BY <1>0, <1>8, <1>9, <2>1
<1>3. ReplaceInv' /\ ReplacedOnce'
  <2>1. ReplaceInv'
    BY <1>0, <1>8, <1>9 DEF Inv, tableVars, ReplaceInv
  <2>2. ReplacedOnce'
    BY <1>0 DEF Inv, tableVars, ReplacedOnce, Issued
  <2>3. QED
    BY <2>1, <2>2
<1>4. CauseInv'
  <2>1. ASSUME NEW q \in Callers, call'[q].step \in {"sent", "reuse"}, call'[q].token \in Revoked'
        PROVE  call[q].token \in lost \cup raced \/ state'[call[q].token] = "CONDEMNED"
    <3>1. q # p /\ call'[q] = call[q] /\ call[q].token \in Tokens
      BY <1>0, <2>1 DEF Revoked
    <3>2. CASE call[q].token = call[p].token
      BY <1>0, <3>1, <3>2 DEF Inv, ReplaceInv
    <3>3. CASE call[q].token # call[p].token
      BY <1>0, <1>8, <2>1, <3>1, <3>3 DEF Inv, CauseInv
    <3>4. QED
      BY <3>2, <3>3
  <2>2. \A q \in Callers : Busy(q)' /\ ~call'[q].heard => call'[q].token \in lost' \cup {NoToken}
    BY <1>0 DEF Inv, CauseInv, Busy
  <2>3. QED
    BY <1>0, <1>9, <2>1, <2>2 DEF Inv, CauseInv
<1>5. LoggedOutForCause'
  <2>1. \A t : InHand(t) <=> InHand(t)'
    BY <1>9 DEF InHand
  <2>2. InHand(call[p].token)
    BY <1>0 DEF InHand
  <2>3. ASSUME NEW c \in Clients, held[c] \in Revoked'
        PROVE  \/ state'[held[c]] = "CONDEMNED"
               \/ held[c] \in lost \cup raced
               \/ leaving[c] = held[c]
               \/ InHand(held[c])
    BY <1>0, <1>8, <2>2, <2>3 DEF Inv, LoggedOutForCause, Revoked
  <2>4. QED
    BY <1>0, <2>1, <2>3 DEF LoggedOutForCause, InHand
<1>6. AuthInv' /\ ResetEndsSessions'
  <2>1. AuthInv'
    BY <1>0 DEF Inv, tableVars, AuthInv, UserOf
  <2>2. ResetEndsSessions'
    BY <1>0, <1>8 DEF Inv, tableVars, ResetEndsSessions
  <2>3. QED
    BY <2>1, <2>2
<1>7. QED
  BY <1>1, <1>2, <1>3, <1>4, <1>5, <1>6 DEF Inv

\* The new token is nobody's yet; what it replaces was replaced before only
\* if two calls had it in hand.
LEMMA IssueStep ==
    ASSUME TypeOK, TypeOK', Inv, NEW p \in Callers, Issue(p)
    PROVE  Inv'
<1> USE Tokenhood, SessionsAssumption
<1> DEFINE N == sessions + 1
<1>0. /\ call[p].step = "entitled" /\ N \in Tokens /\ N \in Nat /\ sessions \in Nat
      /\ sessions' = N
      /\ state'[N] = "LIVE" /\ client'[N] = ClientOf[p] /\ ClientOf[p] \in Clients
      /\ parent'[N] = call[p].token /\ authOf'[N] = call[p].auth
      /\ \A t \in Tokens : t # N =>
            /\ state'[t] = state[t] /\ client'[t] = client[t]
            /\ parent'[t] = parent[t] /\ authOf'[t] = authOf[t]
            /\ t \in escaped' <=> t \in escaped
      /\ escaped \subseteq escaped'
      /\ call[p].overtaken \/ call[p].token \in escaped => N \in escaped'
      /\ UNCHANGED <<password, held, leaving, raced, lost>>
  <2>1. N \in Tokens /\ N \in Nat /\ sessions \in Nat
    BY DEF Issue, TypeOK, Tokens
  <2>2. call[p].step = "entitled" /\ sessions' = N /\ ClientOf[p] \in Clients
    BY DEF Issue
  <2>3. /\ state' = [state EXCEPT ![N] = "LIVE"]
        /\ client' = [client EXCEPT ![N] = ClientOf[p]]
        /\ parent' = [parent EXCEPT ![N] = call[p].token]
        /\ authOf' = [authOf EXCEPT ![N] = call[p].auth]
        /\ escaped' = IF call[p].overtaken \/ call[p].token \in escaped
                        THEN escaped \cup {N} ELSE escaped
        /\ UNCHANGED <<password, held, leaving, raced, lost>>
    BY DEF Issue
  <2>4. QED
    BY <2>1, <2>2, <2>3 DEF TypeOK
<1>9. /\ \A q \in Callers : q # p => call'[q] = call[q]
      /\ \/ call'[p] = Idle /\ call[p].token \in lost \cup {NoToken}
         \/ /\ call'[p].step = "issued" /\ call'[p].next = N
            /\ call'[p].token = call[p].token /\ call'[p].heard /\ call[p].heard
  <2>1. call[p] \in Calls /\ Busy(p)
    BY DEF Issue, TypeOK, Busy
  <2>2. CASE call[p].heard
    <3>1. call' = [call EXCEPT ![p] = [call[p] EXCEPT !.step = "issued", !.next = N]]
      BY <2>2 DEF Issue, TypeOK
    <3>2. call'[p] = [call[p] EXCEPT !.step = "issued", !.next = N]
      BY <3>1 DEF TypeOK
    <3>3. /\ call'[p].step = "issued" /\ call'[p].next = N
          /\ call'[p].token = call[p].token /\ call'[p].heard
      BY <2>1, <2>2, <3>2 DEF Calls
    <3>4. QED
      BY <2>2, <3>1, <3>3
  <2>3. CASE ~call[p].heard
    BY <2>1, <2>3 DEF Issue, TypeOK, Inv, CauseInv
  <2>4. QED
    BY <2>2, <2>3
<1>8. /\ state[N] = "ABSENT" /\ N # NoToken
      /\ \A t, c : Owned(t, c) => Owned(t, c)' /\ t # N
      /\ \A t : t \in Revoked' <=> t \in Revoked
      /\ N \notin Revoked
      /\ \A t \in Live' : t \in Live \/ t = N
      /\ \A t \in Tokens : parent[t] # N
  <2>1. state[N] = "ABSENT" /\ \A t \in Tokens : parent[t] # N
    BY <1>0 DEF Inv, ShapeInv, NoToken
  <2>2. QED
    BY <1>0, <2>1 DEF Owned, Revoked, Live
<1>1. ShapeInv'
  <2>1. \A t \in Tokens :
          /\ state'[t] = "ABSENT" <=> t > sessions'
          /\ state'[t] # "ABSENT" => client'[t] \in Clients
    BY <1>0, <1>8 DEF Inv, ShapeInv
  <2>2. \A t \in Tokens : parent'[t] # NoToken => t <= sessions' /\ parent'[t] <= sessions'
    <3> SUFFICES ASSUME NEW t \in Tokens, parent'[t] # NoToken
                 PROVE  t <= N /\ parent'[t] <= N
      BY <1>0
    <3>1. CASE t # N
      <4>1. parent'[t] = parent[t] /\ t <= sessions /\ parent[t] <= sessions
        BY <1>0, <3>1 DEF Inv, ShapeInv
      <4>2. t \in Nat /\ parent[t] \in Nat
        BY Tokenhood DEF TypeOK, NoToken, Tokens
      <4>3. QED
        BY <1>0, <4>1, <4>2
    <3>2. CASE t = N
      <4>1. Owned(call[p].token, ClientOf[p]) /\ parent'[t] = call[p].token
        BY <1>0, <3>2 DEF Inv, ShapeInv
      <4>2. call[p].token <= sessions /\ call[p].token \in Nat
        <5>1. call[p].token \in Tokens /\ state[call[p].token] # "ABSENT"
          BY <4>1 DEF Owned
        <5>2. ~(call[p].token > sessions) /\ call[p].token \in Nat
          BY <5>1 DEF Inv, ShapeInv
        <5>3. QED
          BY <1>0, <5>2
      <4>3. QED
        BY <1>0, <3>2, <4>1, <4>2
    <3>3. QED
      BY <3>1, <3>2
  <2>3. /\ \A c \in Clients : held'[c] # NoToken => Owned(held[c], c)' /\ held'[c] = held[c]
        /\ \A c \in Clients : leaving'[c] # NoToken => Owned(leaving[c], c)' /\ leaving'[c] = leaving[c]
    BY <1>0, <1>8 DEF Inv, ShapeInv
  <2>4. \A q \in Callers :
          /\ call'[q].token # NoToken => Owned(call[q].token, ClientOf[q])'
                                         /\ call'[q].token = call[q].token
          /\ call'[q].step \in {"sent", "live", "reuse"} => call'[q].token # NoToken
          /\ call'[q].step = "idle" => call'[q] = Idle
          /\ call'[q].next # NoToken <=> call'[q].step = "issued"
    BY <1>0, <1>8, <1>9, IdleFields DEF Inv, ShapeInv
  <2>5. QED
    BY <2>1, <2>2, <2>3, <2>4 DEF ShapeInv, Owned
<1>2. FreshInv'
  <2> SUFFICES ASSUME NEW q \in Callers, call'[q].step = "issued", NEW n, n = call'[q].next
               PROVE  /\ Owned(n, ClientOf[q])'
                      /\ state'[n] \in {"LIVE", "CONDEMNED"}
                      /\ \A c \in Clients : held'[c] # n /\ leaving'[c] # n
                      /\ \A r \in Callers : call'[r].token # n /\ (r # q => call'[r].next # n)
    BY DEF FreshInv
  <2>1. /\ \A c \in Clients : held[c] # N /\ leaving[c] # N
        /\ \A r \in Callers : call[r].token # N /\ call[r].next # N
    BY <1>0, <1>8 DEF Inv, ShapeInv, FreshInv
  <2>2. CASE q = p
    <3>1. n = N
      BY <1>9, <2>2, IdleFields
    <3>2. N \in Tokens /\ state'[N] = "LIVE" /\ client'[N] = ClientOf[p]
      BY <1>0
    <3>3. \A r \in Callers : call'[r].token # N /\ (r # p => call'[r].next # N)
      BY <1>8, <1>9, <2>1, IdleFields
    <3>4. \A c \in Clients : held'[c] # N /\ leaving'[c] # N
      BY <1>0, <2>1
    <3>5. Owned(n, ClientOf[q])'
      BY <2>2, <3>1, <3>2 DEF Owned
    <3>6. QED
      BY <2>2, <3>1, <3>2, <3>3, <3>4, <3>5
  <2>3. CASE q # p
    <3>1. /\ call[q].step = "issued" /\ call[q].next = n
          /\ Owned(n, ClientOf[q]) /\ n \in Tokens /\ n # N
          /\ state[n] \in {"LIVE", "CONDEMNED"} /\ n # NoToken
          /\ \A c \in Clients : held[c] # n /\ leaving[c] # n
          /\ \A r \in Callers : call[r].token # n /\ (r # q => call[r].next # n)
      BY <1>8, <1>9, <2>3 DEF Inv, FreshInv, Owned
    <3>2. \A r \in Callers : call'[r].token # n /\ (r # q => call'[r].next # n)
      BY <1>9, <3>1, IdleFields
    <3>3. QED
      BY <1>0, <1>8, <3>1, <3>2
  <2>4. QED
    BY <2>2, <2>3
<1>3. ReplaceInv' /\ ReplacedOnce'
  <2>1. \A q \in Callers : /\ call'[q].token \in {call[q].token, NoToken}
                           /\ call'[q].step \in {"live", "entitled"} => q # p
    BY <1>9, IdleFields
  <2>2. \A q \in Callers : call'[q].step \in {"reuse", "entitled", "issued"} /\ call'[q].token # NoToken
                            => call'[q].token \in Revoked'
    BY <1>0, <1>8, <1>9, IdleFields DEF Inv, ReplaceInv
  <2>3. \A t \in Tokens : parent'[t] # NoToken => parent'[t] \in Revoked'
    BY <1>0, <1>8 DEF Inv, ReplaceInv
  <2>4. ASSUME NEW t \in Tokens, NEW q \in Callers, parent'[t] # NoToken,
               parent'[t] = call'[q].token, call'[q].step \in {"live", "entitled"}
        PROVE  parent'[t] \in raced
    <3>1. q # p /\ call'[q] = call[q]
      BY <1>9, <2>1, <2>4
    <3>2. CASE t = N
      BY <1>0, <2>4, <3>1, <3>2 DEF Inv, ReplaceInv
    <3>3. CASE t # N
      BY <1>0, <2>4, <3>1, <3>3 DEF Inv, ReplaceInv
    <3>4. QED
      BY <3>2, <3>3
  <2>5. \A q, r \in Callers : q # r /\ call'[q].token = call'[r].token /\ call'[q].token # NoToken
                               => call'[q].token \in raced
    BY <2>1 DEF Inv, ReplaceInv
  <2>6. ReplaceInv'
    BY <1>0, <2>2, <2>3, <2>4, <2>5 DEF ReplaceInv
  <2>7. ReplacedOnce'
    <3> SUFFICES ASSUME NEW s \in Issued', NEW t \in Issued', s # t, parent'[s] = parent'[t],
                        parent'[s] # NoToken
                 PROVE  parent'[s] \in raced
      BY <1>0 DEF ReplacedOnce
    <3>1. s \in Tokens /\ t \in Tokens /\ \A v \in {s, t} : v # N => v \in Issued
      BY <1>0 DEF Issued, Tokens, TypeOK
    <3>2. CASE s # N /\ t # N
      BY <1>0, <3>1, <3>2 DEF Inv, ReplacedOnce
    <3>3. CASE s = N \/ t = N
      BY <1>0, <3>1, <3>3 DEF Inv, ReplaceInv
    <3>4. QED
      BY <3>2, <3>3
  <2>8. QED
    BY <2>6, <2>7
<1>4. CauseInv'
  <2>1. \A q \in Callers : Busy(q)' /\ ~call'[q].heard => call'[q].token \in lost' \cup {NoToken}
    BY <1>0, <1>9, IdleFields DEF Inv, CauseInv, Busy
  <2>2. ASSUME NEW q \in Callers, call'[q].step \in {"sent", "reuse"}, call'[q].token \in Revoked'
        PROVE  call'[q].token \in lost \cup raced \/ state'[call'[q].token] = "CONDEMNED"
    <3>1. q # p /\ call'[q] = call[q]
      BY <1>9, <2>2, IdleFields
    <3>2. call[q].token \in Revoked /\ call[q].token # N /\ call[q].token \in Tokens
      BY <1>8, <2>2, <3>1 DEF Revoked
    <3>3. state'[call[q].token] = state[call[q].token]
      BY <1>0, <3>2
    <3>4. call[q].token \in lost \cup raced \/ state[call[q].token] = "CONDEMNED"
      BY <2>2, <3>1, <3>2 DEF Inv, CauseInv
    <3>5. QED
      BY <3>1, <3>3, <3>4
  <2>3. \A c \in Clients, q \in Callers : leaving'[c] = call'[q].token /\ leaving'[c] # NoToken
                                           => leaving'[c] \in raced'
    BY <1>0, <1>9, IdleFields DEF Inv, CauseInv
  <2>4. QED
    BY <1>0, <2>1, <2>2, <2>3 DEF CauseInv
<1>5. LoggedOutForCause'
  <2> SUFFICES ASSUME NEW c \in Clients, held[c] \in Revoked'
               PROVE  \/ state'[held[c]] = "CONDEMNED"
                      \/ held[c] \in lost \cup raced
                      \/ leaving[c] = held[c]
                      \/ InHand(held[c])'
    BY <1>0 DEF LoggedOutForCause, InHand
  <2>1. /\ held[c] \in Revoked /\ held[c] # N /\ held[c] \in Tokens
        /\ state'[held[c]] = state[held[c]]
    BY <1>0, <1>8 DEF Revoked
  <2>2. ASSUME InHand(held[c])
        PROVE  InHand(held[c])' \/ held[c] \in lost
    <3>1. PICK q \in Callers : held[c] \in {call[q].token, call[q].next}
      BY <2>2 DEF InHand
    <3>2. held[c] = call[q].token /\ held[c] # NoToken
      BY <2>1, <3>1 DEF Inv, FreshInv, ShapeInv
    <3>3. call'[q].token = held[c] \/ held[c] \in lost
      BY <1>9, <3>2
    <3>4. QED
      BY <1>0, <3>2, <3>3 DEF InHand
  <2>3. QED
    BY <2>1, <2>2 DEF Inv, LoggedOutForCause
<1>6. AuthInv' /\ ResetEndsSessions'
  <2>1. AuthInv'
    <3> SUFFICES ASSUME NEW q \in Callers, call'[q].step \in {"live", "entitled"}
                 PROVE  \/ call'[q].overtaken
                        \/ call'[q].token \in escaped'
                        \/ call'[q].auth = password'[UserOf(q)]
      BY DEF AuthInv, UserOf
    <3>1. call'[q] = call[q]
      BY <1>9, IdleFields
    <3>2. QED
      BY <1>0, <3>1 DEF Inv, AuthInv
  <2>2. ResetEndsSessions'
    <3>1. N \in escaped' \/ authOf'[N] = password'[OwnerOf[client'[N]]]
      BY <1>0 DEF Inv, AuthInv, UserOf
    <3>2. \A t \in Live : t # N /\ t \in Tokens
      BY <1>8 DEF Live
    <3>3. QED
      BY <1>0, <1>8, <3>1, <3>2 DEF Inv, ResetEndsSessions
  <2>3. QED
    BY <2>1, <2>2
<1>7. QED
  BY <1>1, <1>2, <1>3, <1>4, <1>5, <1>6 DEF Inv

LEMMA LogInStep ==
    ASSUME TypeOK, TypeOK', Inv, NEW p \in Callers, LogIn(p)
    PROVE  Inv'
<1> USE Tokenhood, SessionsAssumption
<1>0. /\ call[p].token = NoToken /\ call[p].next = NoToken
      /\ call'[p].step = "entitled" /\ call'[p].token = NoToken /\ call'[p].next = NoToken
      /\ call'[p].heard /\ call'[p].auth = password[UserOf(p)]
      /\ \A q \in Callers : q # p => call'[q] = call[q]
      /\ UNCHANGED <<tableVars, state, password, held, leaving, raced, lost>>
  BY DEF LogIn, TypeOK, Calls, Inv, ShapeInv, Busy, Idle, UserOf
<1>1. ShapeInv'
  <2>1. \A q \in Callers :
          /\ call'[q].token # NoToken => Owned(call'[q].token, ClientOf[q])
          /\ call'[q].step \in {"sent", "live", "reuse"} => call'[q].token # NoToken
          /\ call'[q].step = "idle" => call'[q] = Idle
          /\ call'[q].next # NoToken <=> call'[q].step = "issued"
    BY <1>0 DEF Inv, ShapeInv
  <2>2. QED
    BY <1>0, <2>1 DEF Inv, tableVars, ShapeInv, Owned
<1>2. FreshInv'
  BY <1>0 DEF Inv, tableVars, FreshInv, ShapeInv, Owned
<1>3. ReplaceInv' /\ ReplacedOnce'
  BY <1>0 DEF Inv, tableVars, ReplaceInv, ReplacedOnce, Issued, Revoked
<1>4. CauseInv'
  BY <1>0 DEF Inv, tableVars, CauseInv, Revoked, Busy
<1>5. LoggedOutForCause'
  <2>1. \A t : InHand(t) => InHand(t)'
    BY <1>0 DEF InHand
  <2>2. QED
    BY <1>0, <2>1 DEF Inv, tableVars, LoggedOutForCause, Revoked, InHand
<1>6. AuthInv' /\ ResetEndsSessions'
  BY <1>0 DEF Inv, tableVars, AuthInv, ResetEndsSessions, Live, UserOf
<1>7. QED
  BY <1>1, <1>2, <1>3, <1>4, <1>5, <1>6 DEF Inv

\* A token that is presented and known to be in hand is known to be in a race.
LEMMA RefreshStep ==
    ASSUME TypeOK, TypeOK', Inv, NEW p \in Callers, Refresh(p)
    PROVE  Inv'
<1> USE Tokenhood, SessionsAssumption
<1> DEFINE t == held[ClientOf[p]]
<1>0. /\ call[p].token = NoToken /\ call[p].next = NoToken
      /\ ClientOf[p] \in Clients /\ t \in Tokens /\ Owned(t, ClientOf[p])
      /\ call'[p].step = "sent" /\ call'[p].token = t /\ call'[p].next = NoToken
      /\ call'[p].heard
      /\ \A q \in Callers : q # p => call'[q] = call[q]
      /\ InHand(t) \/ leaving[ClientOf[p]] = t => t \in raced'
      /\ raced \subseteq raced'
      /\ UNCHANGED <<tableVars, state, password, held, leaving, lost>>
  <2>1. call[p].token = NoToken /\ call[p].next = NoToken
    BY IdleFields DEF Refresh, Inv, ShapeInv, Busy
  <2>2. ClientOf[p] \in Clients /\ t \in Tokens /\ Owned(t, ClientOf[p])
    BY DEF Refresh, TypeOK, Inv, ShapeInv
  <2>3. /\ call'[p].step = "sent" /\ call'[p].token = t /\ call'[p].next = NoToken
        /\ call'[p].heard
        /\ \A q \in Callers : q # p => call'[q] = call[q]
    BY DEF Refresh, TypeOK, Idle
  <2>4. QED
    BY <2>1, <2>2, <2>3 DEF Refresh
<1>1. ShapeInv'
  <2>1. \A q \in Callers :
          /\ call'[q].token # NoToken => Owned(call'[q].token, ClientOf[q])
          /\ call'[q].step \in {"sent", "live", "reuse"} => call'[q].token # NoToken
          /\ call'[q].step = "idle" => call'[q] = Idle
          /\ call'[q].next # NoToken <=> call'[q].step = "issued"
    BY <1>0 DEF Inv, ShapeInv
  <2>2. QED
    BY <1>0, <2>1 DEF Inv, tableVars, ShapeInv, Owned
<1>2. FreshInv'
  BY <1>0 DEF Inv, tableVars, FreshInv, ShapeInv, Owned
<1>3. ReplaceInv' /\ ReplacedOnce'
  <2>1. \A q \in Callers : q # p /\ call[q].token = t => t \in raced'
    BY <1>0 DEF InHand
  <2>2. ReplaceInv'
    BY <1>0, <2>1 DEF Inv, tableVars, ReplaceInv, Revoked
  <2>3. ReplacedOnce'
    BY <1>0 DEF Inv, tableVars, ReplacedOnce, Issued
  <2>4. QED
    BY <2>2, <2>3
<1>4. CauseInv'
  <2>1. t \in Revoked => t \in lost \cup raced' \/ state[t] = "CONDEMNED"
    BY <1>0 DEF Inv, LoggedOutForCause
  <2>2. \A c \in Clients : leaving[c] = t => t \in raced'
    BY <1>0 DEF Inv, ShapeInv, Owned
  <2>3. QED
    BY <1>0, <2>1, <2>2 DEF Inv, CauseInv, Revoked, Busy
<1>5. LoggedOutForCause'
  <2>1. \A s : InHand(s) => InHand(s)'
    BY <1>0 DEF InHand
  <2>2. QED
    BY <1>0, <2>1 DEF Inv, tableVars, LoggedOutForCause, Revoked, InHand
<1>6. AuthInv' /\ ResetEndsSessions'
  BY <1>0 DEF Inv, tableVars, AuthInv, ResetEndsSessions, Live, UserOf
<1>7. QED
  BY <1>1, <1>2, <1>3, <1>4, <1>5, <1>6 DEF Inv

\* The token that is stored is fresh: live, or revoked by an alarm or a reset.
LEMMA StoreStep ==
    ASSUME TypeOK, TypeOK', Inv, NEW p \in Callers, Store(p)
    PROVE  Inv'
<1> USE Tokenhood, SessionsAssumption
<1>0. /\ call[p].step = "issued" /\ call[p].next \in Tokens
      /\ Owned(call[p].next, ClientOf[p])
      /\ held'[ClientOf[p]] = call[p].next /\ ClientOf[p] \in Clients
      /\ \A c \in Clients : c # ClientOf[p] => held'[c] = held[c]
      /\ call'[p] = Idle
      /\ \A q \in Callers : q # p => call'[q] = call[q]
      /\ UNCHANGED <<tableVars, state, password, leaving, raced, lost>>
  BY DEF Store, TypeOK, Calls, Inv, FreshInv, Owned
<1>1. ShapeInv'
  <2>1. \A q \in Callers :
          /\ call'[q].token # NoToken => Owned(call'[q].token, ClientOf[q])
          /\ call'[q].step \in {"sent", "live", "reuse"} => call'[q].token # NoToken
          /\ call'[q].step = "idle" => call'[q] = Idle
          /\ call'[q].next # NoToken <=> call'[q].step = "issued"
    BY <1>0, IdleFields DEF Inv, ShapeInv
  <2>2. \A c \in Clients : held'[c] # NoToken => Owned(held'[c], c)
    BY <1>0 DEF Inv, ShapeInv
  <2>3. QED
    BY <1>0, <2>1, <2>2 DEF Inv, tableVars, ShapeInv, Owned
<1>2. FreshInv'
  <2> SUFFICES ASSUME NEW q \in Callers, call'[q].step = "issued", NEW n, n = call'[q].next
               PROVE  /\ Owned(n, ClientOf[q])'
                      /\ state'[n] \in {"LIVE", "CONDEMNED"}
                      /\ \A c \in Clients : held'[c] # n /\ leaving'[c] # n
                      /\ \A r \in Callers : call'[r].token # n /\ (r # q => call'[r].next # n)
    BY DEF FreshInv
  <2>1. /\ q # p /\ call[q].step = "issued" /\ call[q].next = n
        /\ Owned(n, ClientOf[q]) /\ n # NoToken
        /\ state[n] \in {"LIVE", "CONDEMNED"}
        /\ \A c \in Clients : held[c] # n /\ leaving[c] # n
        /\ \A r \in Callers : call[r].token # n /\ (r # q => call[r].next # n)
    BY <1>0, IdleFields DEF Inv, FreshInv, Owned
  <2>2. QED
    BY <1>0, <2>1, IdleFields DEF Owned, tableVars
<1>3. ReplaceInv' /\ ReplacedOnce'
  <2>1. \A q \in Callers : call'[q] = call[q] \/ (call'[q].step = "idle" /\ call'[q].token = NoToken)
    BY <1>0, IdleFields
  <2>2. ReplaceInv'
    BY <1>0, <2>1 DEF Inv, tableVars, ReplaceInv, Revoked
  <2>3. ReplacedOnce'
    BY <1>0 DEF Inv, tableVars, ReplacedOnce, Issued
  <2>4. QED
    BY <2>2, <2>3
<1>4. CauseInv'
  <2>1. \A q \in Callers : call'[q] = call[q] \/ (call'[q].step = "idle" /\ call'[q].token = NoToken)
    BY <1>0, IdleFields
  <2>2. QED
    BY <1>0, <2>1 DEF Inv, tableVars, CauseInv, Revoked, Busy
<1>5. LoggedOutForCause'
  <2> SUFFICES ASSUME NEW c \in Clients, held'[c] \in Revoked
               PROVE  \/ state[held'[c]] = "CONDEMNED"
                      \/ held'[c] \in lost \cup raced
                      \/ leaving[c] = held'[c]
                      \/ held'[c] = held[c] /\ InHand(held[c])'
    BY <1>0 DEF LoggedOutForCause, Revoked, InHand
  <2>1. CASE c = ClientOf[p]
    BY <1>0, <2>1 DEF Inv, FreshInv, Revoked
  <2>2. CASE c # ClientOf[p]
    <3>1. held'[c] = held[c] /\ held[c] # NoToken /\ Owned(held[c], c)
      BY <1>0, <2>2 DEF Inv, ShapeInv, Revoked
    <3>2. held[c] \notin {call[p].token, call[p].next}
      BY <1>0, <2>2, <3>1 DEF Inv, ShapeInv, Owned
    <3>3. InHand(held[c]) => InHand(held[c])'
      BY <1>0, <3>1, <3>2 DEF InHand
    <3>4. QED
      BY <3>1, <3>3 DEF Inv, LoggedOutForCause
  <2>3. QED
    BY <2>1, <2>2
<1>6. AuthInv' /\ ResetEndsSessions'
  <2>1. AuthInv'
    BY <1>0, IdleFields DEF Inv, tableVars, AuthInv, UserOf
  <2>2. ResetEndsSessions'
    BY <1>0 DEF Inv, tableVars, ResetEndsSessions, Live
  <2>3. QED
    BY <2>1, <2>2
<1>7. QED
  BY <1>1, <1>2, <1>3, <1>4, <1>5, <1>6 DEF Inv

\* A reset ends every session of the user and overtakes every call of theirs
\* that is past its check.
LEMMA ResetPasswordStep ==
    ASSUME TypeOK, TypeOK', Inv, NEW u \in Users, ResetPassword(u)
    PROVE  Inv'
<1> USE Tokenhood, SessionsAssumption
<1>0. /\ \A v \in Users : v # u => password'[v] = password[v]
      /\ \A t \in Tokens : state'[t] = IF t \in Live /\ OwnerOf[client[t]] = u
                                         THEN "CONDEMNED" ELSE state[t]
      /\ UNCHANGED <<tableVars, held, leaving, raced, lost>>
  BY DEF ResetPassword, Condemn, TypeOK
<1>9. \A q \in Callers :
        /\ call'[q].step = call[q].step /\ call'[q].token = call[q].token
        /\ call'[q].next = call[q].next /\ call'[q].heard = call[q].heard
        /\ call'[q].auth = call[q].auth
        /\ call[q].overtaken => call'[q].overtaken
        /\ UserOf(q) = u /\ call[q].step \in {"live", "entitled"} => call'[q].overtaken
        /\ call[q].step = "idle" => call'[q] = call[q]
  BY DEF ResetPassword, TypeOK, Calls
<1>8. /\ \A t \in Tokens : /\ state'[t] = "ABSENT" <=> state[t] = "ABSENT"
                           /\ state'[t] \in {state[t], "CONDEMNED"}
      /\ \A t, c : Owned(t, c)' <=> Owned(t, c)
      /\ \A t : t \in Revoked => t \in Revoked'
      /\ \A t \in Revoked' : t \in Tokens /\ (t \in Revoked \/ state'[t] = "CONDEMNED")
      /\ \A t \in Live' : t \in Live /\ OwnerOf[client[t]] # u
      /\ \A t : InHand(t)' <=> InHand(t)
  <2>1. \A t \in Tokens : /\ state'[t] = "ABSENT" <=> state[t] = "ABSENT"
                          /\ state'[t] \in {state[t], "CONDEMNED"}
    BY <1>0 DEF Live
  <2>2. \A t, c : Owned(t, c)' <=> Owned(t, c)
    BY <1>0, <2>1 DEF Owned, tableVars
  <2>3. /\ \A t : t \in Revoked => t \in Revoked'
        /\ \A t \in Revoked' : t \in Tokens /\ (t \in Revoked \/ state'[t] = "CONDEMNED")
    BY <1>0 DEF Revoked, Live
  <2>4. \A t \in Live' : t \in Live /\ OwnerOf[client[t]] # u
    BY <1>0 DEF Live
  <2>5. \A t : InHand(t)' <=> InHand(t)
    BY <1>9 DEF InHand
  <2>6. QED
    BY <2>1, <2>2, <2>3, <2>4, <2>5
<1>1. ShapeInv'
  <2>1. \A q \in Callers :
          /\ call'[q].token # NoToken => Owned(call'[q].token, ClientOf[q])
          /\ call'[q].step \in {"sent", "live", "reuse"} => call'[q].token # NoToken
          /\ call'[q].step = "idle" => call'[q] = Idle
          /\ call'[q].next # NoToken <=> call'[q].step = "issued"
    BY <1>9 DEF Inv, ShapeInv
  <2>2. QED
    BY <1>0, <1>8, <1>9, <2>1 DEF Inv, tableVars, ShapeInv
<1>2. FreshInv'
  <2> SUFFICES ASSUME NEW q \in Callers, call'[q].step = "issued", NEW n, n = call'[q].next
               PROVE  /\ Owned(n, ClientOf[q])'
                      /\ state'[n] \in {"LIVE", "CONDEMNED"}
                      /\ \A c \in Clients : held'[c] # n /\ leaving'[c] # n
                      /\ \A r \in Callers : call'[r].token # n /\ (r # q => call'[r].next # n)
    BY DEF FreshInv
  <2>1. /\ call[q].step = "issued" /\ call[q].next = n
        /\ Owned(n, ClientOf[q]) /\ n \in Tokens
        /\ state[n] \in {"LIVE", "CONDEMNED"}
        /\ \A c \in Clients : held[c] # n /\ leaving[c] # n
        /\ \A r \in Callers : call[r].token # n /\ (r # q => call[r].next # n)
    BY <1>9 DEF Inv, FreshInv, Owned
  <2>2. QED
    BY <1>0, <1>8, <1>9, <2>1
<1>3. ReplaceInv' /\ ReplacedOnce'
  <2>1. ReplaceInv'
    BY <1>0, <1>8, <1>9 DEF Inv, tableVars, ReplaceInv
  <2>2. ReplacedOnce'
    BY <1>0 DEF Inv, tableVars, ReplacedOnce, Issued
  <2>3. QED
    BY <2>1, <2>2
<1>4. CauseInv'
  <2>1. \A q \in Callers : Busy(q)' /\ ~call'[q].heard => call'[q].token \in lost' \cup {NoToken}
    BY <1>0, <1>9 DEF Inv, CauseInv, Busy
  <2>2. ASSUME NEW q \in Callers, call'[q].step \in {"sent", "reuse"}, call'[q].token \in Revoked'
        PROVE  call'[q].token \in lost' \cup raced' \/ state'[call'[q].token] = "CONDEMNED"
    <3>1. call[q].token \in Tokens /\ (call[q].token \in Revoked \/ state'[call[q].token] = "CONDEMNED")
      BY <1>8, <1>9, <2>2
    <3>2. call[q].token \in Revoked =>
             call[q].token \in lost \cup raced \/ state[call[q].token] = "CONDEMNED"
      BY <1>9, <2>2 DEF Inv, CauseInv
    <3>3. state[call[q].token] = "CONDEMNED" => state'[call[q].token] = "CONDEMNED"
      BY <1>8, <3>1
    <3>4. QED
      BY <1>0, <1>9, <3>1, <3>2, <3>3
  <2>3. QED
    BY <1>0, <1>9, <2>1, <2>2 DEF Inv, CauseInv
<1>5. LoggedOutForCause'
  <2>1. ASSUME NEW c \in Clients, held[c] \in Revoked'
        PROVE  \/ state'[held[c]] = "CONDEMNED"
               \/ held[c] \in lost \cup raced
               \/ leaving[c] = held[c]
               \/ InHand(held[c])'
    <3>1. held[c] \in Tokens /\ (held[c] \in Revoked \/ state'[held[c]] = "CONDEMNED")
      BY <1>8, <2>1
    <3>2. state[held[c]] = "CONDEMNED" => state'[held[c]] = "CONDEMNED"
      BY <1>8, <3>1
    <3>3. InHand(held[c]) => InHand(held[c])'
      BY <1>0, <1>8 DEF InHand
    <3>4. QED
      BY <3>1, <3>2, <3>3 DEF Inv, LoggedOutForCause
  <2>2. QED
    BY <1>0, <2>1 DEF LoggedOutForCause, InHand
<1>6. AuthInv' /\ ResetEndsSessions'
  <2>1. \A q \in Callers : UserOf(q) \in Users
    BY DEF UserOf
  <2>2. AuthInv'
    BY <1>0, <1>9, <2>1 DEF Inv, tableVars, AuthInv, UserOf
  <2>3. \A t \in Live' : t \in Live /\ OwnerOf[client[t]] # u /\ OwnerOf[client[t]] \in Users
    BY <1>8 DEF Inv, ShapeInv, Live
  <2>4. ResetEndsSessions'
    BY <1>0, <2>3 DEF Inv, tableVars, ResetEndsSessions
  <2>5. QED
    BY <2>2, <2>4
<1>7. QED
  BY <1>1, <1>2, <1>3, <1>4, <1>5, <1>6 DEF Inv

-----------------------------------------------------------------------------
(* Theorems.                                                                 *)

LEMMA Unchanged ==
    ASSUME TypeOK, Inv, UNCHANGED vars
    PROVE  TypeOK' /\ Inv'
<1>1. TypeOK'
  BY DEF TypeOK, vars, tableVars
<1>2. Inv'
  BY DEF vars, tableVars, Inv, ShapeInv, FreshInv, ReplaceInv, ReplacedOnce, CauseInv,
         LoggedOutForCause, AuthInv, ResetEndsSessions, Owned, Live, Revoked, Issued, Busy,
         InHand, UserOf
<1>3. QED
  BY <1>1, <1>2

\* Types and the invariant hold together: the types of a step of the server
\* need ShapeInv.
THEOREM Inductive == Spec => [](TypeOK /\ Inv)
<1>1. TypeOK /\ Inv /\ [Next]_vars => TypeOK' /\ Inv'
  <2> SUFFICES ASSUME TypeOK, Inv, [Next]_vars PROVE TypeOK' /\ Inv'
    OBVIOUS
  <2>1. ASSUME NEW p \in Callers, Server(p) PROVE TypeOK' /\ Inv'
    <3>1. TypeOK'
      BY <2>1, ServerTypes DEF Inv
    <3>2. QED
      BY <2>1, <3>1, CheckStep, RotateStep, IssueStep, CallRetreats, RetreatStep DEF Server
  <2>2. ASSUME NEW p \in Callers, Caller(p) PROVE TypeOK' /\ Inv'
    <3>1. TypeOK'
      BY <2>2, CallerTypes
    <3>2. QED
      BY <2>2, <3>1, LogInStep, RefreshStep, StoreStep, CallRetreats, RetreatStep DEF Caller
  <2>3. ASSUME NEW c \in Clients, Client(c) PROVE TypeOK' /\ Inv'
    BY <2>3, ClientTypes, ClientRetreats, RetreatStep
  <2>4. ASSUME NEW u \in Users, ResetPassword(u) PROVE TypeOK' /\ Inv'
    BY <2>4, ResetTypes, ResetPasswordStep
  <2>5. CASE UNCHANGED vars
    BY <2>5, Unchanged
  <2>6. QED
    BY <2>1, <2>2, <2>3, <2>4, <2>5 DEF Next
<1>2. QED
  BY <1>1, InitTypes, PTL DEF Spec

\* Every variable keeps its range.
THEOREM TypeCorrect == Spec => []TypeOK
BY Inductive, PTL

\* A reset of the password ends what was opened with the old one, but for
\* what it overtook.
THEOREM ResetsEnd == Spec => []ResetEndsSessions
<1>1. TypeOK /\ Inv => ResetEndsSessions
  BY DEF Inv
<1>2. QED
  BY <1>1, Inductive, PTL

\* Two sessions descend from one token only through a race.
THEOREM ReplacedOnceAlways == Spec => []ReplacedOnce
<1>1. TypeOK /\ Inv => ReplacedOnce
  BY DEF Inv
<1>2. QED
  BY <1>1, Inductive, PTL

\* A client shows a revoked token only for a cause.
THEOREM LogoutsHaveCause == Spec => []LoggedOutForCause
<1>1. TypeOK /\ Inv => LoggedOutForCause
  BY DEF Inv
<1>2. QED
  BY <1>1, Inductive, PTL

\* Reuse is reported only for a cause.
THEOREM AlarmsHaveCause == Spec => []AlarmForCause
<1>1. ASSUME TypeOK, Inv, NEW p \in Callers, call[p].step = "reuse"
      PROVE  call[p].token \in lost \cup raced \/ state[call[p].token] = "CONDEMNED"
  <2>1. call[p].token \in Revoked
    BY <1>1 DEF Inv, ShapeInv, ReplaceInv
  <2>2. QED
    BY <1>1, <2>1 DEF Inv, CauseInv
<1>2. TypeOK /\ Inv => AlarmForCause
  BY <1>1 DEF AlarmForCause
<1>3. QED
  BY <1>2, Inductive, PTL

=============================================================================
