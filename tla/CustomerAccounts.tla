-------------------------- MODULE CustomerAccounts --------------------------
(***************************************************************************)
(* One customer: the one-time codes of the login (services/api/src/auth/   *)
(* otp.service.ts) and the saved addresses, one of which is the default    *)
(* (customers.service.ts).                                                 *)
(*                                                                         *)
(* Both read first and write later.  The record of a code is in Redis and  *)
(* a wrong attempt writes back what it read, plus one.  An address that    *)
(* becomes the default clears the others in its transaction, under READ    *)
(* COMMITTED: the UPDATE works on the rows that were the default when it   *)
(* began, waits for those another transaction holds, and skips what has    *)
(* changed.  The app keeps its buttons live, so the requests of one device *)
(* overlap as those of two do.                                             *)
(*                                                                         *)
(* Left out: the fixed code of a deployment without SMS, the throttle, the *)
(* record of login attempts, the tokens (Sessions), and updates of other   *)
(* columns of an address or of the profile.                                *)
(***************************************************************************)
EXTENDS Integers, FiniteSets

CONSTANTS
    Slots,          \* requests under way at once
    MaxRequests,    \* bound on the requests there ever are,
    MaxCodes,       \* on the codes,
    MaxAddresses,   \* and on the addresses
    MaxAttempts     \* OTP_MAX_ATTEMPTS

ASSUME AccountsAssumption ==
    /\ MaxRequests \in Nat /\ MaxCodes \in Nat /\ MaxAddresses \in Nat
    /\ MaxAttempts \in Nat \ {0}

VARIABLES
    otp,        \* the record of the newest code, attempts counted, or NoOtp
    cooldown,   \* the resend cooldown is set
    codes,      \* codes generated, numbered from 1; 0 is a wrong code
    texts,      \* codes whose message arrived
    registered, \* there is a customer row
    addresses,  \* by age: "none", "plain" or "default"
    added,      \* addresses there have been
    request,    \* per slot the request, or NoRequest
    requests,   \* requests so far
    tries,      \* history: per code its wrong attempts,
    uses,       \* and its logins,
    expired,    \* codes that expired,
    crossed,    \* codes a write went to that was decided before another one,
    mixed       \* and: the same happened to the addresses since they were last
                \* given a default by a request that ran alone

accountVars == <<otp, cooldown, codes, texts, registered, addresses, added, request, requests,
                 tries, uses, expired, crossed, mixed>>

codeVars == <<otp, cooldown, codes, texts, registered, tries, uses, expired, crossed>>
addressVars == <<addresses, added, mixed>>

Codes == 1 .. MaxCodes
Addresses == 1 .. MaxAddresses

NoOtp == [code |-> 0, attempts |-> 0]
Records == [code : 0 .. MaxCodes, attempts : 0 .. MaxAttempts]

CodeSteps == {"cooled", "stored", "cooling", "wrong", "right", "spent", "verified"}
AddressSteps == {"counted", "set", "opened", "cleared", "delete", "deleted", "found"}

\* code, seen: the code the request is about and the record it read.  on: its
\* address, 0 for a new one; default: what it read or asks for; rows: the
\* defaults its UPDATE saw, then the rows it holds; next: the new default.
Requests == [step : {"idle"} \cup CodeSteps \cup AddressSteps,
             code : 0 .. MaxCodes, seen : Records, on : 0 .. MaxAddresses, default : BOOLEAN,
             rows : SUBSET Addresses, next : 0 .. MaxAddresses, alone : BOOLEAN]

NoRequest == [step |-> "idle", code |-> 0, seen |-> NoOtp, on |-> 0, default |-> FALSE,
              rows |-> {}, next |-> 0, alone |-> TRUE]

AccountTypeOK ==
    /\ otp \in Records
    /\ cooldown \in BOOLEAN
    /\ codes \in 0 .. MaxCodes
    /\ texts \in SUBSET Codes
    /\ registered \in BOOLEAN
    /\ addresses \in [Addresses -> {"none", "plain", "default"}]
    /\ added \in 0 .. MaxAddresses
    /\ request \in [Slots -> Requests]
    /\ requests \in 0 .. MaxRequests
    /\ tries \in [Codes -> Nat]
    /\ uses \in [Codes -> Nat]
    /\ expired \in SUBSET Codes
    /\ crossed \in SUBSET Codes
    /\ mixed \in BOOLEAN

AccountInit ==
    /\ otp = NoOtp
    /\ cooldown = FALSE
    /\ codes = 0
    /\ texts = {}
    /\ registered \in BOOLEAN
    /\ addresses = [a \in Addresses |-> "none"]
    /\ added = 0
    /\ request = [s \in Slots |-> NoRequest]
    /\ requests = 0
    /\ tries = [c \in Codes |-> 0]
    /\ uses = [c \in Codes |-> 0]
    /\ expired = {}
    /\ crossed = {}
    /\ mixed = FALSE

-----------------------------------------------------------------------------

Step(s, step) == request[s].step = step

\* Bound: MaxRequests.
Ask(s, c) ==
    /\ Step(s, "idle")
    /\ requests < MaxRequests
    /\ requests' = requests + 1
    /\ request' = [request EXCEPT ![s] = c]

Go(s, c) == request' = [request EXCEPT ![s] = c] /\ UNCHANGED requests

\* s goes on after a write: what others in steps have read is out of date.
Overtake(s, c, steps) ==
    /\ request' = [r \in Slots |->
                     IF r = s THEN c
                     ELSE IF request[r].step \in steps THEN [request[r] EXCEPT !.alone = FALSE]
                     ELSE request[r]]
    /\ UNCHANGED requests

-----------------------------------------------------------------------------
(* requestOtp.                                                               *)

\* The cooldown is read; while it is set the request is refused.
AskForCode(s) ==
    /\ ~cooldown
    /\ Ask(s, [NoRequest EXCEPT !.step = "cooled"])
    /\ UNCHANGED <<codeVars, addressVars>>

\* Mutant: a code that is still valid is kept (SET ... NX).
StoreCodeMutant(s) ==
    /\ Step(s, "cooled")
    /\ codes < MaxCodes
    /\ codes' = codes + 1
    /\ otp' = IF otp = NoOtp THEN [code |-> codes + 1, attempts |-> 0] ELSE otp
    /\ Overtake(s, [request[s] EXCEPT !.step = "stored", !.code = codes + 1], CodeSteps)
    /\ UNCHANGED <<cooldown, texts, registered, tries, uses, expired, crossed, addressVars>>

\* A code is generated and its record set, over whatever was there.
StoreCode(s) ==
    /\ Step(s, "cooled")
    /\ codes < MaxCodes
    /\ codes' = codes + 1
    /\ otp' = [code |-> codes + 1, attempts |-> 0]
    /\ Overtake(s, [request[s] EXCEPT !.step = "stored", !.code = codes + 1], CodeSteps)
    /\ UNCHANGED <<cooldown, texts, registered, tries, uses, expired, crossed, addressVars>>

StartCooldown(s) ==
    /\ Step(s, "stored")
    /\ cooldown' = TRUE
    /\ Go(s, [request[s] EXCEPT !.step = "cooling"])
    /\ UNCHANGED <<otp, codes, texts, registered, tries, uses, expired, crossed, addressVars>>

SendCode(s) ==
    /\ Step(s, "cooling")
    /\ texts' = texts \cup {request[s].code}
    /\ Go(s, NoRequest)
    /\ UNCHANGED <<otp, cooldown, codes, registered, tries, uses, expired, crossed, addressVars>>

\* OTP_RESEND_COOLDOWN_SECONDS, OTP_TTL_SECONDS.
CooldownEnds ==
    /\ cooldown
    /\ cooldown' = FALSE
    /\ UNCHANGED <<otp, codes, texts, registered, tries, uses, expired, crossed,
                   addressVars, request, requests>>

OtpExpires ==
    /\ otp # NoOtp
    /\ otp' = NoOtp
    /\ expired' = expired \cup {otp.code}
    /\ UNCHANGED <<cooldown, codes, texts, registered, tries, uses, crossed,
                   addressVars, request, requests>>

-----------------------------------------------------------------------------
(* verifyOtp, verifyCustomerOtp.                                             *)

\* The record is read and the code compared with it.
TryCode(s) ==
    /\ otp # NoOtp
    /\ \E c \in texts \cup {0} :
          Ask(s, [NoRequest EXCEPT !.seen = otp, !.code = c,
                                   !.step = IF otp.attempts >= MaxAttempts THEN "spent"
                                            ELSE IF otp.code = c THEN "right" ELSE "wrong"])
    /\ UNCHANGED <<codeVars, addressVars>>

\* s writes the record it decided about: was it still the one it read?
Cross(s) ==
    crossed' = IF request[s].alone THEN crossed ELSE crossed \cup {request[s].seen.code, codes}

\* The record is written back, its lifetime renewed.
CountTry(s) ==
    LET seen == request[s].seen IN
    /\ Step(s, "wrong")
    /\ otp' = [seen EXCEPT !.attempts = @ + 1]
    /\ tries' = [tries EXCEPT ![seen.code] = @ + 1]
    /\ Cross(s)
    /\ Overtake(s, NoRequest, CodeSteps)
    /\ UNCHANGED <<cooldown, codes, texts, registered, uses, expired, addressVars>>

\* Too many attempts: the key is deleted.
BurnCode(s) ==
    /\ Step(s, "spent")
    /\ otp' = NoOtp
    /\ Cross(s)
    /\ Overtake(s, NoRequest, CodeSteps)
    /\ UNCHANGED <<cooldown, codes, texts, registered, tries, uses, expired, addressVars>>

\* Mutant: the record of a right code is left to expire.
UseCodeMutant(s) ==
    /\ Step(s, "right")
    /\ uses' = [uses EXCEPT ![request[s].seen.code] = @ + 1]
    /\ Cross(s)
    /\ Overtake(s, [request[s] EXCEPT !.step = "verified"], CodeSteps)
    /\ UNCHANGED <<otp, cooldown, codes, texts, registered, tries, expired, addressVars>>

\* The key is deleted, whatever it holds by now.
UseCode(s) ==
    /\ Step(s, "right")
    /\ otp' = NoOtp
    /\ uses' = [uses EXCEPT ![request[s].seen.code] = @ + 1]
    /\ Cross(s)
    /\ Overtake(s, [request[s] EXCEPT !.step = "verified"], CodeSteps)
    /\ UNCHANGED <<cooldown, codes, texts, registered, tries, expired, addressVars>>

\* The customer row is upserted.
LogIn(s) ==
    /\ Step(s, "verified")
    /\ registered' = TRUE
    /\ Go(s, NoRequest)
    /\ UNCHANGED <<otp, cooldown, codes, texts, tries, uses, expired, crossed, addressVars>>

-----------------------------------------------------------------------------
(* Addresses.                                                                *)

Saved == {a \in Addresses : addresses[a] # "none"}
Defaults == {a \in Addresses : addresses[a] = "default"}

\* Rows that the transactions of the others hold.
HeldByOthers(s) ==
    UNION {request[r].rows :
             r \in {q \in Slots \ {s} : request[q].step \in {"cleared", "deleted", "found"}}}

\* Mutant: the first address is the default only if the request says so.
AskToAddMutant(s) ==
    /\ registered
    /\ \E d \in BOOLEAN : Ask(s, [NoRequest EXCEPT !.step = "counted", !.default = d])
    /\ UNCHANGED <<codeVars, addressVars>>

\* createAddress counts: the first is always the default.
AskToAdd(s) ==
    /\ registered
    /\ \E d \in BOOLEAN :
          Ask(s, [NoRequest EXCEPT !.step = "counted", !.default = Saved = {} \/ d])
    /\ UNCHANGED <<codeVars, addressVars>>

\* getOwnedAddress.
AskForDefault(s) ==
    /\ \E a \in Saved : Ask(s, [NoRequest EXCEPT !.step = "set", !.on = a, !.default = TRUE])
    /\ UNCHANGED <<codeVars, addressVars>>

AskToDelete(s) ==
    /\ \E a \in Saved : Ask(s, [NoRequest EXCEPT !.step = "delete", !.on = a,
                                                    !.default = a \in Defaults])
    /\ UNCHANGED <<codeVars, addressVars>>

\* updateMany: what it sees, then what it clears.
OpenClear(s) ==
    /\ request[s].step \in {"counted", "set"}
    /\ request[s].default
    /\ Go(s, [request[s] EXCEPT !.step = "opened", !.rows = Defaults])
    /\ UNCHANGED <<codeVars, addressVars>>

Clear(s) ==
    /\ Step(s, "opened")
    /\ request[s].rows \cap HeldByOthers(s) = {}
    /\ Go(s, [request[s] EXCEPT !.step = "cleared", !.rows = @ \cap Defaults])
    /\ UNCHANGED <<codeVars, addressVars>>

\* The transaction of s commits: these are the addresses now.  repairs: it
\* cleared all defaults but its own.
Commit(s, new, repairs) ==
    /\ addresses' = new
    /\ mixed' = (~request[s].alone \/ (mixed /\ ~repairs))
    /\ Overtake(s, NoRequest, AddressSteps)
    /\ UNCHANGED codeVars

\* create, with the default cleared if it is to be the default.
AddAddress(s) ==
    LET a == added + 1 IN
    /\ request[s].on = 0
    /\ request[s].step = IF request[s].default THEN "cleared" ELSE "counted"
    /\ added < MaxAddresses
    /\ added' = a
    /\ Commit(s, [b \in Addresses |->
                    CASE b = a -> IF request[s].default THEN "default" ELSE "plain"
                      [] b # a /\ b \in request[s].rows -> "plain"
                      [] OTHER -> addresses[b]], request[s].default)

\* setDefaultAddress; if the row is gone the transaction rolls back.
SetDefault(s) ==
    LET a == request[s].on IN
    /\ Step(s, "cleared")
    /\ a # 0
    /\ a \notin HeldByOthers(s)
    /\ IF a \notin Saved THEN Go(s, NoRequest) /\ UNCHANGED <<codeVars, addresses, mixed>>
       ELSE Commit(s, [b \in Addresses |-> CASE b = a -> "default"
                                             [] b # a /\ b \in request[s].rows -> "plain"
                                             [] OTHER -> addresses[b]], TRUE)
    /\ UNCHANGED added

\* deleteAddress: nothing else to do if the address was not the default when
\* it was read.
DeleteAddress(s) ==
    LET a == request[s].on IN
    /\ Step(s, "delete")
    /\ a \notin HeldByOthers(s)
    /\ IF a \notin Saved THEN Go(s, NoRequest) /\ UNCHANGED <<codeVars, addresses, mixed>>
       ELSE IF request[s].default
         THEN /\ Go(s, [request[s] EXCEPT !.step = "deleted", !.rows = {a}])
              /\ UNCHANGED <<codeVars, addresses, mixed>>
         ELSE Commit(s, [addresses EXCEPT ![a] = "none"], FALSE)
    /\ UNCHANGED added

\* findFirst: the newest of the others.
FindNext(s) ==
    LET others == Saved \ {request[s].on} IN
    /\ Step(s, "deleted")
    /\ \E n \in others \cup {0} :
          /\ n = 0 => others = {}
          /\ \A b \in others : b <= n
          /\ Go(s, [request[s] EXCEPT !.step = "found", !.next = n])
    /\ UNCHANGED <<codeVars, addressVars>>

\* It becomes the default, unless it is gone by now.
Promote(s) ==
    LET n == request[s].next IN
    /\ Step(s, "found")
    /\ n \notin HeldByOthers(s)
    /\ IF n # 0 /\ n \notin Saved THEN Go(s, NoRequest) /\ UNCHANGED <<codeVars, addresses, mixed>>
       ELSE Commit(s, [b \in Addresses |-> CASE b = request[s].on -> "none"
                                             [] b # request[s].on /\ b = n -> "default"
                                             [] OTHER -> addresses[b]], FALSE)
    /\ UNCHANGED added

-----------------------------------------------------------------------------

\* A call fails, or two transactions wait for each other and one is aborted.
Abort(s) ==
    /\ ~Step(s, "idle")
    /\ Go(s, NoRequest)
    /\ UNCHANGED <<codeVars, addressVars>>

AccountNext ==
    \/ \E s \in Slots :
          \/ AskForCode(s) \/ StoreCode(s) \/ StartCooldown(s) \/ SendCode(s)
          \/ TryCode(s) \/ CountTry(s) \/ BurnCode(s) \/ UseCode(s) \/ LogIn(s)
          \/ AskToAdd(s) \/ AskForDefault(s) \/ AskToDelete(s)
          \/ OpenClear(s) \/ Clear(s) \/ AddAddress(s) \/ SetDefault(s)
          \/ DeleteAddress(s) \/ FindNext(s) \/ Promote(s)
          \/ Abort(s)
    \/ CooldownEnds
    \/ OtpExpires

AccountSpec == AccountInit /\ [][AccountNext]_accountVars

-----------------------------------------------------------------------------
(* Properties.                                                               *)

\* A code logs in once and takes MaxAttempts wrong attempts at most ("a max
\* verification attempt count before the OTP is invalidated", otp.service.ts),
\* unless an attempt that was decided before another write was written after it.
CodesAreSpent ==
    \A c \in Codes \ crossed : uses[c] <= 1 /\ tries[c] <= MaxAttempts

\* The newest code is the one that works until it is used, expired or spent:
\* no earlier request or attempt brings an older one back, with the same
\* exception.
NewestCodeWorks ==
    \A c \in {codes} \ ({0} \cup crossed) :
        \/ otp.code = c
        \/ otp = NoOtp /\ (uses[c] > 0 \/ c \in expired \/ tries[c] >= MaxAttempts)

\* Whoever has addresses has exactly one default, unless changes of them
\* overlapped since the default was last set by a request that ran alone.
OneDefault ==
    mixed \/ Cardinality(Defaults) = IF Saved = {} THEN 0 ELSE 1

=============================================================================
