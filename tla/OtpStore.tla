------------------------------ MODULE OtpStore ------------------------------
(***************************************************************************)
(* The one-time passwords and the session tokens of one customer of one    *)
(* product, kept in Redis (route_utils/user_otp.py, user_session.py), and  *)
(* the handlers that use them.  A key holds a secret and expires; next to  *)
(* it is a counter of the tries against it, that does not expire.  Each    *)
(* command to Redis is a step, MULTI ... EXEC is one; between two of them  *)
(* the other handlers run.  Secrets are numbered in the order in which     *)
(* they are SET; 0 stands for a key that is not there, and for a guess     *)
(* that is no secret.                                                      *)
(*                                                                         *)
(* The password of the portal link has another suffix, hence keys of its   *)
(* own, and the same code.                                                 *)
(***************************************************************************)
EXTENDS Naturals

CONSTANTS
    Handlers,      \* the handlers that may run at once
    OtpTries,      \* UserOTP.MAX_RETRIES
    SessionTries,  \* UserSession.MAX_RETRIES
    MaxAsked       \* bound: requests

ASSUME TriesAssumption == OtpTries \in Nat \ {0} /\ SessionTries \in Nat \ {0}
ASSUME AskedAssumption == MaxAsked \in Nat
ASSUME HandlersAssumption == Handlers # {}

VARIABLES
    otp, otpCount,      \* the two keys of the password
    token, tokenCount,  \* and of the session
    made,               \* the secrets SET so far
    run,                \* handler -> where it is, and its local variables
    asked,              \* the requests so far
    again,              \* the answers INVALID_OTP: {[ask, secret, count]}
    owedOtp, owedToken, \* the secret the customer may rely on, or 0
    wrongOtps,          \* wrong tries since the password was SET
    wrongTokens,        \* wrong tokens in a row
    calm                \* no two requests have overlapped, none has died

store   == <<otp, otpCount, token, tokenCount>>
owed    == <<owedOtp, owedToken, wrongOtps, wrongTokens>>
vars    == <<store, made, run, asked, again, owed, calm>>

\* The first command of each operation.
First == [getOTP |-> "deleteOtp", getSession |-> "readOtp",
          getSessionTokenByKeycloak |-> "getToken",
          validateSession |-> "readToken", refreshSession |-> "readToken"]

Ops == DOMAIN First

Places == {"idle", "deleteOtp", "setOtp", "mail", "unsetOtp", "readOtp", "answerOtp",
           "getToken", "setToken", "readToken", "answerToken",
           "refreshToken", "resetCount"}

Idle == [at |-> "idle", ask |-> 0, op |-> "getOTP", given |-> 0, read |-> 0, count |-> 0]

Init ==
    /\ otp = 0 /\ otpCount = 0 /\ token = 0 /\ tokenCount = 0
    /\ made = 0 /\ asked = 0
    /\ run = [h \in Handlers |-> Idle]
    /\ again = {}
    /\ owedOtp = 0 /\ owedToken = 0 /\ wrongOtps = 0 /\ wrongTokens = 0
    /\ calm = TRUE

\* A request, with the secret the customer gives: the one that is stored, or
\* another one, be it a former one.  validateSession is any handler that has the
\* token validated before it does its work.
Ask(h, o, g) ==
    /\ run[h].at = "idle" /\ asked < MaxAsked
    /\ asked' = asked + 1
    /\ run' = [run EXCEPT ![h] = [at |-> First[o], ask |-> asked + 1, op |-> o,
                                  given |-> g, read |-> 0, count |-> 0]]
    /\ calm' = (calm /\ \A i \in Handlers : run[i].at = "idle")
    /\ UNCHANGED <<store, made, again, owed>>

Goes(h, here, there) ==
    run[h].at = here /\ run' = [run EXCEPT ![h].at = there]

Reads(h, here, there, secret, n) ==
    /\ run[h].at = here
    /\ run' = [run EXCEPT ![h].at = there, ![h].read = secret, ![h].count = n]

Ends(h, here) == run[h].at = here /\ run' = [run EXCEPT ![h] = Idle]

\* DEL key key-c
DropOtp   == otp' = 0 /\ otpCount' = 0 /\ UNCHANGED <<token, tokenCount>>
DropToken == token' = 0 /\ tokenCount' = 0 /\ UNCHANGED <<otp, otpCount>>
-----------------------------------------------------------------------------
\* create_signup_otp

\* Mutated form: the counter of the former password stays.
DeleteOtp_not_its_count(h) ==
    /\ Goes(h, "deleteOtp", "setOtp")
    /\ otp' = 0 /\ UNCHANGED <<otpCount, token, tokenCount>>
    /\ owedOtp' = 0 /\ UNCHANGED <<owedToken, wrongOtps, wrongTokens>>
    /\ UNCHANGED <<made, asked, again, calm>>

\* generate_otp: the old password and its counter, then the new password.
DeleteOtp(h) ==
    /\ Goes(h, "deleteOtp", "setOtp")
    /\ DropOtp
    /\ owedOtp' = 0 /\ UNCHANGED <<owedToken, wrongOtps, wrongTokens>>
    /\ UNCHANGED <<made, asked, again, calm>>

SetOtp(h) ==
    /\ Reads(h, "setOtp", "mail", made + 1, 0)
    /\ made' = made + 1 /\ otp' = made + 1
    /\ wrongOtps' = 0 /\ UNCHANGED <<owedOtp, owedToken, wrongTokens>>
    /\ UNCHANGED <<otpCount, token, tokenCount, asked, again, calm>>

\* SendGrid answers 202; the password may have expired.
Mailed(h) ==
    /\ Ends(h, "mail")
    /\ owedOtp' = IF otp = run[h].read THEN otp ELSE 0
    /\ UNCHANGED <<owedToken, wrongOtps, wrongTokens>>
    /\ UNCHANGED <<store, made, asked, again, calm>>

\* Another answer; an exception leaves the password where it is.
NotMailed(h) ==
    /\ Goes(h, "mail", "unsetOtp") \/ Ends(h, "mail")
    /\ UNCHANGED <<store, made, asked, again, owed, calm>>

UnsetOtp(h) ==
    /\ Ends(h, "unsetOtp")
    /\ DropOtp
    /\ UNCHANGED <<made, asked, again, owed, calm>>
-----------------------------------------------------------------------------
\* validate_otp

\* MULTI; INCR key-c; MGET key key-c; EXEC
ReadOtp(h) ==
    /\ Reads(h, "readOtp", "answerOtp", otp, otpCount + 1)
    /\ otpCount' = otpCount + 1
    /\ UNCHANGED <<otp, token, tokenCount, made, asked, again, owed, calm>>

\* Mutated form: only the try that is the last one ends the password.
UsedUp_exactly(n, max) == n = max

UsedUp(n, max) == n >= max

\* The secret given is the one that was read, or another one.
Right(r) == r.read # 0 /\ r.given = r.read
Wrong(r) == r.read # 0 /\ r.given # r.read

NoOtp(h) ==
    /\ run[h].read = 0
    /\ Ends(h, "answerOtp")
    /\ DropOtp
    /\ UNCHANGED <<made, asked, again, owed, calm>>

RightOtp(h) ==
    /\ Right(run[h])
    /\ Goes(h, "answerOtp", "getToken")
    /\ DropOtp
    /\ owedOtp' = 0 /\ UNCHANGED <<owedToken, wrongOtps, wrongTokens>>
    /\ UNCHANGED <<made, asked, again, calm>>

\* OTP_RETRY: the customer has to ask for another password.
LastOtp(h) ==
    /\ Wrong(run[h]) /\ UsedUp(run[h].count, OtpTries)
    /\ Ends(h, "answerOtp")
    /\ DropOtp
    /\ wrongOtps' = wrongOtps + 1
    /\ owedOtp' = IF wrongOtps + 1 >= OtpTries THEN 0 ELSE owedOtp
    /\ UNCHANGED <<made, asked, again, owedToken, wrongTokens, calm>>

\* INVALID_OTP: he may try again.
WrongOtp(h) ==
    /\ Wrong(run[h]) /\ ~UsedUp(run[h].count, OtpTries)
    /\ Ends(h, "answerOtp")
    /\ again' = again \cup
        {[ask |-> run[h].ask, secret |-> run[h].read, count |-> run[h].count]}
    /\ wrongOtps' = wrongOtps + 1 /\ UNCHANGED <<owedOtp, owedToken, wrongTokens>>
    /\ UNCHANGED <<store, made, asked, calm>>
-----------------------------------------------------------------------------
\* get_session_token and create_session

FindToken(h) ==
    /\ token # 0
    /\ Ends(h, "getToken")
    /\ owedToken' = token
    /\ UNCHANGED <<store, made, asked, again, owedOtp, wrongOtps, wrongTokens, calm>>

MissToken(h) ==
    /\ token = 0
    /\ Goes(h, "getToken", "setToken")
    /\ UNCHANGED <<store, made, asked, again, owed, calm>>

\* The counter of the former token stays.
SetToken(h) ==
    /\ Ends(h, "setToken")
    /\ made' = made + 1 /\ token' = made + 1
    /\ owedToken' = made + 1
    /\ UNCHANGED <<otp, otpCount, tokenCount, asked, again, owedOtp, wrongOtps, wrongTokens, calm>>
-----------------------------------------------------------------------------
\* validate_session and refresh_session

ReadToken(h) ==
    /\ Reads(h, "readToken", "answerToken", token, tokenCount + 1)
    /\ tokenCount' = tokenCount + 1
    /\ UNCHANGED <<otp, otpCount, token, made, asked, again, owed, calm>>

NoToken(h) ==
    /\ run[h].read = 0
    /\ Ends(h, "answerToken")
    /\ DropToken
    /\ wrongTokens' = 0 /\ UNCHANGED <<owedOtp, owedToken, wrongOtps>>
    /\ UNCHANGED <<made, asked, again, calm>>

\* Mutated form: the try is taken back, where the counter is to be deleted.
RightToken_decrements(h) ==
    /\ Right(run[h])
    /\ Ends(h, "answerToken")
    /\ tokenCount' = tokenCount - 1 /\ UNCHANGED <<otp, otpCount, token>>
    /\ wrongTokens' = 0 /\ UNCHANGED <<owedOtp, owedToken, wrongOtps>>
    /\ UNCHANGED <<made, asked, again, calm>>

\* The handler goes on to its work, refresh_session to the new token.
RightToken(h) ==
    /\ Right(run[h])
    /\ IF run[h].op = "refreshSession" THEN Goes(h, "answerToken", "refreshToken")
       ELSE Ends(h, "answerToken")
    /\ tokenCount' = 0 /\ UNCHANGED <<otp, otpCount, token>>
    /\ wrongTokens' = 0 /\ UNCHANGED <<owedOtp, owedToken, wrongOtps>>
    /\ UNCHANGED <<made, asked, again, calm>>

WrongToken(h) ==
    /\ Wrong(run[h])
    /\ Ends(h, "answerToken")
    /\ IF UsedUp(run[h].count, SessionTries) THEN DropToken ELSE UNCHANGED store
    /\ wrongTokens' = wrongTokens + 1
    /\ owedToken' = IF wrongTokens + 1 >= SessionTries THEN 0 ELSE owedToken
    /\ UNCHANGED <<made, asked, again, owedOtp, wrongOtps, calm>>

RefreshToken(h) ==
    /\ Reads(h, "refreshToken", "resetCount", made + 1, 0)
    /\ made' = made + 1 /\ token' = made + 1
    /\ owedToken' = 0 /\ UNCHANGED <<owedOtp, wrongOtps, wrongTokens>>
    /\ UNCHANGED <<otp, otpCount, tokenCount, asked, again, calm>>

ResetCount(h) ==
    /\ Ends(h, "resetCount")
    /\ tokenCount' = 0 /\ UNCHANGED <<otp, otpCount, token>>
    /\ owedToken' = IF token = run[h].read THEN token ELSE 0
    /\ UNCHANGED <<made, asked, again, owedOtp, wrongOtps, wrongTokens, calm>>
-----------------------------------------------------------------------------
\* The server stops, the client goes away, Redis does not answer: the handler
\* ends where it is.
Die(h) ==
    /\ run[h].at # "idle"
    /\ run' = [run EXCEPT ![h] = Idle]
    /\ calm' = FALSE
    /\ UNCHANGED <<store, made, asked, again, owed>>

\* The TTL of a key; the counter has none.
ExpireOtp ==
    /\ otp # 0 /\ otp' = 0
    /\ owedOtp' = 0 /\ UNCHANGED <<owedToken, wrongOtps, wrongTokens>>
    /\ UNCHANGED <<otpCount, token, tokenCount, made, run, asked, again, calm>>

ExpireToken ==
    /\ token # 0 /\ token' = 0
    /\ owedToken' = 0 /\ UNCHANGED <<owedOtp, wrongOtps, wrongTokens>>
    /\ UNCHANGED <<otp, otpCount, tokenCount, made, run, asked, again, calm>>

Asks(h) ==
    \/ Ask(h, "getOTP", 0)
    \/ \E g \in {0, otp} : Ask(h, "getSession", g)
    \/ Ask(h, "getSessionTokenByKeycloak", 0)
    \/ \E g \in {0, token} : Ask(h, "validateSession", g) \/ Ask(h, "refreshSession", g)

Step(h) ==
    \/ Asks(h)
    \/ DeleteOtp(h) \/ SetOtp(h) \/ Mailed(h) \/ NotMailed(h) \/ UnsetOtp(h)
    \/ ReadOtp(h) \/ NoOtp(h) \/ RightOtp(h) \/ LastOtp(h) \/ WrongOtp(h)
    \/ FindToken(h) \/ MissToken(h) \/ SetToken(h)
    \/ ReadToken(h) \/ NoToken(h) \/ RightToken(h) \/ WrongToken(h)
    \/ RefreshToken(h) \/ ResetCount(h)
    \/ Die(h)

Next == (\E h \in Handlers : Step(h)) \/ ExpireOtp \/ ExpireToken

Spec == Init /\ [][Next]_vars
-----------------------------------------------------------------------------
Secrets == 0 .. made

Locals == [at : Places, ask : 0 .. asked, op : Ops,
           given : Secrets, read : Secrets, count : Nat]

TypeOK ==
    /\ made \in Nat /\ asked \in Nat
    /\ otp \in Secrets /\ token \in Secrets
    /\ otpCount \in Nat /\ tokenCount \in Nat
    /\ run \in [Handlers -> Locals]
    /\ again \subseteq [ask : 1 .. asked, secret : Secrets \ {0}, count : Nat]
    /\ owedOtp \in Secrets /\ owedToken \in Secrets
    /\ wrongOtps \in Nat /\ wrongTokens \in Nat /\ calm \in BOOLEAN

\* Each time validate_otp answers that the password is wrong and may be tried
\* again, it has counted that try under a number of its own, below MAX_RETRIES:
\* however the requests overlap and wherever they end, fewer than MAX_RETRIES
\* wrong tries of one password are answered that way.
TriesAreCounted ==
    /\ \A a \in again : a.count \in 1 .. OtpTries - 1
    /\ \A a, b \in again : a.secret = b.secret /\ a.count = b.count => a.ask = b.ask

\* What a customer who does one thing at a time has been sent stays good: the
\* password until it is used, tried MAX_RETRIES times, expires or is asked for
\* anew; the token until it is refreshed, expires or MAX_RETRIES wrong ones
\* have come in a row.
PromiseIsKept == calm => owedOtp \in {0, otp} /\ owedToken \in {0, token}
=============================================================================
