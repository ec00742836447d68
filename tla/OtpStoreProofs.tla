--------------------------- MODULE OtpStoreProofs ---------------------------
(***************************************************************************)
(* Proofs about OtpStore, for every number of handlers and of requests and *)
(* every number of tries: the wrong tries of a password are counted        *)
(* however requests overlap, and what a customer who does one thing at a   *)
(* time has been sent stays good.                                          *)
(***************************************************************************)
EXTENDS OtpStore, TLAPS

-----------------------------------------------------------------------------
(* The invariant                                                           *)

\* A handler that does something has been asked to.
AskedFirst == \A h \in Handlers : run[h].at # "idle" => run[h].ask >= 1

\* A handler that has read a password and has not answered yet.
Trying(h) == run[h].at = "answerOtp" /\ run[h].read # 0

\* A try that is not answered yet is counted, as long as its password is there
\* under a number the counter has reached; no two tries of one password, be
\* they answered or not, have the same number.
CountInv ==
    /\ \A h \in Handlers : Trying(h) =>
        /\ run[h].count >= 1
        /\ otp = run[h].read => run[h].count <= otpCount
        /\ \A a \in again : a.secret = run[h].read => a.count # run[h].count
        /\ \A i \in Handlers \ {h} :
                Trying(i) /\ run[i].read = run[h].read => run[i].count # run[h].count
    /\ \A a \in again : otp = a.secret => a.count <= otpCount

\* All other handlers are idle.
Alone(h) == \A i \in Handlers \ {h} : run[i].at = "idle"

\* What a handler that is alone, and where it is, may count on: no counter is
\* ahead of the wrong tries, but for the try it is about to answer, and what it
\* is about to take away is owed to nobody.
Fits(r) ==
    /\ r.at \in {"setOtp", "mail", "unsetOtp"} => owedOtp = 0
    /\ r.at = "setOtp" => otpCount = 0
    /\ r.at = "answerOtp" => (r.read = 0 => otp = 0) /\ r.count <= wrongOtps + 1
    /\ r.at = "answerToken" => (r.read = 0 => token = 0) /\ r.count <= wrongTokens + 1
    /\ r.at = "resetCount" => owedToken = 0
    /\ otpCount <= wrongOtps \/ (r.at = "answerOtp" /\ otpCount <= wrongOtps + 1)
    /\ tokenCount <= wrongTokens \/ (r.at = "answerToken" /\ tokenCount <= wrongTokens + 1)

CalmInv ==
    calm =>
        /\ \A h \in Handlers : run[h].at # "idle" => Alone(h)
        /\ \A h \in Handlers : Alone(h) => Fits(run[h])
        /\ owedOtp \in {0, otp} /\ owedToken \in {0, token}

IInv == TypeOK /\ AskedFirst /\ CountInv /\ TriesAreCounted /\ CalmInv
-----------------------------------------------------------------------------
(* How a handler moves                                                     *)

\* Nothing but the locals of h changes, which are r from now on.
Moves(h, r) == run'[h] = r /\ \A i \in Handlers \ {h} : run'[i] = run[i]

\* A handler that goes on keeps its locals.
LEMMA GoesMoves ==
    ASSUME TypeOK, NEW h \in Handlers, NEW here, NEW there \in Places, Goes(h, here, there)
    PROVE  /\ run[h].at = here
           /\ run' \in [Handlers -> Locals]
           /\ Moves(h, [run[h] EXCEPT !.at = there])
<1>1. PICK r \in Locals : r = run[h]
  BY DEF TypeOK
<1>2. [r EXCEPT !.at = there] \in Locals
  BY DEF Locals
<1>3. QED
  BY <1>1, <1>2 DEF Goes, Moves, TypeOK

\* One that ends is idle.
LEMMA EndsMoves ==
    ASSUME TypeOK, NEW h \in Handlers, run' = [run EXCEPT ![h] = Idle]
    PROVE  run' \in [Handlers -> Locals] /\ Moves(h, Idle)
<1>1. "getOTP" \in Ops
  BY DEF Ops, First
<1>2. 0 \in Secrets /\ 0 \in 0 .. asked
  BY DEF Secrets, TypeOK
<1>3. Idle \in Locals
  BY <1>1, <1>2 DEF Idle, Locals, Places
<1>4. QED
  BY <1>3 DEF Moves, TypeOK

\* Locals stay locals when there are more secrets and more requests.
LEMMA MoreLocals ==
    ASSUME TypeOK, made' \in Nat, made <= made', asked' \in Nat, asked <= asked'
    PROVE  /\ Locals \subseteq Locals'
           /\ Secrets \subseteq Secrets'
           /\ again \subseteq [ask : 1 .. asked', secret : Secrets' \ {0}, count : Nat]
BY DEF TypeOK, Locals, Secrets
-----------------------------------------------------------------------------
(* Types                                                                   *)

\* A step that issues no secret and takes no request keeps the types if it
\* keeps them in the store and in what is owed.
LEMMA TypeKept ==
    ASSUME TypeOK, UNCHANGED <<made, asked>>, run' \in [Handlers -> Locals],
           otp' \in Secrets, token' \in Secrets, otpCount' \in Nat, tokenCount' \in Nat,
           again' \subseteq [ask : 1 .. asked, secret : Secrets \ {0}, count : Nat],
           owedOtp' \in Secrets, owedToken' \in Secrets,
           wrongOtps' \in Nat, wrongTokens' \in Nat, calm' \in BOOLEAN
    PROVE  TypeOK'
<1>1. Locals' = Locals /\ Secrets' = Secrets
  BY DEF Locals, Secrets
<1>2. QED
  BY <1>1 DEF TypeOK

\* The one that issues a secret may put it anywhere.
LEMMA TypeMade ==
    ASSUME TypeOK, made' = made + 1, asked' = asked, NEW h \in Handlers, NEW r,
           r = run[h], NEW p \in Places, NEW n \in Secrets \cup {made + 1},
           \/ run' = [run EXCEPT ![h] = [r EXCEPT !.at = p, !.read = n, !.count = 0]]
           \/ run' \in [Handlers -> Locals],
           otp' \in Secrets \cup {made + 1}, token' \in Secrets \cup {made + 1},
           UNCHANGED <<otpCount, tokenCount, again, calm>>,
           owedOtp' \in Secrets \cup {made + 1}, owedToken' \in Secrets \cup {made + 1},
           wrongOtps' \in Nat, wrongTokens' \in Nat
    PROVE  TypeOK'
<1>1. Locals \subseteq Locals' /\ Secrets' = Secrets \cup {made + 1}
  BY MoreLocals DEF TypeOK, Secrets
<1>2. r \in Locals'
  BY <1>1 DEF TypeOK
<1>3. [r EXCEPT !.at = p, !.read = n, !.count = 0] \in Locals'
  BY <1>1, <1>2 DEF Locals
<1>4. run' \in [Handlers -> Locals']
  BY <1>1, <1>3 DEF TypeOK
<1>5. again' \subseteq [ask : 1 .. asked', secret : Secrets' \ {0}, count : Nat]
  BY MoreLocals DEF TypeOK
<1>6. made' \in Nat /\ asked' \in Nat /\ otpCount' \in Nat /\ tokenCount' \in Nat
      /\ calm' \in BOOLEAN
  BY DEF TypeOK
<1>7. QED
  BY <1>1, <1>4, <1>5, <1>6 DEF TypeOK

\* No key, no secret.
LEMMA NoSecret == ASSUME TypeOK PROVE 0 \in Secrets
BY DEF TypeOK, Secrets

\* The initial state is typed.
LEMMA TypeInit == Init => TypeOK
<1> SUFFICES ASSUME Init PROVE TypeOK
  OBVIOUS
<1>1. "getOTP" \in Ops
  BY DEF Ops, First
<1>2. Idle \in Locals
  BY <1>1 DEF Idle, Locals, Places, Secrets, Init
<1>3. QED
  BY <1>2 DEF Init, TypeOK, Secrets

\* The steps that send a password keep every type.
LEMMA TypeSend ==
    ASSUME TypeOK, NEW h \in Handlers,
           DeleteOtp(h) \/ SetOtp(h) \/ Mailed(h) \/ NotMailed(h) \/ UnsetOtp(h)
    PROVE  TypeOK'
<1>1. CASE DeleteOtp(h)
  <2>1. run' \in [Handlers -> Locals]
    BY <1>1, GoesMoves DEF DeleteOtp, Places
  <2>2. QED
    BY <1>1, <2>1, TypeKept, NoSecret DEF DeleteOtp, DropOtp, TypeOK
<1>2. CASE SetOtp(h)
  <2>1. run' = [run EXCEPT ![h] =
                  [run[h] EXCEPT !.at = "mail", !.read = made + 1, !.count = 0]]
    BY <1>2 DEF SetOtp, Reads
  <2>2. QED
    BY <1>2, <2>1, TypeMade DEF SetOtp, Places, TypeOK
<1>3. CASE Mailed(h)
  <2>1. run' \in [Handlers -> Locals]
    BY <1>3, EndsMoves DEF Mailed, Ends
  <2>2. QED
    BY <1>3, <2>1, TypeKept, NoSecret DEF Mailed, store, TypeOK
<1>4. CASE NotMailed(h)
  <2>1. run' \in [Handlers -> Locals]
    BY <1>4, GoesMoves, EndsMoves DEF NotMailed, Ends, Places
  <2>2. QED
    BY <1>4, <2>1, TypeKept DEF NotMailed, store, owed, TypeOK
<1>5. CASE UnsetOtp(h)
  <2>1. run' \in [Handlers -> Locals]
    BY <1>5, EndsMoves DEF UnsetOtp, Ends
  <2>2. QED
    BY <1>5, <2>1, TypeKept, NoSecret DEF UnsetOtp, DropOtp, owed, TypeOK
<1>6. QED
  BY <1>1, <1>2, <1>3, <1>4, <1>5
\* So do the steps that have a password validated.
LEMMA TypeValidate ==
    ASSUME TypeOK, AskedFirst, NEW h \in Handlers,
           ReadOtp(h) \/ NoOtp(h) \/ RightOtp(h) \/ LastOtp(h) \/ WrongOtp(h)
    PROVE  TypeOK'
<1> PICK r \in Locals : r = run[h]
  BY DEF TypeOK
<1>1. CASE ReadOtp(h)
  <2>1. run' = [run EXCEPT ![h] =
                  [run[h] EXCEPT !.at = "answerOtp", !.read = otp, !.count = otpCount + 1]]
    BY <1>1 DEF ReadOtp, Reads
  <2>2. [r EXCEPT !.at = "answerOtp", !.read = otp, !.count = otpCount + 1] \in Locals
    <3>1. otp \in Secrets /\ otpCount + 1 \in Nat
      BY DEF TypeOK
    <3>2. QED
      BY <3>1 DEF Locals, Places
  <2>3. run' \in [Handlers -> Locals]
    BY <2>1, <2>2 DEF TypeOK
  <2>4. otpCount' \in Nat
    BY <1>1 DEF ReadOtp, Reads, owed, TypeOK
  <2>5. UNCHANGED <<made, asked, otp, token, tokenCount, again, owed, calm>>
    BY <1>1 DEF ReadOtp
  <2>6. QED
    BY <2>3, <2>4, <2>5, TypeKept DEF owed, TypeOK
<1>2. CASE NoOtp(h)
  <2>1. run' \in [Handlers -> Locals]
    BY <1>2, EndsMoves DEF NoOtp, Ends
  <2>2. QED
    BY <1>2, <2>1, TypeKept, NoSecret DEF NoOtp, DropOtp, owed, TypeOK
<1>3. CASE RightOtp(h)
  <2>1. run' \in [Handlers -> Locals]
    BY <1>3, GoesMoves DEF RightOtp, Places
  <2>2. QED
    BY <1>3, <2>1, TypeKept, NoSecret DEF RightOtp, DropOtp, TypeOK
<1>4. CASE LastOtp(h)
  <2>1. run' \in [Handlers -> Locals]
    BY <1>4, EndsMoves DEF LastOtp, Ends
  <2>2. QED
    <3>1. owedOtp' \in Secrets /\ wrongOtps' \in Nat
      BY <1>4, NoSecret DEF LastOtp, Ends, DropOtp, TypeOK
    <3>2. QED
      <4>1. /\ UNCHANGED <<made, asked, token, tokenCount, again, owedToken, wrongTokens, calm>>
            /\ otp' = 0 /\ otpCount' = 0
        BY <1>4 DEF LastOtp, DropOtp
      <4>2. QED
        BY <4>1, <2>1, <3>1, TypeKept, NoSecret DEF TypeOK
<1>5. CASE WrongOtp(h)
  <2>1. run' \in [Handlers -> Locals]
    BY <1>5, EndsMoves DEF WrongOtp, Ends
  <2>2. QED
    <3>1. r.ask \in 1 .. asked /\ r.read \in Secrets \ {0} /\ r.count \in Nat
      <4>1. r.at = "answerOtp" /\ r.read # 0
        BY <1>5 DEF WrongOtp, Wrong, Ends
      <4>2. r.ask \in 0 .. asked /\ r.read \in Secrets /\ r.count \in Nat
        BY DEF Locals
      <4>3. r.ask >= 1
        BY <4>1 DEF AskedFirst
      <4>4. QED
        BY <4>1, <4>2, <4>3
    <3>2. again' \subseteq [ask : 1 .. asked, secret : Secrets \ {0}, count : Nat]
      <4>1. again' = again \cup {[ask |-> r.ask, secret |-> r.read, count |-> r.count]}
        BY <1>5 DEF WrongOtp, Ends, store
      <4>2. again \subseteq [ask : 1 .. asked, secret : Secrets \ {0}, count : Nat]
        BY DEF TypeOK
      <4>3. QED
        BY <3>1, <4>1, <4>2
    <3>3. wrongOtps' \in Nat
      BY <1>5 DEF WrongOtp, Ends, store, TypeOK
    <3>4. UNCHANGED <<made, asked, store, owedOtp, owedToken, wrongTokens, calm>>
      BY <1>5 DEF WrongOtp
    <3>5. QED
      BY <2>1, <3>2, <3>3, <3>4, TypeKept DEF store, TypeOK
<1>6. QED
  BY <1>1, <1>2, <1>3, <1>4, <1>5
\* So do the steps of the sessions.
LEMMA TypeSession ==
    ASSUME TypeOK, NEW h \in Handlers,
           \/ FindToken(h) \/ MissToken(h) \/ SetToken(h)
           \/ ReadToken(h) \/ NoToken(h) \/ RightToken(h) \/ WrongToken(h)
           \/ RefreshToken(h) \/ ResetCount(h)
    PROVE  TypeOK'
<1> PICK r \in Locals : r = run[h]
  BY DEF TypeOK
<1> USE DEF store, owed
<1>1. CASE FindToken(h)
  <2>1. run' \in [Handlers -> Locals]
    BY <1>1, EndsMoves DEF FindToken, Ends
  <2>2. QED
    BY <1>1, <2>1, TypeKept DEF FindToken, TypeOK
<1>2. CASE MissToken(h)
  <2>1. run' \in [Handlers -> Locals]
    BY <1>2, GoesMoves DEF MissToken, Places
  <2>2. QED
    BY <1>2, <2>1, TypeKept DEF MissToken, TypeOK
<1>3. CASE SetToken(h)
  <2>1. run' \in [Handlers -> Locals]
    BY <1>3, EndsMoves DEF SetToken, Ends
  <2>2. QED
    BY <1>3, <2>1, TypeMade, NoSecret DEF SetToken, Places, TypeOK
<1>4. CASE ReadToken(h)
  <2>1. run' = [run EXCEPT ![h] =
                  [run[h] EXCEPT !.at = "answerToken", !.read = token, !.count = tokenCount + 1]]
    BY <1>4 DEF ReadToken, Reads
  <2>2. [r EXCEPT !.at = "answerToken", !.read = token, !.count = tokenCount + 1] \in Locals
    <3>1. token \in Secrets /\ tokenCount + 1 \in Nat
      BY DEF TypeOK
    <3>2. QED
      BY <3>1 DEF Locals, Places
  <2>3. run' \in [Handlers -> Locals]
    BY <2>1, <2>2 DEF TypeOK
  <2>4. tokenCount' \in Nat
    BY <1>4 DEF ReadToken, TypeOK
  <2>5. QED
    BY <1>4, <2>3, <2>4, TypeKept DEF ReadToken, TypeOK
<1>5. CASE NoToken(h)
  <2>1. run' \in [Handlers -> Locals]
    BY <1>5, EndsMoves DEF NoToken, Ends
  <2>2. QED
    BY <1>5, <2>1, TypeKept, NoSecret DEF NoToken, DropToken, TypeOK
<1>6. CASE RightToken(h)
  <2>1. run' \in [Handlers -> Locals]
    BY <1>6, GoesMoves, EndsMoves DEF RightToken, Ends, Places
  <2>2. QED
    BY <1>6, <2>1, TypeKept DEF RightToken, TypeOK
<1>7. CASE WrongToken(h)
  <2>1. run' \in [Handlers -> Locals]
    BY <1>7, EndsMoves DEF WrongToken, Ends
  <2>2. owedToken' \in Secrets /\ wrongTokens' \in Nat
    BY <1>7, NoSecret DEF WrongToken, TypeOK
  <2>3. token' \in Secrets /\ tokenCount' \in Nat /\ UNCHANGED <<otp, otpCount>>
    BY <1>7, NoSecret DEF WrongToken, DropToken, TypeOK
  <2>4. QED
    BY <1>7, <2>1, <2>2, <2>3, TypeKept DEF WrongToken, TypeOK
<1>8. CASE RefreshToken(h)
  <2>1. run' = [run EXCEPT ![h] =
                  [run[h] EXCEPT !.at = "resetCount", !.read = made + 1, !.count = 0]]
    BY <1>8 DEF RefreshToken, Reads
  <2>2. QED
    BY <1>8, <2>1, TypeMade, NoSecret DEF RefreshToken, Places, TypeOK
<1>9. CASE ResetCount(h)
  <2>1. run' \in [Handlers -> Locals]
    BY <1>9, EndsMoves DEF ResetCount, Ends
  <2>2. owedToken' \in Secrets
    BY <1>9, NoSecret DEF ResetCount, TypeOK
  <2>3. QED
    BY <1>9, <2>1, <2>2, TypeKept DEF ResetCount, TypeOK
<1>10. QED
  BY <1>1, <1>2, <1>3, <1>4, <1>5, <1>6, <1>7, <1>8, <1>9

\* So do requests, deaths and expiries.
LEMMA TypeAsk ==
    ASSUME TypeOK, NEW h \in Handlers, NEW o \in Ops, NEW g \in Secrets, Ask(h, o, g)
    PROVE  TypeOK'
<1>1. First[o] \in Places
  BY DEF First, Ops, Places
<1>2. asked' = asked + 1 /\ made' = made
  BY DEF Ask
<1>3. Locals \subseteq Locals' /\ Secrets' = Secrets
  BY <1>2, MoreLocals DEF TypeOK, Secrets
<1>4. [at |-> First[o], ask |-> asked + 1, op |-> o,
       given |-> g, read |-> 0, count |-> 0] \in Locals'
  <2>1. asked + 1 \in 0 .. asked'
    BY <1>2 DEF TypeOK
  <2>2. QED
    BY <1>1, <1>3, <2>1, NoSecret DEF Locals
<1>5. run' \in [Handlers -> Locals']
  BY <1>3, <1>4 DEF Ask, TypeOK
<1>6. again' \subseteq [ask : 1 .. asked', secret : Secrets' \ {0}, count : Nat]
  BY <1>2, MoreLocals DEF Ask, TypeOK
<1>7. calm' \in BOOLEAN
  BY DEF Ask, TypeOK
<1>8. asked' \in Nat /\ made' \in Nat
  BY <1>2 DEF TypeOK
<1>9. QED
  BY <1>3, <1>5, <1>6, <1>7, <1>8 DEF Ask, store, owed, TypeOK

LEMMA TypeElse ==
    ASSUME TypeOK, NEW h \in Handlers, Die(h) \/ ExpireOtp \/ ExpireToken
    PROVE  TypeOK'
<1> USE DEF store, owed
<1>1. CASE Die(h)
  <2>1. run' \in [Handlers -> Locals]
    BY <1>1, EndsMoves DEF Die
  <2>2. QED
    BY <1>1, <2>1, TypeKept DEF Die, TypeOK
<1>2. CASE ExpireOtp
  BY <1>2, TypeKept, NoSecret DEF ExpireOtp, TypeOK
<1>3. CASE ExpireToken
  BY <1>3, TypeKept, NoSecret DEF ExpireToken, TypeOK
<1>4. QED
  BY <1>1, <1>2, <1>3
-----------------------------------------------------------------------------
(* Tries                                                                   *)

\* A step keeps the invariant if it answers nobody and nobody starts a try, and
\* the password stays with its counter, goes, or is a new one.
LEMMA CountKept ==
    ASSUME TypeOK, CountInv, again' = again,
           \A i \in Handlers : Trying(i)' => Trying(i) /\ run'[i] = run[i],
           \/ otp' = 0
           \/ otp' = made + 1
           \/ otp' = otp /\ otpCount' = otpCount
    PROVE  CountInv'
<1>1. ASSUME NEW i \in Handlers, Trying(i)'
      PROVE  /\ run'[i] = run[i] /\ Trying(i)
             /\ otp' = run[i].read => otp = run[i].read /\ otpCount' = otpCount
  <2>1. Trying(i) /\ run'[i] = run[i]
    BY <1>1
  <2>2. run[i].read \in 0 .. made /\ run[i].read # 0
    BY <2>1 DEF Trying, TypeOK, Locals, Secrets
  <2>3. made \in Nat
    BY DEF TypeOK
  <2>4. QED
    BY <2>1, <2>2, <2>3
<1>2. ASSUME NEW i \in Handlers, Trying(i)'
      PROVE  /\ run'[i].count >= 1
             /\ otp' = run'[i].read => run'[i].count <= otpCount'
             /\ \A a \in again' : a.secret = run'[i].read => a.count # run'[i].count
             /\ \A j \in Handlers \ {i} :
                    Trying(j)' /\ run'[j].read = run'[i].read => run'[j].count # run'[i].count
  BY <1>1, <1>2 DEF CountInv
<1>3. ASSUME NEW a \in again', otp' = a.secret PROVE a.count <= otpCount'
  <2>1. a \in again /\ a.secret \in 1 .. made /\ made \in Nat
    BY <1>3 DEF TypeOK, Secrets
  <2>2. otp = a.secret /\ otpCount' = otpCount
    BY <1>3, <2>1
  <2>3. QED
    BY <2>1, <2>2 DEF CountInv
<1>4. QED
  BY <1>2, <1>3 DEF CountInv, Trying

\* A handler that goes to another place than the answer starts no try.
LEMMA GoesTriesNot ==
    ASSUME TypeOK, NEW h \in Handlers, NEW here, NEW there \in Places \ {"answerOtp"},
           \/ Goes(h, here, there)
           \/ Ends(h, here)
           \/ \E secret, n : Reads(h, here, there, secret, n)
    PROVE  \A i \in Handlers : Trying(i)' => Trying(i) /\ run'[i] = run[i]
<1>1. \A i \in Handlers \ {h} : run'[i] = run[i]
  BY DEF Goes, Ends, Reads, TypeOK
<1>2. PICK r \in Locals : r = run[h]
  BY DEF TypeOK
<1>3. run'[h].at # "answerOtp"
  <2>1. CASE Goes(h, here, there)
    BY <1>2, <2>1 DEF Goes, TypeOK, Locals
  <2>2. CASE Ends(h, here)
    BY <2>2 DEF Ends, TypeOK, Idle
  <2>3. CASE \E secret, n : Reads(h, here, there, secret, n)
    <3>1. PICK secret, n : Reads(h, here, there, secret, n)
      BY <2>3
    <3>2. run'[h] = [[[r EXCEPT !.at = there] EXCEPT !.read = secret] EXCEPT !.count = n]
      BY <1>2, <3>1 DEF Reads, TypeOK
    <3>3. QED
      BY <1>2, <3>2 DEF Locals
  <2>4. QED
    BY <2>1, <2>2, <2>3
<1>4. QED
  BY <1>1, <1>3 DEF Trying
\* The steps that send a password keep the invariant.
LEMMA CountSend ==
    ASSUME TypeOK, CountInv, NEW h \in Handlers,
           \/ DeleteOtp(h) \/ SetOtp(h) \/ Mailed(h) \/ NotMailed(h) \/ UnsetOtp(h)
    PROVE  CountInv'
<1> USE DEF store, owed
<1>1. CASE DeleteOtp(h)
  BY <1>1, GoesTriesNot, CountKept DEF DeleteOtp, DropOtp, Places
<1>2. CASE SetOtp(h)
  BY <1>2, GoesTriesNot, CountKept DEF SetOtp, Places
<1>3. CASE Mailed(h)
  BY <1>3, GoesTriesNot, CountKept DEF Mailed, Places
<1>4. CASE NotMailed(h)
  BY <1>4, GoesTriesNot, CountKept DEF NotMailed, Places
<1>5. CASE UnsetOtp(h)
  BY <1>5, GoesTriesNot, CountKept DEF UnsetOtp, DropOtp, Places
<1>6. QED
  BY <1>1, <1>2, <1>3, <1>4, <1>5

\* So do the answers that end a password.
LEMMA CountEnd ==
    ASSUME TypeOK, CountInv, NEW h \in Handlers,
           \/ NoOtp(h) \/ RightOtp(h) \/ LastOtp(h)
    PROVE  CountInv'
<1> USE DEF store, owed
<1>1. CASE NoOtp(h)
  BY <1>1, GoesTriesNot, CountKept DEF NoOtp, DropOtp, Places
<1>2. CASE RightOtp(h)
  BY <1>2, GoesTriesNot, CountKept DEF RightOtp, DropOtp, Places
<1>3. CASE LastOtp(h)
  BY <1>3, GoesTriesNot, CountKept DEF LastOtp, DropOtp, Places
<1>4. QED
  BY <1>1, <1>2, <1>3

\* So do the steps of the sessions.
LEMMA CountSession ==
    ASSUME TypeOK, CountInv, NEW h \in Handlers,
           \/ FindToken(h) \/ MissToken(h) \/ SetToken(h) \/ ReadToken(h) \/ NoToken(h)
           \/ RightToken(h) \/ WrongToken(h) \/ RefreshToken(h) \/ ResetCount(h)
    PROVE  CountInv'
<1> USE DEF store, owed
<1>1. CASE FindToken(h)
  BY <1>1, GoesTriesNot, CountKept DEF FindToken, Places
<1>2. CASE MissToken(h)
  BY <1>2, GoesTriesNot, CountKept DEF MissToken, Places
<1>3. CASE SetToken(h)
  BY <1>3, GoesTriesNot, CountKept DEF SetToken, Places
<1>4. CASE ReadToken(h)
  BY <1>4, GoesTriesNot, CountKept DEF ReadToken, Places
<1>5. CASE NoToken(h)
  BY <1>5, GoesTriesNot, CountKept DEF NoToken, DropToken, Places
<1>6. CASE RightToken(h)
  BY <1>6, GoesTriesNot, CountKept DEF RightToken, Places
<1>7. CASE WrongToken(h)
  BY <1>7, GoesTriesNot, CountKept DEF WrongToken, DropToken, Places
<1>8. CASE RefreshToken(h)
  BY <1>8, GoesTriesNot, CountKept DEF RefreshToken, Places
<1>9. CASE ResetCount(h)
  BY <1>9, GoesTriesNot, CountKept DEF ResetCount, Places
<1>10. QED
  BY <1>1, <1>2, <1>3, <1>4, <1>5, <1>6, <1>7, <1>8, <1>9

\* A request starts no try.
LEMMA CountAsk ==
    ASSUME TypeOK, CountInv, NEW h \in Handlers, NEW o \in Ops, NEW g \in Secrets, Ask(h, o, g)
    PROVE  CountInv'
<1>1. First[o] # "answerOtp"
  BY DEF First, Ops
<1>2. \A i \in Handlers : Trying(i)' => Trying(i) /\ run'[i] = run[i]
  BY <1>1 DEF Ask, Trying, TypeOK
<1>3. QED
  BY <1>2, CountKept DEF Ask, store

\* Nor does a death or an expiry.
LEMMA CountElse ==
    ASSUME TypeOK, CountInv, NEW h \in Handlers, Die(h) \/ ExpireOtp \/ ExpireToken
    PROVE  CountInv'
<1> USE DEF store, owed
<1>1. CASE Die(h)
  <2>1. Ends(h, run[h].at)
    BY <1>1 DEF Die, Ends
  <2>2. QED
    BY <1>1, <2>1, GoesTriesNot, CountKept DEF Die, Places
<1>2. CASE ExpireOtp
  BY <1>2, CountKept DEF ExpireOtp, Trying
<1>3. CASE ExpireToken
  BY <1>3, CountKept DEF ExpireToken, Trying
<1>4. QED
  BY <1>1, <1>2, <1>3

\* A try takes the next number of its password.
LEMMA CountRead ==
    ASSUME TypeOK, CountInv, NEW h \in Handlers, ReadOtp(h)
    PROVE  CountInv'
<1>1. PICK r \in Locals : r = run[h]
  BY DEF TypeOK
<1>2. /\ run'[h].at = "answerOtp" /\ run'[h].read = otp /\ run'[h].count = otpCount + 1
      /\ \A i \in Handlers \ {h} : run'[i] = run[i]
  BY <1>1 DEF ReadOtp, Reads, TypeOK, Locals
<1>3. otp' = otp /\ otpCount' = otpCount + 1 /\ again' = again /\ otpCount \in Nat
  BY DEF ReadOtp, TypeOK
<1>4. ASSUME NEW i \in Handlers, Trying(i)', i # h
      PROVE  /\ run'[i] = run[i] /\ Trying(i)
             /\ run[i].count \in Nat
             /\ otp = run[i].read => run[i].count # otpCount + 1
             /\ otp = run[i].read => run[i].count <= otpCount + 1
  <2>1. run'[i] = run[i] /\ Trying(i) /\ run[i].count \in Nat
    BY <1>2, <1>4 DEF Trying, TypeOK, Locals
  <2>2. QED
    BY <1>3, <2>1 DEF CountInv
<1>5. ASSUME NEW a \in again, otp = a.secret
      PROVE  a.count <= otpCount + 1 /\ a.count # otpCount + 1
  <2>1. a.count \in Nat /\ a.count <= otpCount
    BY <1>5 DEF CountInv, TypeOK
  <2>2. QED
    BY <1>3, <2>1
<1>6. ASSUME NEW i \in Handlers, Trying(i)'
      PROVE  /\ run'[i].count >= 1
             /\ otp' = run'[i].read => run'[i].count <= otpCount'
             /\ \A a \in again' : a.secret = run'[i].read => a.count # run'[i].count
             /\ \A j \in Handlers \ {i} :
                    Trying(j)' /\ run'[j].read = run'[i].read => run'[j].count # run'[i].count
  <2>1. CASE i = h
    BY <1>2, <1>3, <1>4, <1>5, <2>1
  <2>2. CASE i # h
    <3>1. run'[i] = run[i] /\ Trying(i)
      BY <1>4, <1>6, <2>2
    <3>2. run[i].count >= 1 /\ \A a \in again : a.secret = run[i].read => a.count # run[i].count
      BY <3>1 DEF CountInv
    <3>3. ASSUME NEW j \in Handlers \ {i}, Trying(j)', run'[j].read = run'[i].read
          PROVE  run'[j].count # run'[i].count
      <4>1. CASE j = h
        BY <1>2, <1>4, <1>6, <2>2, <3>1, <3>3, <4>1
      <4>2. CASE j # h
        <5>1. run'[j] = run[j] /\ Trying(j)
          BY <1>4, <3>3, <4>2
        <5>2. QED
          BY <3>1, <3>3, <5>1 DEF CountInv
      <4>3. QED
        BY <4>1, <4>2
    <3>4. otp' = run'[i].read => run'[i].count <= otpCount'
      BY <1>3, <1>4, <1>6, <2>2, <3>1
    <3>5. QED
      BY <1>3, <3>1, <3>2, <3>3, <3>4
  <2>3. QED
    BY <2>1, <2>2
<1>7. \A a \in again' : otp' = a.secret => a.count <= otpCount'
  BY <1>3, <1>5
<1>8. QED
  BY <1>6, <1>7 DEF CountInv, Trying

\* An answer keeps the number of its try.
LEMMA CountWrong ==
    ASSUME TypeOK, CountInv, NEW h \in Handlers, WrongOtp(h)
    PROVE  CountInv'
<1> DEFINE n == [ask |-> run[h].ask, secret |-> run[h].read, count |-> run[h].count]
<1>1. Trying(h) /\ again' = again \cup {n} /\ otp' = otp /\ otpCount' = otpCount
  BY DEF WrongOtp, Wrong, Ends, Trying, store
<1>2. \A i \in Handlers : Trying(i)' => Trying(i) /\ run'[i] = run[i] /\ i # h
  BY DEF WrongOtp, Ends, TypeOK, Trying, Idle
<1>3. ASSUME NEW i \in Handlers, Trying(i)'
      PROVE  /\ run'[i].count >= 1
             /\ otp' = run'[i].read => run'[i].count <= otpCount'
             /\ \A a \in again' : a.secret = run'[i].read => a.count # run'[i].count
             /\ \A j \in Handlers \ {i} :
                    Trying(j)' /\ run'[j].read = run'[i].read => run'[j].count # run'[i].count
  <2>1. Trying(i) /\ run'[i] = run[i] /\ i # h
    BY <1>2, <1>3
  <2>2. n.secret = run[i].read => n.count # run[i].count
    BY <1>1, <2>1 DEF CountInv
  <2>3. QED
    BY <1>1, <1>2, <2>1, <2>2 DEF CountInv
<1>4. \A a \in again' : otp' = a.secret => a.count <= otpCount'
  BY <1>1 DEF CountInv
<1>5. QED
  BY <1>3, <1>4 DEF CountInv, Trying

\* The number of an answered try is below the last one, and no other's.
LEMMA TriesWrong ==
    ASSUME TypeOK, CountInv, TriesAreCounted, NEW h \in Handlers, WrongOtp(h)
    PROVE  TriesAreCounted'
<1> DEFINE n == [ask |-> run[h].ask, secret |-> run[h].read, count |-> run[h].count]
<1>1. Trying(h) /\ again' = again \cup {n} /\ ~UsedUp(n.count, OtpTries)
  BY DEF WrongOtp, Wrong, Ends, Trying
<1>2. n.count \in 1 .. OtpTries - 1
  <2>1. n.count >= 1
    BY <1>1 DEF CountInv
  <2>2. n.count \in Nat /\ OtpTries \in Nat
    BY TriesAssumption DEF TypeOK, Locals
  <2>3. QED
    BY <1>1, <2>1, <2>2 DEF UsedUp
<1>3. \A a \in again : a.secret = n.secret => a.count # n.count
  BY <1>1 DEF CountInv
<1>4. QED
  BY <1>1, <1>2, <1>3 DEF TriesAreCounted

\* Only a wrong try is answered that way.
LEMMA TriesStep ==
    ASSUME TypeOK, CountInv, TriesAreCounted, NEW h \in Handlers,
           Step(h) \/ ExpireOtp \/ ExpireToken
    PROVE  TriesAreCounted'
<1>1. WrongOtp(h) \/ again' = again
  <2>1. CASE ExpireOtp \/ ExpireToken
    BY <2>1 DEF ExpireOtp, ExpireToken
  <2>2. CASE Asks(h) \/ Die(h)
    BY <2>2 DEF Asks, Ask, Die
  <2>3. CASE DeleteOtp(h) \/ SetOtp(h) \/ Mailed(h) \/ NotMailed(h) \/ UnsetOtp(h)
    BY <2>3 DEF DeleteOtp, SetOtp, Mailed, NotMailed, UnsetOtp
  <2>4. CASE ReadOtp(h) \/ NoOtp(h) \/ RightOtp(h) \/ LastOtp(h)
    BY <2>4 DEF ReadOtp, NoOtp, RightOtp, LastOtp
  <2>5. CASE \/ FindToken(h) \/ MissToken(h) \/ SetToken(h)
             \/ ReadToken(h) \/ NoToken(h) \/ RightToken(h) \/ WrongToken(h)
             \/ RefreshToken(h) \/ ResetCount(h)
    BY <2>5 DEF FindToken, MissToken, SetToken, ReadToken, NoToken, RightToken, WrongToken,
                RefreshToken, ResetCount
  <2>6. QED
    BY <2>1, <2>2, <2>3, <2>4, <2>5 DEF Step
<1>2. QED
  BY <1>1, TriesWrong DEF TriesAreCounted
-----------------------------------------------------------------------------
(* Calm                                                                    *)

\* As long as it is calm, the handler that does something is alone.
LEMMA CalmAlone ==
    ASSUME CalmInv, calm, NEW h \in Handlers, run[h].at # "idle"
    PROVE  Alone(h) /\ Fits(run[h]) /\ PromiseIsKept
BY DEF CalmInv, PromiseIsKept

\* If it leaves what it may count on where it goes, it keeps the invariant.
LEMMA CalmKept ==
    ASSUME NEW h \in Handlers, Alone(h), NEW q, run'[h] = q,
           \A i \in Handlers \ {h} : run'[i] = run[i],
           Fits(q)', PromiseIsKept', calm'
    PROVE  CalmInv'
<1>1. \A i \in Handlers \ {h} : run'[i].at = "idle"
  BY DEF Alone
<1>2. ASSUME NEW i \in Handlers, run'[i].at # "idle" PROVE Alone(i)'
  BY <1>1, <1>2 DEF Alone
<1>3. ASSUME NEW i \in Handlers, Alone(i)' PROVE Fits(run[i])'
  <2>1. CASE i = h
    BY <2>1 DEF Fits
  <2>2. CASE i # h
    <3>1. run'[i].at = "idle" /\ q.at = "idle"
      BY <1>1, <1>3, <2>2 DEF Alone
    <3>2. QED
      BY <3>1 DEF Fits
  <2>3. QED
    BY <2>1, <2>2
<1>4. QED
  BY <1>2, <1>3 DEF CalmInv, PromiseIsKept

\* Where a handler comes from, and what it has then.
LEMMA Moved ==
    ASSUME TypeOK, NEW h \in Handlers, NEW here, NEW there \in Places
    PROVE  /\ Goes(h, here, there) =>
                /\ run[h].at = here /\ run'[h].at = there
                /\ run'[h].read = run[h].read /\ run'[h].count = run[h].count
                /\ \A i \in Handlers \ {h} : run'[i] = run[i]
           /\ Ends(h, here) =>
                /\ run[h].at = here /\ run'[h].at = "idle"
                /\ \A i \in Handlers \ {h} : run'[i] = run[i]
<1>1. PICK r \in Locals : r = run[h]
  BY DEF TypeOK
<1>2. Goes(h, here, there) => run' = [run EXCEPT ![h] = [r EXCEPT !.at = there]]
  BY <1>1 DEF Goes
<1>3. Goes(h, here, there) => run'[h] = [r EXCEPT !.at = there]
  BY <1>2 DEF TypeOK
<1>4. Goes(h, here, there) =>
        /\ run'[h].at = there /\ run'[h].read = r.read /\ run'[h].count = r.count
  BY <1>3 DEF Locals
<1>5. QED
  BY <1>1, <1>2, <1>4 DEF Goes, Ends, TypeOK, Idle

LEMMA ReadMoved ==
    ASSUME TypeOK, NEW h \in Handlers, NEW here, NEW there \in Places,
           NEW secret, NEW n, Reads(h, here, there, secret, n)
    PROVE  /\ run[h].at = here /\ run'[h].at = there
           /\ run'[h].read = secret /\ run'[h].count = n
           /\ \A i \in Handlers \ {h} : run'[i] = run[i]
<1>1. PICK r \in Locals : r = run[h]
  BY DEF TypeOK
<1>2. run'[h] = [[[r EXCEPT !.at = there] EXCEPT !.read = secret] EXCEPT !.count = n]
  BY <1>1 DEF Reads, TypeOK
<1>3. run'[h].at = there /\ run'[h].read = secret /\ run'[h].count = n
  BY <1>2 DEF Locals
<1>4. QED
  BY <1>3 DEF Reads, TypeOK

\* The steps that send a password keep the calm.
LEMMA CalmSend ==
    ASSUME TypeOK, CalmInv, calm', NEW h \in Handlers,
           \/ DeleteOtp(h) \/ SetOtp(h) \/ Mailed(h) \/ NotMailed(h) \/ UnsetOtp(h)
    PROVE  CalmInv'
<1> PICK q : q = run'[h]
  OBVIOUS
<1>0. /\ otpCount \in Nat /\ wrongOtps \in Nat /\ tokenCount \in Nat /\ wrongTokens \in Nat
      /\ run[h].count \in Nat /\ OtpTries \in Nat /\ SessionTries \in Nat
  BY TriesAssumption DEF TypeOK, Locals
<1>1. CASE DeleteOtp(h)
  <2>1. /\ run[h].at = "deleteOtp" /\ q.at = "setOtp" /\ q.read = run[h].read
        /\ q.count = run[h].count /\ \A i \in Handlers \ {h} : run'[i] = run[i]
    BY <1>1, Moved DEF DeleteOtp, Places
  <2>2. calm /\ Alone(h) /\ Fits(run[h]) /\ PromiseIsKept
    BY <1>1, <2>1, CalmAlone DEF DeleteOtp
  <2>3. Fits(q)' /\ PromiseIsKept'
    BY <1>1, <1>0, <2>1, <2>2 DEF DeleteOtp, DropOtp, Fits, PromiseIsKept, store, owed
  <2>4. QED
    BY <2>1, <2>2, <2>3, CalmKept
<1>2. CASE SetOtp(h)
  <2>1. /\ run[h].at = "setOtp" /\ q.at = "mail" /\ q.read = made + 1 /\ q.count = 0
        /\ \A i \in Handlers \ {h} : run'[i] = run[i]
    <3>1. Reads(h, "setOtp", "mail", made + 1, 0)
      BY <1>2 DEF SetOtp
    <3>2. "mail" \in Places
      BY DEF Places
    <3>3. QED
      BY <3>1, <3>2, ReadMoved
  <2>2. calm /\ Alone(h) /\ Fits(run[h]) /\ PromiseIsKept
    BY <1>2, <2>1, CalmAlone DEF SetOtp
  <2>3. Fits(q)' /\ PromiseIsKept'
    BY <1>2, <1>0, <2>1, <2>2 DEF SetOtp, Fits, PromiseIsKept, store, owed
  <2>4. QED
    BY <2>1, <2>2, <2>3, CalmKept
<1>3. CASE Mailed(h)
  <2>1. /\ run[h].at = "mail" /\ q.at = "idle"
        /\ \A i \in Handlers \ {h} : run'[i] = run[i]
    BY <1>3, Moved DEF Mailed, Places
  <2>2. calm /\ Alone(h) /\ Fits(run[h]) /\ PromiseIsKept
    BY <1>3, <2>1, CalmAlone DEF Mailed
  <2>3. Fits(q)' /\ PromiseIsKept'
    BY <1>3, <1>0, <2>1, <2>2 DEF Mailed, Fits, PromiseIsKept, store, owed
  <2>4. QED
    BY <2>1, <2>2, <2>3, CalmKept
<1>4. CASE NotMailed(h)
  <2>1. /\ run[h].at = "mail" /\ q.at \in {"unsetOtp", "idle"}
        /\ \A i \in Handlers \ {h} : run'[i] = run[i]
    BY <1>4, Moved DEF NotMailed, Places
  <2>2. calm /\ Alone(h) /\ Fits(run[h]) /\ PromiseIsKept
    BY <1>4, <2>1, CalmAlone DEF NotMailed
  <2>3. Fits(q)' /\ PromiseIsKept'
    BY <1>4, <1>0, <2>1, <2>2 DEF NotMailed, Fits, PromiseIsKept, store, owed
  <2>4. QED
    BY <2>1, <2>2, <2>3, CalmKept
<1>5. CASE UnsetOtp(h)
  <2>1. /\ run[h].at = "unsetOtp" /\ q.at = "idle"
        /\ \A i \in Handlers \ {h} : run'[i] = run[i]
    BY <1>5, Moved DEF UnsetOtp, Places
  <2>2. calm /\ Alone(h) /\ Fits(run[h]) /\ PromiseIsKept
    BY <1>5, <2>1, CalmAlone DEF UnsetOtp
  <2>3. Fits(q)' /\ PromiseIsKept'
    BY <1>5, <1>0, <2>1, <2>2 DEF UnsetOtp, DropOtp, Fits, PromiseIsKept, store, owed
  <2>4. QED
    BY <2>1, <2>2, <2>3, CalmKept
<1>6. QED
  BY <1>1, <1>2, <1>3, <1>4, <1>5

\* So do the steps that have a password validated.
LEMMA CalmValidate ==
    ASSUME TypeOK, CalmInv, calm', NEW h \in Handlers,
           \/ ReadOtp(h) \/ NoOtp(h) \/ RightOtp(h) \/ LastOtp(h) \/ WrongOtp(h)
    PROVE  CalmInv'
<1> PICK q : q = run'[h]
  OBVIOUS
<1>0. /\ otpCount \in Nat /\ wrongOtps \in Nat /\ tokenCount \in Nat /\ wrongTokens \in Nat
      /\ run[h].count \in Nat /\ OtpTries \in Nat /\ SessionTries \in Nat
  BY TriesAssumption DEF TypeOK, Locals
<1>1. CASE ReadOtp(h)
  <2>1. /\ run[h].at = "readOtp" /\ q.at = "answerOtp" /\ q.read = otp /\ q.count = otpCount + 1
        /\ \A i \in Handlers \ {h} : run'[i] = run[i]
    <3>1. Reads(h, "readOtp", "answerOtp", otp, otpCount + 1)
      BY <1>1 DEF ReadOtp
    <3>2. "answerOtp" \in Places
      BY DEF Places
    <3>3. QED
      BY <3>1, <3>2, ReadMoved
  <2>2. calm /\ Alone(h) /\ Fits(run[h]) /\ PromiseIsKept
    BY <1>1, <2>1, CalmAlone DEF ReadOtp
  <2>3. Fits(q)' /\ PromiseIsKept'
    BY <1>1, <1>0, <2>1, <2>2 DEF ReadOtp, Fits, PromiseIsKept, store, owed
  <2>4. QED
    BY <2>1, <2>2, <2>3, CalmKept
<1>2. CASE NoOtp(h)
  <2>1. /\ run[h].at = "answerOtp" /\ q.at = "idle"
        /\ \A i \in Handlers \ {h} : run'[i] = run[i]
    BY <1>2, Moved DEF NoOtp, Places
  <2>2. calm /\ Alone(h) /\ Fits(run[h]) /\ PromiseIsKept
    BY <1>2, <2>1, CalmAlone DEF NoOtp
  <2>3. Fits(q)' /\ PromiseIsKept'
    BY <1>2, <1>0, <2>1, <2>2 DEF NoOtp, DropOtp, Fits, PromiseIsKept, store, owed
  <2>4. QED
    BY <2>1, <2>2, <2>3, CalmKept
<1>3. CASE RightOtp(h)
  <2>1. /\ run[h].at = "answerOtp" /\ q.at = "getToken" /\ q.read = run[h].read
        /\ q.count = run[h].count /\ \A i \in Handlers \ {h} : run'[i] = run[i]
    BY <1>3, Moved DEF RightOtp, Places
  <2>2. calm /\ Alone(h) /\ Fits(run[h]) /\ PromiseIsKept
    BY <1>3, <2>1, CalmAlone DEF RightOtp
  <2>3. Fits(q)' /\ PromiseIsKept'
    BY <1>3, <1>0, <2>1, <2>2 DEF RightOtp, DropOtp, Fits, PromiseIsKept, store, owed
  <2>4. QED
    BY <2>1, <2>2, <2>3, CalmKept
<1>4. CASE LastOtp(h)
  <2>1. /\ run[h].at = "answerOtp" /\ q.at = "idle"
        /\ \A i \in Handlers \ {h} : run'[i] = run[i]
    BY <1>4, Moved DEF LastOtp, Places
  <2>2. calm /\ Alone(h) /\ Fits(run[h]) /\ PromiseIsKept
    BY <1>4, <2>1, CalmAlone DEF LastOtp
  <2>3. Fits(q)' /\ PromiseIsKept'
    BY <1>4, <1>0, <2>1, <2>2 DEF LastOtp, DropOtp, Wrong, UsedUp, Fits, PromiseIsKept, store, owed
  <2>4. QED
    BY <2>1, <2>2, <2>3, CalmKept
<1>5. CASE WrongOtp(h)
  <2>1. /\ run[h].at = "answerOtp" /\ q.at = "idle"
        /\ \A i \in Handlers \ {h} : run'[i] = run[i]
    BY <1>5, Moved DEF WrongOtp, Places
  <2>2. calm /\ Alone(h) /\ Fits(run[h]) /\ PromiseIsKept
    BY <1>5, <2>1, CalmAlone DEF WrongOtp
  <2>3. Fits(q)' /\ PromiseIsKept'
    BY <1>5, <1>0, <2>1, <2>2 DEF WrongOtp, Fits, PromiseIsKept, store, owed
  <2>4. QED
    BY <2>1, <2>2, <2>3, CalmKept
<1>6. QED
  BY <1>1, <1>2, <1>3, <1>4, <1>5

\* So do the steps of the sessions.
LEMMA CalmSession ==
    ASSUME TypeOK, CalmInv, calm', NEW h \in Handlers,
           \/ FindToken(h) \/ MissToken(h) \/ SetToken(h) \/ ReadToken(h) \/ NoToken(h)
           \/ RightToken(h) \/ WrongToken(h) \/ RefreshToken(h) \/ ResetCount(h)
    PROVE  CalmInv'
<1> PICK q : q = run'[h]
  OBVIOUS
<1>0. /\ otpCount \in Nat /\ wrongOtps \in Nat /\ tokenCount \in Nat /\ wrongTokens \in Nat
      /\ run[h].count \in Nat /\ OtpTries \in Nat /\ SessionTries \in Nat
  BY TriesAssumption DEF TypeOK, Locals
<1>1. CASE FindToken(h)
  <2>1. /\ run[h].at = "getToken" /\ q.at = "idle"
        /\ \A i \in Handlers \ {h} : run'[i] = run[i]
    BY <1>1, Moved DEF FindToken, Places
  <2>2. calm /\ Alone(h) /\ Fits(run[h]) /\ PromiseIsKept
    BY <1>1, <2>1, CalmAlone DEF FindToken
  <2>3. Fits(q)' /\ PromiseIsKept'
    BY <1>1, <1>0, <2>1, <2>2 DEF FindToken, Fits, PromiseIsKept, store, owed
  <2>4. QED
    BY <2>1, <2>2, <2>3, CalmKept
<1>2. CASE MissToken(h)
  <2>1. /\ run[h].at = "getToken" /\ q.at = "setToken" /\ q.read = run[h].read
        /\ q.count = run[h].count /\ \A i \in Handlers \ {h} : run'[i] = run[i]
    BY <1>2, Moved DEF MissToken, Places
  <2>2. calm /\ Alone(h) /\ Fits(run[h]) /\ PromiseIsKept
    BY <1>2, <2>1, CalmAlone DEF MissToken
  <2>3. Fits(q)' /\ PromiseIsKept'
    BY <1>2, <1>0, <2>1, <2>2 DEF MissToken, Fits, PromiseIsKept, store, owed
  <2>4. QED
    BY <2>1, <2>2, <2>3, CalmKept
<1>3. CASE SetToken(h)
  <2>1. /\ run[h].at = "setToken" /\ q.at = "idle"
        /\ \A i \in Handlers \ {h} : run'[i] = run[i]
    BY <1>3, Moved DEF SetToken, Places
  <2>2. calm /\ Alone(h) /\ Fits(run[h]) /\ PromiseIsKept
    BY <1>3, <2>1, CalmAlone DEF SetToken
  <2>3. Fits(q)' /\ PromiseIsKept'
    BY <1>3, <1>0, <2>1, <2>2 DEF SetToken, Fits, PromiseIsKept, store, owed
  <2>4. QED
    BY <2>1, <2>2, <2>3, CalmKept
<1>4. CASE ReadToken(h)
  <2>1. /\ run[h].at = "readToken" /\ q.at = "answerToken" /\ q.read = token /\ q.count = tokenCount + 1
        /\ \A i \in Handlers \ {h} : run'[i] = run[i]
    <3>1. Reads(h, "readToken", "answerToken", token, tokenCount + 1)
      BY <1>4 DEF ReadToken
    <3>2. "answerToken" \in Places
      BY DEF Places
    <3>3. QED
      BY <3>1, <3>2, ReadMoved
  <2>2. calm /\ Alone(h) /\ Fits(run[h]) /\ PromiseIsKept
    BY <1>4, <2>1, CalmAlone DEF ReadToken
  <2>3. Fits(q)' /\ PromiseIsKept'
    BY <1>4, <1>0, <2>1, <2>2 DEF ReadToken, Fits, PromiseIsKept, store, owed
  <2>4. QED
    BY <2>1, <2>2, <2>3, CalmKept
<1>5. CASE NoToken(h)
  <2>1. /\ run[h].at = "answerToken" /\ q.at = "idle"
        /\ \A i \in Handlers \ {h} : run'[i] = run[i]
    BY <1>5, Moved DEF NoToken, Places
  <2>2. calm /\ Alone(h) /\ Fits(run[h]) /\ PromiseIsKept
    BY <1>5, <2>1, CalmAlone DEF NoToken
  <2>3. Fits(q)' /\ PromiseIsKept'
    BY <1>5, <1>0, <2>1, <2>2 DEF NoToken, DropToken, Fits, PromiseIsKept, store, owed
  <2>4. QED
    BY <2>1, <2>2, <2>3, CalmKept
<1>6. CASE RightToken(h)
  <2>1. /\ run[h].at = "answerToken" /\ q.at \in {"refreshToken", "idle"}
        /\ \A i \in Handlers \ {h} : run'[i] = run[i]
    BY <1>6, Moved DEF RightToken, Places
  <2>2. calm /\ Alone(h) /\ Fits(run[h]) /\ PromiseIsKept
    BY <1>6, <2>1, CalmAlone DEF RightToken
  <2>3. Fits(q)' /\ PromiseIsKept'
    BY <1>6, <1>0, <2>1, <2>2 DEF RightToken, Fits, PromiseIsKept, store, owed
  <2>4. QED
    BY <2>1, <2>2, <2>3, CalmKept
<1>7. CASE WrongToken(h)
  <2>1. /\ run[h].at = "answerToken" /\ q.at = "idle"
        /\ \A i \in Handlers \ {h} : run'[i] = run[i]
    BY <1>7, Moved DEF WrongToken, Places
  <2>2. calm /\ Alone(h) /\ Fits(run[h]) /\ PromiseIsKept
    BY <1>7, <2>1, CalmAlone DEF WrongToken
  <2>3. Fits(q)' /\ PromiseIsKept'
    BY <1>7, <1>0, <2>1, <2>2 DEF WrongToken, DropToken, Wrong, UsedUp, Fits, PromiseIsKept, store, owed
  <2>4. QED
    BY <2>1, <2>2, <2>3, CalmKept
<1>8. CASE RefreshToken(h)
  <2>1. /\ run[h].at = "refreshToken" /\ q.at = "resetCount" /\ q.read = made + 1 /\ q.count = 0
        /\ \A i \in Handlers \ {h} : run'[i] = run[i]
    <3>1. Reads(h, "refreshToken", "resetCount", made + 1, 0)
      BY <1>8 DEF RefreshToken
    <3>2. "resetCount" \in Places
      BY DEF Places
    <3>3. QED
      BY <3>1, <3>2, ReadMoved
  <2>2. calm /\ Alone(h) /\ Fits(run[h]) /\ PromiseIsKept
    BY <1>8, <2>1, CalmAlone DEF RefreshToken
  <2>3. Fits(q)' /\ PromiseIsKept'
    BY <1>8, <1>0, <2>1, <2>2 DEF RefreshToken, Fits, PromiseIsKept, store, owed
  <2>4. QED
    BY <2>1, <2>2, <2>3, CalmKept
<1>9. CASE ResetCount(h)
  <2>1. /\ run[h].at = "resetCount" /\ q.at = "idle"
        /\ \A i \in Handlers \ {h} : run'[i] = run[i]
    BY <1>9, Moved DEF ResetCount, Places
  <2>2. calm /\ Alone(h) /\ Fits(run[h]) /\ PromiseIsKept
    BY <1>9, <2>1, CalmAlone DEF ResetCount
  <2>3. Fits(q)' /\ PromiseIsKept'
    BY <1>9, <1>0, <2>1, <2>2 DEF ResetCount, Fits, PromiseIsKept, store, owed
  <2>4. QED
    BY <2>1, <2>2, <2>3, CalmKept
<1>10. QED
  BY <1>1, <1>2, <1>3, <1>4, <1>5, <1>6, <1>7, <1>8, <1>9
\* A request is calm if nobody else does anything.
LEMMA CalmAsk ==
    ASSUME TypeOK, CalmInv, NEW h \in Handlers, NEW o \in Ops, NEW g \in Secrets, Ask(h, o, g)
    PROVE  CalmInv'
<1> SUFFICES ASSUME calm' PROVE CalmInv'
  BY DEF CalmInv
<1>1. calm /\ run[h].at = "idle" /\ \A i \in Handlers : run[i].at = "idle"
  BY DEF Ask
<1>2. Alone(h) /\ Fits(run[h]) /\ PromiseIsKept
  BY <1>1 DEF Alone, CalmInv, PromiseIsKept
<1>3. PICK q : q = run'[h]
  OBVIOUS
<1>4. q.at \in {"deleteOtp", "readOtp", "getToken", "readToken"}
  BY <1>3 DEF Ask, TypeOK, First, Ops
<1>5. \A i \in Handlers \ {h} : run'[i] = run[i]
  BY DEF Ask, TypeOK
<1>6. Fits(q)' /\ PromiseIsKept'
  BY <1>1, <1>2, <1>4 DEF Ask, Fits, PromiseIsKept, store, owed
<1>7. QED
  BY <1>2, <1>3, <1>5, <1>6, CalmKept

\* A death is not calm, and who is owed what expires is owed nothing.
LEMMA CalmElse ==
    ASSUME TypeOK, CalmInv, NEW h \in Handlers, Die(h) \/ ExpireOtp \/ ExpireToken
    PROVE  CalmInv'
<1> SUFFICES ASSUME calm', ExpireOtp \/ ExpireToken PROVE CalmInv'
  BY DEF Die, CalmInv
<1>1. run' = run /\ calm
  BY DEF ExpireOtp, ExpireToken
<1>2. PromiseIsKept'
  BY <1>1 DEF ExpireOtp, ExpireToken, CalmInv, PromiseIsKept
<1>3. ASSUME NEW r, Fits(r) PROVE Fits(r)'
  BY <1>3 DEF ExpireOtp, ExpireToken, Fits
<1>4. ASSUME NEW i \in Handlers, Alone(i)' PROVE Fits(run[i])'
  <2>1. Alone(i) /\ Fits(run[i])
    BY <1>1, <1>4 DEF Alone, CalmInv
  <2>2. PICK r : r = run[i]
    OBVIOUS
  <2>3. Fits(r)'
    BY <1>3, <2>1, <2>2
  <2>4. QED
    BY <1>1, <2>2, <2>3
<1>5. \A i \in Handlers : run'[i].at # "idle" => Alone(i)'
  BY <1>1 DEF Alone, CalmInv
<1>6. QED
  BY <1>2, <1>4, <1>5 DEF CalmInv, PromiseIsKept
-----------------------------------------------------------------------------
(* Together                                                                *)

\* A handler that goes on has been asked to, one that ends is idle.
LEMMA AskKept ==
    ASSUME TypeOK, AskedFirst, NEW h \in Handlers,
           NEW here \in Places \ {"idle"}, NEW there \in Places,
           \/ Goes(h, here, there)
           \/ Ends(h, here)
           \/ \E secret, n : Reads(h, here, there, secret, n)
    PROVE  AskedFirst'
<1>1. PICK r \in Locals : r = run[h]
  BY DEF TypeOK
<1>2. CASE Goes(h, here, there)
  <2>1. run'[h].ask = r.ask
    BY <1>1, <1>2 DEF Goes, TypeOK, Locals
  <2>2. QED
    BY <1>1, <1>2, <2>1 DEF Goes, AskedFirst, TypeOK
<1>3. CASE Ends(h, here)
  BY <1>3 DEF Ends, Idle, AskedFirst, TypeOK
<1>4. CASE \E secret, n : Reads(h, here, there, secret, n)
  <2>1. PICK secret, n : Reads(h, here, there, secret, n)
    BY <1>4
  <2>2. run'[h] = [[[r EXCEPT !.at = there] EXCEPT !.read = secret] EXCEPT !.count = n]
    BY <1>1, <2>1 DEF Reads, TypeOK
  <2>3. run'[h].ask = r.ask
    BY <2>2 DEF Locals
  <2>4. QED
    BY <1>1, <2>1, <2>3 DEF Reads, AskedFirst, TypeOK
<1>5. QED
  BY <1>2, <1>3, <1>4

\* Nobody works who has not been asked to.
LEMMA AskedStep ==
    ASSUME TypeOK, AskedFirst, NEW h \in Handlers, Step(h) \/ ExpireOtp \/ ExpireToken
    PROVE  AskedFirst'
<1>1. CASE ExpireOtp \/ ExpireToken
  BY <1>1 DEF ExpireOtp, ExpireToken, AskedFirst
<1>2. CASE Asks(h)
  <2>1. PICK o, g : o \in Ops /\ Ask(h, o, g)
    BY <1>2 DEF Asks, Ops, First
  <2>2. QED
    BY <2>1 DEF Ask, AskedFirst, TypeOK
<1>3. CASE DeleteOtp(h) \/ SetOtp(h) \/ Mailed(h) \/ NotMailed(h) \/ UnsetOtp(h)
  BY <1>3, AskKept DEF DeleteOtp, SetOtp, Mailed, NotMailed, UnsetOtp, Places
<1>4. CASE ReadOtp(h) \/ NoOtp(h) \/ RightOtp(h) \/ LastOtp(h) \/ WrongOtp(h)
  BY <1>4, AskKept DEF ReadOtp, NoOtp, RightOtp, LastOtp, WrongOtp, Places
<1>5. CASE FindToken(h) \/ MissToken(h) \/ SetToken(h) \/ ReadToken(h) \/ NoToken(h)
  BY <1>5, AskKept DEF FindToken, MissToken, SetToken, ReadToken, NoToken, Places
<1>6. CASE RightToken(h) \/ WrongToken(h) \/ RefreshToken(h) \/ ResetCount(h)
  BY <1>6, AskKept DEF RightToken, WrongToken, RefreshToken, ResetCount, Places
<1>7. CASE Die(h)
  <2>1. Ends(h, run[h].at) /\ run[h].at \in Places \ {"idle"}
    BY <1>7 DEF Die, Ends, TypeOK, Locals
  <2>2. QED
    BY <2>1, AskKept
<1>8. QED
  BY <1>1, <1>2, <1>3, <1>4, <1>5, <1>6, <1>7 DEF Step

\* The invariant holds at the start.
LEMMA InvariantInit == Init => IInv
<1> SUFFICES ASSUME Init PROVE IInv
  OBVIOUS
<1>1. TypeOK
  BY TypeInit
<1>2. AskedFirst /\ CountInv
  BY DEF Init, Idle, AskedFirst, CountInv, Trying
<1>3. CalmInv
  BY DEF Init, Idle, CalmInv, Fits, Alone
<1>4. TriesAreCounted
  BY DEF Init, TriesAreCounted
<1>5. QED
  BY <1>1, <1>2, <1>3, <1>4 DEF IInv

\* Every step keeps it.
LEMMA InvariantStep == IInv /\ [Next]_vars => IInv'
<1> SUFFICES ASSUME IInv, [Next]_vars PROVE IInv'
  OBVIOUS
<1> USE DEF IInv
<1>1. CASE UNCHANGED vars
  BY <1>1 DEF vars, store, owed, TypeOK, Locals, Secrets, AskedFirst, CountInv, Trying,
              TriesAreCounted, CalmInv, Fits, Alone
<1>2. ASSUME NEW h \in Handlers, Asks(h)
      PROVE  TypeOK' /\ CountInv' /\ CalmInv'
  <2>1. PICK o \in Ops, g \in Secrets : Ask(h, o, g)
    BY <1>2, NoSecret DEF Asks, Ops, First, TypeOK
  <2>2. QED
    BY <2>1, TypeAsk, CountAsk, CalmAsk
<1>3. ASSUME NEW h \in Handlers,
             DeleteOtp(h) \/ SetOtp(h) \/ Mailed(h) \/ NotMailed(h) \/ UnsetOtp(h)
      PROVE  TypeOK' /\ CountInv' /\ CalmInv'
  <2>1. calm' => CalmInv'
    BY <1>3, CalmSend
  <2>2. QED
    BY <1>3, <2>1, TypeSend, CountSend DEF CalmInv
<1>4. ASSUME NEW h \in Handlers,
             ReadOtp(h) \/ NoOtp(h) \/ RightOtp(h) \/ LastOtp(h) \/ WrongOtp(h)
      PROVE  TypeOK' /\ CountInv' /\ CalmInv'
  <2>1. calm' => CalmInv'
    BY <1>4, CalmValidate
  <2>2. QED
    BY <1>4, <2>1, TypeValidate, CountRead, CountEnd, CountWrong DEF CalmInv
<1>5. ASSUME NEW h \in Handlers,
             \/ FindToken(h) \/ MissToken(h) \/ SetToken(h)
             \/ ReadToken(h) \/ NoToken(h) \/ RightToken(h) \/ WrongToken(h)
             \/ RefreshToken(h) \/ ResetCount(h)
      PROVE  TypeOK' /\ CountInv' /\ CalmInv'
  <2>1. calm' => CalmInv'
    BY <1>5, CalmSession
  <2>2. QED
    BY <1>5, <2>1, TypeSession, CountSession DEF CalmInv
<1>6. ASSUME NEW h \in Handlers, Die(h)
      PROVE  TypeOK' /\ CountInv' /\ CalmInv'
  BY <1>6, TypeElse, CountElse, CalmElse
<1>7. CASE ExpireOtp \/ ExpireToken
  <2>1. PICK h \in Handlers : TRUE
    BY HandlersAssumption
  <2>2. QED
    BY <1>7, <2>1, TypeElse, CountElse, CalmElse, AskedStep, TriesStep
<1>8. QED
  BY <1>1, <1>2, <1>3, <1>4, <1>5, <1>6, <1>7, AskedStep, TriesStep DEF Next, Step
(* However many requests overlap, die or find their keys expired, the keys, *)
(* the counters and the handlers' locals have the types the code relies on. *)
THEOREM TypeCorrect == Spec => []TypeOK
<1>1. IInv => TypeOK
  BY DEF IInv
<1>2. QED
  BY <1>1, InvariantInit, InvariantStep, PTL DEF Spec

(* validate_otp answers at most MAX_RETRIES - 1 times that a password may be *)
(* tried again, each time under another number: INCR and MGET in one MULTI   *)
(* are enough, whatever the other handlers do between it and the answer.     *)
THEOREM TriesCounted == Spec => []TriesAreCounted
<1>1. IInv => TriesAreCounted
  BY DEF IInv
<1>2. QED
  BY <1>1, InvariantInit, InvariantStep, PTL DEF Spec

(* What a customer who does one thing at a time has been sent stays good: no *)
(* counter is ahead of his wrong tries.                                      *)
THEOREM PromiseKept == Spec => []PromiseIsKept
<1>1. IInv => PromiseIsKept
  BY DEF IInv, CalmInv, PromiseIsKept
<1>2. QED
  BY <1>1, InvariantInit, InvariantStep, PTL DEF Spec
=============================================================================
