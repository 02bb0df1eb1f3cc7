--------------------------- MODULE OtpLogin_proofs ---------------------------
(***************************************************************************)
(* Proofs about OtpLogin, for any number of shops, destinations, codes,    *)
(* persons and sessions, any lag of the clocks and any limits.             *)
(***************************************************************************)
EXTENDS OtpLogin, TLAPS

-----------------------------------------------------------------------------
(* The inductive invariant                                                 *)

\* A challenge: what was sent is sent somewhere, wrong codes are counted below
\* the limit while it is open, and a code is only consumed within its time.
ChallengeOK(c) ==
    LET h == challenge[c] IN
    /\ h \in Challenge
    /\ IF h.status = "ABSENT" THEN h.session = None /\ h.attempts = 0
                              ELSE h.shop \in Shops /\ h.to \in Destinations
    /\ guesses[c] = h.attempts
    /\ h.status = "PENDING" => h.attempts < MaxAttempts
    /\ h.status = "CONSUMED" => h.consumed < h.created + TTL

\* A session belongs to somebody who exists, and the challenge that opened it
\* names it.
SessionOK(x) ==
    /\ session[x] \in Session
    /\ session[x].status # "ABSENT" => /\ session[x].subject \in Subjects
                                       /\ session[x].shop \in Shops
                                       /\ person[session[x].subject] # "ABSENT"
    /\ opener[x] # None => /\ session[x].status # "ABSENT"
                           /\ challenge[opener[x]].session = x

\* Nobody can be in two places as a guest: an upgrade ends the only session.
GuestsHaveOneSession ==
    \A x, y \in SessionIds :
        /\ Live(x) /\ Live(y) /\ session[x].subject = session[y].subject
        /\ person[session[x].subject] = "GUEST"
        => x = y

IInv ==
    /\ TypeOK
    /\ \A c \in Challenges : ChallengeOK(c)
    /\ \A x \in SessionIds : SessionOK(x)
    /\ GuestsHaveOneSession
    /\ OnlyTheNewestCodeCounts
    /\ CodesAreSpaced
    /\ CustomersHaveOneCredential
    /\ SessionsMatchTheSubject
    /\ CodeLogsInItsHolder

LEMMA Initially == Init => IInv
<1> SUFFICES ASSUME Init PROVE IInv
    OBVIOUS
<1>1. NoChallenge \in Challenge /\ NoSession \in Session
    BY BoundsAssumption DEF NoChallenge, Challenge, NoSession, Session
<1>2. TypeOK
    BY <1>1 DEF Init, TypeOK
<1>3. \A c \in Challenges : ChallengeOK(c)
    BY <1>1 DEF Init, ChallengeOK, NoChallenge
<1>4. \A x \in SessionIds : SessionOK(x) /\ ~Live(x) /\ opener[x] = None
    BY <1>1 DEF Init, SessionOK, NoSession, Live
<1>5. \A s \in Shops, d \in Destinations : To(s, d) = {}
    BY DEF Init, To, NoChallenge
<1>6. CustomersHaveOneCredential
  <2> SUFFICES ASSUME NEW p \in Subjects
               PROVE  {k \in Shops \X Destinations : credential[k] = p} = {}
    BY DEF Init, CustomersHaveOneCredential
  <2> QED
    BY NoneAssumption DEF Init
<1> QED
    BY <1>2, <1>3, <1>4, <1>5, <1>6
    DEF IInv, GuestsHaveOneSession, OnlyTheNewestCodeCounts, CodesAreSpaced,
        SessionsMatchTheSubject, CodeLogsInItsHolder

-----------------------------------------------------------------------------
(* Steps on challenges.  Customers and sessions see of a challenge only    *)
(* where it was sent and which session it opened.                          *)

Sent(c) == challenge[c].status # "ABSENT"

LEMMA CustomersUndisturbed ==
    ASSUME IInv, UNCHANGED customerVars,
           \A c \in Challenges : Sent(c) =>
                /\ challenge'[c].shop = challenge[c].shop
                /\ challenge'[c].to = challenge[c].to
                /\ challenge'[c].session = challenge[c].session
    PROVE  /\ \A x \in SessionIds : SessionOK(x)'
           /\ GuestsHaveOneSession'
           /\ CustomersHaveOneCredential'
           /\ SessionsMatchTheSubject'
           /\ CodeLogsInItsHolder'
<1>1. UNCHANGED <<person, credential, session, opener>>
    BY DEF customerVars
<1>2. \A x \in SessionIds : opener[x] # None => opener[x] \in Challenges /\ Sent(opener[x])
  <2> SUFFICES ASSUME NEW x \in SessionIds, opener[x] # None
               PROVE  opener[x] \in Challenges /\ Sent(opener[x])
    OBVIOUS
  <2>1. opener[x] \in Challenges /\ challenge[opener[x]].session = x
    BY DEF IInv, TypeOK, SessionOK
  <2> QED
    BY <2>1, NoneAssumption DEF IInv, ChallengeOK, Sent
<1>3. \A x \in SessionIds : SessionOK(x)'
    BY <1>1, <1>2 DEF IInv, SessionOK
<1>4. GuestsHaveOneSession' /\ CustomersHaveOneCredential' /\ SessionsMatchTheSubject'
    BY <1>1 DEF IInv, GuestsHaveOneSession, CustomersHaveOneCredential, SessionsMatchTheSubject, Live
<1>5. CodeLogsInItsHolder'
    BY <1>1, <1>2 DEF IInv, CodeLogsInItsHolder
<1> QED
    BY <1>3, <1>4, <1>5

\* Codes that are neither sent nor reopened stay spaced, and the newest last.
LEMMA NothingSent ==
    ASSUME IInv,
           \A c \in Challenges :
                /\ Sent(c)' <=> Sent(c)
                /\ challenge'[c].shop = challenge[c].shop
                /\ challenge'[c].to = challenge[c].to
                /\ challenge'[c].created = challenge[c].created
                /\ challenge'[c].status = "PENDING" => challenge[c].status = "PENDING"
    PROVE  OnlyTheNewestCodeCounts' /\ CodesAreSpaced'
<1>1. \A s \in Shops, d \in Destinations : To(s, d)' = To(s, d)
    BY DEF To, Sent
<1> QED
    BY <1>1 DEF IInv, OnlyTheNewestCodeCounts, CodesAreSpaced, To

\* An answer to a challenge touches its status, attempts and time of use.
LEMMA AnswerKeeps ==
    ASSUME IInv, NEW c \in Challenges, NEW at \in Clock,
           VerifyRight(c, at) \/ VerifyWrong(c, at) \/ VerifyLate(c, at)
    PROVE  IInv'
<1>1. /\ challenge \in [Challenges -> Challenge] /\ guesses \in [Challenges -> Nat]
      /\ challenge[c] \in Challenge /\ challenge[c].status = "PENDING"
      /\ challenge[c].attempts \in Nat /\ MaxAttempts \in Nat /\ at \in Nat
      /\ challenge[c].attempts < MaxAttempts
    BY BoundsAssumption
    DEF IInv, TypeOK, ChallengeOK, Challenge, Clock, VerifyRight, VerifyWrong, VerifyLate, Answerable
<1>2. UNCHANGED <<shop, customerVars, now>>
    BY DEF VerifyRight, VerifyWrong, VerifyLate
<1>3. /\ challenge' \in [Challenges -> Challenge] /\ guesses' \in [Challenges -> Nat]
      /\ \A b \in Challenges : b # c => challenge'[b] = challenge[b] /\ guesses'[b] = guesses[b]
      /\ challenge'[c].shop = challenge[c].shop /\ challenge'[c].to = challenge[c].to
      /\ challenge'[c].created = challenge[c].created
      /\ challenge'[c].session = challenge[c].session
      /\ challenge'[c].status \in {"PENDING", "CONSUMED", "EXPIRED"}
  <2>1. CASE VerifyRight(c, at)
    BY <1>1, <2>1 DEF VerifyRight, Challenge
  <2>2. CASE VerifyWrong(c, at)
    BY <1>1, <2>2 DEF VerifyWrong, AfterMiss, Challenge
  <2>3. CASE VerifyLate(c, at)
    BY <1>1, <2>3 DEF VerifyLate, Challenge
  <2> QED
    BY <2>1, <2>2, <2>3
<1>4. ChallengeOK(c)'
  <2>1. CASE VerifyRight(c, at)
    BY <1>1, <1>3, <2>1 DEF VerifyRight, Answerable, Fresh, IInv, ChallengeOK
  <2>2. CASE VerifyWrong(c, at)
    <3>1. /\ guesses'[c] = guesses[c] + 1 /\ challenge'[c].attempts = challenge[c].attempts + 1
          /\ challenge'[c].status = AfterMiss(c)
        BY <1>1, <2>2 DEF VerifyWrong, Challenge
    <3> QED
        BY <1>1, <1>3, <3>1 DEF AfterMiss, IInv, ChallengeOK
  <2>3. CASE VerifyLate(c, at)
    BY <1>1, <1>3, <2>3 DEF VerifyLate, IInv, ChallengeOK
  <2> QED
    BY <2>1, <2>2, <2>3
<1>5. \A b \in Challenges : ChallengeOK(b)'
    BY <1>3, <1>4 DEF IInv, ChallengeOK
<1>6. TypeOK'
    BY <1>2, <1>3 DEF IInv, TypeOK, customerVars
<1>7. OnlyTheNewestCodeCounts' /\ CodesAreSpaced'
    BY <1>1, <1>3, NothingSent DEF Sent
<1> QED
    BY <1>2, <1>3, <1>5, <1>6, <1>7, CustomersUndisturbed DEF IInv, Sent

\* A new code: those sent to the same place before are older and no longer open.
LEMMA RequestKeeps ==
    ASSUME IInv, NEW c \in Challenges, NEW s \in Shops, NEW d \in Destinations, NEW at \in Clock,
           Request(c, s, d, at)
    PROVE  IInv'
<1> DEFINE row == [NoChallenge EXCEPT !.status = "PENDING", !.shop = s, !.to = d, !.created = at]
<1>1. /\ challenge \in [Challenges -> Challenge] /\ ~Sent(c)
      /\ UNCHANGED <<shop, customerVars, now, guesses>>
      /\ at \in Nat /\ Cooldown \in Nat \ {0} /\ MaxAttempts \in Nat \ {0}
    BY BoundsAssumption DEF IInv, TypeOK, Request, Clock, Sent
<1>2. /\ row \in Challenge
      /\ row.status = "PENDING" /\ row.shop = s /\ row.to = d /\ row.created = at
      /\ row.attempts = 0 /\ row.consumed = 0 /\ row.session = None
  <2>1. /\ NoChallenge \in Challenge /\ NoChallenge.attempts = 0 /\ NoChallenge.consumed = 0
        /\ NoChallenge.session = None
    BY <1>1 DEF NoChallenge, Challenge
  <2> QED
    BY <1>1, <2>1 DEF Challenge
<1>3. challenge' = [b \in Challenges |->
           IF b = c THEN row
           ELSE IF b \in Superseded(s, d) THEN [challenge[b] EXCEPT !.status = "EXPIRED"]
           ELSE challenge[b]]
    BY DEF Request
<1> HIDE DEF row
<1>4. challenge'[c] = row
    BY <1>3
<1>5. \A b \in Challenges \ {c} :
        /\ challenge'[b] \in Challenge
        /\ challenge'[b].shop = challenge[b].shop /\ challenge'[b].to = challenge[b].to
        /\ challenge'[b].created = challenge[b].created
        /\ challenge'[b].attempts = challenge[b].attempts
        /\ challenge'[b].consumed = challenge[b].consumed
        /\ challenge'[b].session = challenge[b].session
        /\ challenge'[b].status = IF b \in Superseded(s, d) THEN "EXPIRED" ELSE challenge[b].status
    BY <1>1, <1>3 DEF Challenge
<1>6. challenge' \in [Challenges -> Challenge]
    BY <1>2, <1>3, <1>4, <1>5
<1>7. ChallengeOK(c)'
  <2>1. guesses'[c] = 0
    BY <1>1 DEF IInv, ChallengeOK, Sent
  <2> QED
    BY <1>1, <1>2, <1>4, <2>1 DEF ChallengeOK
<1>8. \A b \in Challenges \ {c} : ChallengeOK(b)'
    BY <1>1, <1>5 DEF IInv, ChallengeOK, Superseded, To
<1>9. TypeOK'
    BY <1>1, <1>6 DEF IInv, TypeOK, customerVars
<1>10. \A r \in Shops, e \in Destinations :
        To(r, e)' = IF r = s /\ e = d THEN To(r, e) \cup {c} ELSE To(r, e)
    BY <1>1, <1>2, <1>4, <1>5 DEF To, Sent, Superseded
<1>11. \A b \in To(s, d) : b \in Challenges \ {c} /\ challenge[b].created + Cooldown <= at
                           /\ challenge[b].created \in Nat
    BY <1>1 DEF Request, CooledDown, To, Sent, Challenge
<1>12. CodesAreSpaced'
  <2> SUFFICES ASSUME NEW r \in Shops, NEW e \in Destinations, NEW a \in To(r, e)', NEW b \in To(r, e)',
                      a # b
               PROVE  \/ challenge'[a].created + Cooldown <= challenge'[b].created
                      \/ challenge'[b].created + Cooldown <= challenge'[a].created
    BY DEF CodesAreSpaced
  <2>1. CASE a # c /\ b # c
    BY <1>5, <1>10, <2>1 DEF IInv, CodesAreSpaced, To
  <2>2. CASE a = c \/ b = c
    <3>1. r = s /\ e = d
        BY <1>1, <1>10, <2>2 DEF To, Sent
    <3> QED
        BY <1>2, <1>4, <1>5, <1>10, <1>11, <2>2, <3>1
  <2> QED
    BY <2>1, <2>2
<1>13. OnlyTheNewestCodeCounts'
  <2> SUFFICES ASSUME NEW r \in Shops, NEW e \in Destinations, NEW a \in To(r, e)', NEW b \in To(r, e)',
                      challenge'[a].status = "PENDING"
               PROVE  challenge'[b].created <= challenge'[a].created
    BY DEF OnlyTheNewestCodeCounts
  <2>1. CASE r = s /\ e = d
    <3>1. a = c
        BY <1>5, <1>10, <2>1 DEF Superseded, To
    <3> QED
        BY <1>1, <1>2, <1>4, <1>5, <1>10, <1>11, <2>1, <3>1
  <2>2. CASE ~(r = s /\ e = d)
    BY <1>1, <1>5, <1>10, <2>2 DEF IInv, OnlyTheNewestCodeCounts, To, Sent
  <2> QED
    BY <2>1, <2>2
<1>14. \A b \in Challenges : Sent(b) => /\ challenge'[b].shop = challenge[b].shop
                                        /\ challenge'[b].to = challenge[b].to
                                        /\ challenge'[b].session = challenge[b].session
    BY <1>1, <1>5
<1> QED
    BY <1>1, <1>7, <1>8, <1>9, <1>12, <1>13, <1>14, CustomersUndisturbed DEF IInv

-----------------------------------------------------------------------------
(* Steps on sessions                                                       *)

\* A redeemed code: the credential of its destination names p, who is a
\* customer from now on, and the guest session the browser came with is over.
LEMMA RedeemRows ==
    ASSUME IInv, NEW c \in Challenges, NEW x \in SessionIds, NEW p \in Subjects,
           NEW g \in GuestSessions \cup {None}, Redeem(c, x, p, g),
           NEW k, k = <<challenge[c].shop, challenge[c].to>>
    PROVE  /\ challenge[c].status = "CONSUMED" /\ challenge[c].session = None
           /\ challenge[c].shop \in Shops /\ challenge[c].to \in Destinations
           /\ k \in Shops \X Destinations
           /\ session[x].status = "ABSENT" /\ opener[x] = None /\ x # g
           /\ credential[k] \in {None, p} /\ credential' = [credential EXCEPT ![k] = p]
           /\ person' = [person EXCEPT ![p] = "CUSTOMER"]
           /\ \/ person[p] = "CUSTOMER" /\ credential[k] = p
              \/ person[p] = "ABSENT" /\ credential[k] = None
              \/ person[p] = "GUEST" /\ credential[k] = None /\ g # None /\ session[g].subject = p
<1>1. /\ challenge[c].status = "CONSUMED" /\ challenge[c].session = None
      /\ session[x].status = "ABSENT"
    BY DEF Redeem, Redeemable
<1>2. challenge[c].shop \in Shops /\ challenge[c].to \in Destinations
    BY <1>1 DEF IInv, ChallengeOK
<1>3. k \in Shops \X Destinations
    BY <1>2
<1>4. opener[x] = None
    BY <1>1 DEF IInv, SessionOK
<1>5. x # g
    BY <1>1, NoneAssumption DEF GuestSessions, Live
<1>6. credential \in [Shops \X Destinations -> Subjects \cup {None}]
      /\ person \in [Subjects -> {"ABSENT", "GUEST", "CUSTOMER"}]
    BY DEF IInv, TypeOK
<1>7. CASE Returning(c, p, g)
  <2>1. credential[k] = p /\ UNCHANGED <<person, credential>>
    BY <1>7 DEF Returning
  <2>2. person[p] = "CUSTOMER"
    BY <1>3, <2>1 DEF IInv, CustomersHaveOneCredential
  <2> QED
    BY <1>1, <1>2, <1>3, <1>4, <1>5, <1>6, <2>1, <2>2
<1>8. CASE Upgrade(c, p, g)
  <2>1. g # None /\ session[g].subject = p /\ credential[k] = None
        /\ person' = [person EXCEPT ![p] = "CUSTOMER"] /\ credential' = [credential EXCEPT ![k] = p]
    BY <1>8 DEF Upgrade
  <2>2. person[p] = "GUEST"
    BY <2>1 DEF GuestSessions
  <2> QED
    BY <1>1, <1>2, <1>3, <1>4, <1>5, <2>1, <2>2
<1>9. CASE Register(c, p, g)
  <2>1. credential[k] = None /\ person[p] = "ABSENT"
        /\ person' = [person EXCEPT ![p] = "CUSTOMER"] /\ credential' = [credential EXCEPT ![k] = p]
    BY <1>9 DEF Register
  <2> QED
    BY <1>1, <1>2, <1>3, <1>4, <1>5, <2>1
<1> QED
    BY <1>7, <1>8, <1>9 DEF Redeem

LEMMA RedeemKeeps ==
    ASSUME IInv, NEW c \in Challenges, NEW x \in SessionIds, NEW p \in Subjects,
           NEW g \in GuestSessions \cup {None}, Redeem(c, x, p, g)
    PROVE  IInv'
<1> DEFINE k == <<challenge[c].shop, challenge[c].to>>
           opened == [status |-> "ACTIVE", level |-> "OTP", subject |-> p, shop |-> challenge[c].shop]
<1>1. /\ challenge[c].status = "CONSUMED" /\ challenge[c].session = None
      /\ challenge[c].shop \in Shops /\ challenge[c].to \in Destinations
      /\ k \in Shops \X Destinations
      /\ session[x].status = "ABSENT" /\ opener[x] = None /\ x # g
      /\ credential[k] \in {None, p} /\ credential' = [credential EXCEPT ![k] = p]
      /\ person' = [person EXCEPT ![p] = "CUSTOMER"]
      /\ \/ person[p] = "CUSTOMER" /\ credential[k] = p
         \/ person[p] = "ABSENT" /\ credential[k] = None
         \/ person[p] = "GUEST" /\ credential[k] = None /\ g # None /\ session[g].subject = p
    BY RedeemRows
<1>2. /\ challenge' = [challenge EXCEPT ![c].session = x] /\ opener' = [opener EXCEPT ![x] = c]
      /\ UNCHANGED <<shop, now, guesses>>
      /\ session' = [y \in SessionIds |->
            IF y = x THEN opened
            ELSE IF y = g THEN [session[y] EXCEPT !.status = "REVOKED"]
            ELSE session[y]]
    BY DEF Redeem, Open
<1>3. TypeOK /\ None \notin Subjects /\ None \notin SessionIds /\ None \notin Challenges
    BY NoneAssumption DEF IInv
\* The rows that change, field by field.
<1>4. /\ challenge' \in [Challenges -> Challenge]
      /\ \A b \in Challenges : b # c => challenge'[b] = challenge[b]
      /\ challenge'[c].session = x /\ challenge'[c].status = "CONSUMED"
      /\ challenge'[c].shop = challenge[c].shop /\ challenge'[c].to = challenge[c].to
      /\ challenge'[c].attempts = challenge[c].attempts
      /\ challenge'[c].created = challenge[c].created
      /\ challenge'[c].consumed = challenge[c].consumed
    BY <1>1, <1>2, <1>3 DEF TypeOK, Challenge
<1>5. /\ session'[x] = opened
      /\ \A y \in SessionIds \ {x} :
            /\ session'[y] \in Session
            /\ session'[y].subject = session[y].subject /\ session'[y].shop = session[y].shop
            /\ session'[y].level = session[y].level
            /\ session'[y].status = IF y = g THEN "REVOKED" ELSE session[y].status
    BY <1>2, <1>3 DEF TypeOK, Session
<1>6. opened \in Session
    BY <1>1 DEF Session
<1>7. session' \in [SessionIds -> Session]
    BY <1>2, <1>5, <1>6
<1>8. /\ opened.status = "ACTIVE" /\ opened.level = "OTP" /\ opened.subject = p
      /\ opened.shop = challenge[c].shop
    OBVIOUS
<1>9. /\ person' \in [Subjects -> {"ABSENT", "GUEST", "CUSTOMER"}] /\ person'[p] = "CUSTOMER"
      /\ \A q \in Subjects : q # p => person'[q] = person[q]
      /\ credential' \in [Shops \X Destinations -> Subjects \cup {None}] /\ credential'[k] = p
      /\ \A j \in Shops \X Destinations : j # k => credential'[j] = credential[j]
      /\ opener' \in [SessionIds -> Challenges \cup {None}] /\ opener'[x] = c
      /\ \A y \in SessionIds : y # x => opener'[y] = opener[y]
    BY <1>1, <1>2, <1>3 DEF TypeOK
<1> HIDE DEF opened, k
<1>10. TypeOK'
    BY <1>2, <1>3, <1>4, <1>7, <1>9 DEF TypeOK
<1>11. \A b \in Challenges : ChallengeOK(b)'
    BY <1>1, <1>2, <1>3, <1>4 DEF IInv, ChallengeOK
<1>12. \A y \in SessionIds \ {x} : opener[y] # None => opener[y] \in Challenges \ {c}
    BY <1>1, <1>3 DEF IInv, SessionOK, TypeOK
<1>13. \A y \in SessionIds : SessionOK(y)'
  <2>1. SessionOK(x)'
    BY <1>1, <1>3, <1>4, <1>5, <1>6, <1>8, <1>9 DEF SessionOK
  <2>2. ASSUME NEW y \in SessionIds \ {x} PROVE SessionOK(y)'
    <3>1. SessionOK(y)
        BY DEF IInv
    <3>2. session'[y].status # "ABSENT" => session[y].status # "ABSENT"
        BY <1>3, <1>5 DEF GuestSessions, Live
    <3>3. session'[y].status # "ABSENT" => /\ session'[y].subject \in Subjects
                                           /\ session'[y].shop \in Shops
                                           /\ person'[session'[y].subject] # "ABSENT"
        BY <1>5, <1>9, <3>1, <3>2 DEF SessionOK
    <3>4. opener'[y] # None => /\ session'[y].status # "ABSENT"
                               /\ challenge'[opener'[y]].session = y
        BY <1>4, <1>5, <1>9, <1>12, <3>1 DEF SessionOK
    <3> QED
        BY <1>5, <3>3, <3>4 DEF SessionOK
  <2> QED
    BY <2>1, <2>2
<1>14. GuestsHaveOneSession'
    BY <1>5, <1>8, <1>9, <1>13 DEF IInv, GuestsHaveOneSession, Live, SessionOK
<1>15. OnlyTheNewestCodeCounts' /\ CodesAreSpaced'
    BY <1>1, <1>4, NothingSent DEF Sent
<1>16. CustomersHaveOneCredential'
  <2> SUFFICES ASSUME NEW q \in Subjects
               PROVE  LET held == {j \in Shops \X Destinations : credential'[j] = q}
                      IN IF person'[q] = "CUSTOMER" THEN \E j \in held : held = {j} ELSE held = {}
    BY DEF CustomersHaveOneCredential
  <2> DEFINE before == {j \in Shops \X Destinations : credential[j] = q}
             after == {j \in Shops \X Destinations : credential'[j] = q}
  <2>1. IF person[q] = "CUSTOMER" THEN \E j \in before : before = {j} ELSE before = {}
    BY DEF IInv, CustomersHaveOneCredential
  <2>2. CASE q = p
    <3>1. before \subseteq {k}
        BY <1>1, <2>1, <2>2
    <3>2. after = {k}
        BY <1>1, <1>9, <2>2, <3>1
    <3> QED
        BY <1>9, <2>2, <3>2
  <2>3. CASE q # p
    <3>1. after = before
        BY <1>1, <1>3, <1>9, <2>3
    <3> QED
        BY <1>9, <2>1, <2>3, <3>1
  <2> QED
    BY <2>2, <2>3
<1>17. \A j \in Shops \X Destinations : credential[j] # None => credential'[j] = credential[j]
    BY <1>1, <1>9
<1>18. SessionsMatchTheSubject'
  <2> SUFFICES ASSUME NEW y \in SessionIds, Live(y)'
               PROVE  IF session'[y].level = "GUEST" THEN person'[session'[y].subject] = "GUEST"
                      ELSE \E d \in Destinations :
                                credential'[<<session'[y].shop, d>>] = session'[y].subject
    BY DEF SessionsMatchTheSubject
  <2>1. CASE y = x
    BY <1>1, <1>5, <1>8, <1>9, <2>1 DEF k
  <2>2. CASE y # x
    <3>1. Live(y) /\ y # g /\ session[y].subject \in Subjects /\ session[y].shop \in Shops
        BY <1>5, <2>2 DEF Live, IInv, SessionOK
    <3>2. CASE session[y].level = "GUEST"
      <4>1. person[session[y].subject] = "GUEST"
        BY <3>1, <3>2 DEF IInv, SessionsMatchTheSubject
      <4>2. session[y].subject # p
        <5> SUFFICES ASSUME session[y].subject = p PROVE FALSE
            OBVIOUS
        <5>1. g # None /\ session[g].subject = p
            BY <1>1, <4>1
        <5>2. g \in SessionIds /\ Live(g)
            BY <5>1 DEF GuestSessions
        <5> QED
            BY <3>1, <4>1, <5>1, <5>2 DEF IInv, GuestsHaveOneSession
      <4> QED
        BY <1>5, <1>9, <2>2, <3>1, <3>2, <4>1, <4>2
    <3>3. CASE session[y].level # "GUEST"
      <4>1. PICK d \in Destinations : credential[<<session[y].shop, d>>] = session[y].subject
        BY <3>1, <3>3 DEF IInv, SessionsMatchTheSubject
      <4>2. credential'[<<session[y].shop, d>>] = session[y].subject
        BY <1>3, <1>17, <3>1, <4>1
      <4> QED
        BY <1>5, <2>2, <3>3, <4>2
    <3> QED
        BY <3>2, <3>3
  <2> QED
    BY <2>1, <2>2
<1>19. CodeLogsInItsHolder'
  <2> SUFFICES ASSUME NEW y \in SessionIds, opener'[y] # None
               PROVE  credential'[<<challenge'[opener'[y]].shop, challenge'[opener'[y]].to>>]
                        = session'[y].subject
    BY DEF CodeLogsInItsHolder
  <2>1. CASE y = x
    BY <1>4, <1>5, <1>8, <1>9, <2>1 DEF k
  <2>2. CASE y # x
    <3> DEFINE e == opener[y]
    <3>1. opener'[y] = e /\ e \in Challenges \ {c} /\ challenge'[e] = challenge[e]
        BY <1>4, <1>9, <1>12, <2>2
    <3>2. session[y].subject \in Subjects /\ challenge[e].session = y
        BY <1>9, <2>2 DEF IInv, SessionOK
    <3>3. challenge[e].shop \in Shops /\ challenge[e].to \in Destinations
        BY <1>3, <3>1, <3>2 DEF IInv, ChallengeOK
    <3>4. credential[<<challenge[e].shop, challenge[e].to>>] = session[y].subject
        BY <1>9, <2>2 DEF IInv, CodeLogsInItsHolder
    <3> QED
        BY <1>3, <1>5, <1>17, <2>2, <3>1, <3>2, <3>3, <3>4
  <2> QED
    BY <2>1, <2>2
<1> QED
    BY <1>10, <1>11, <1>13, <1>14, <1>15, <1>16, <1>18, <1>19 DEF IInv

\* A guest is somebody new.
LEMMA GuestKeeps ==
    ASSUME IInv, NEW s \in Shops, NEW p \in Subjects, NEW x \in SessionIds, Guest(s, p, x)
    PROVE  IInv'
<1> DEFINE opened == [status |-> "ACTIVE", level |-> "GUEST", subject |-> p, shop |-> s]
<1>1. /\ person[p] = "ABSENT" /\ session[x].status = "ABSENT"
      /\ person' = [person EXCEPT ![p] = "GUEST"] /\ session' = [session EXCEPT ![x] = opened]
      /\ UNCHANGED <<shop, challenge, credential, now, guesses, opener>>
    BY DEF Guest
<1>2. TypeOK /\ None \notin Subjects
    BY NoneAssumption DEF IInv
<1>3. opened \in Session /\ opened.status = "ACTIVE" /\ opened.level = "GUEST" /\ opened.subject = p
      /\ opened.shop = s
    BY DEF Session
<1> HIDE DEF opened
<1>4. /\ person' \in [Subjects -> {"ABSENT", "GUEST", "CUSTOMER"}] /\ person'[p] = "GUEST"
      /\ \A q \in Subjects : q # p => person'[q] = person[q]
      /\ session' \in [SessionIds -> Session] /\ session'[x] = opened
      /\ \A y \in SessionIds : y # x => session'[y] = session[y]
    BY <1>1, <1>2, <1>3 DEF TypeOK
<1>5. opener[x] = None
    BY <1>1 DEF IInv, SessionOK
<1>6. \A y \in SessionIds : Live(y) => session[y].subject \in Subjects /\ session[y].subject # p
    BY <1>1 DEF IInv, SessionOK, Live
<1>7. TypeOK'
    BY <1>1, <1>2, <1>4 DEF TypeOK
<1>8. \A c \in Challenges : ChallengeOK(c)'
    BY <1>1 DEF IInv, ChallengeOK
<1>9. \A y \in SessionIds : SessionOK(y)'
    BY <1>1, <1>3, <1>4, <1>5 DEF IInv, SessionOK
<1>10. \A y \in SessionIds \ {x} : Live(y)' <=> Live(y)
    BY <1>4 DEF Live
<1>11. GuestsHaveOneSession'
    BY <1>3, <1>4, <1>6, <1>10 DEF IInv, GuestsHaveOneSession
<1>12. OnlyTheNewestCodeCounts' /\ CodesAreSpaced'
    BY <1>1, NothingSent DEF Sent
<1>13. CustomersHaveOneCredential'
    BY <1>1, <1>4 DEF IInv, CustomersHaveOneCredential
<1>14. SessionsMatchTheSubject'
    BY <1>1, <1>3, <1>4, <1>6, <1>10 DEF IInv, SessionsMatchTheSubject
<1>15. CodeLogsInItsHolder'
    BY <1>1, <1>4, <1>5 DEF IInv, CodeLogsInItsHolder
<1> QED
    BY <1>7, <1>8, <1>9, <1>11, <1>12, <1>13, <1>14, <1>15 DEF IInv

\* A session that ends takes nothing with it.
LEMMA EndSessionKeeps ==
    ASSUME IInv, NEW x \in SessionIds, EndSession(x)
    PROVE  IInv'
<1>1. /\ session[x].status = "ACTIVE" /\ session' = [session EXCEPT ![x].status = "REVOKED"]
      /\ UNCHANGED <<shop, challenge, person, credential, now, guesses, opener>>
    BY DEF EndSession, Live
<1>2. TypeOK
    BY DEF IInv
<1>3. /\ session' \in [SessionIds -> Session]
      /\ \A y \in SessionIds : /\ session'[y].subject = session[y].subject
                               /\ session'[y].shop = session[y].shop
                               /\ session'[y].level = session[y].level
                               /\ session'[y] \in Session
                               /\ session'[y].status = IF y = x THEN "REVOKED" ELSE session[y].status
    BY <1>1, <1>2 DEF TypeOK, Session
<1>4. \A y \in SessionIds : Live(y)' => Live(y)
    BY <1>3 DEF Live
<1>5. TypeOK'
    BY <1>1, <1>2, <1>3 DEF TypeOK
<1>6. \A c \in Challenges : ChallengeOK(c)'
    BY <1>1 DEF IInv, ChallengeOK
<1>7. \A y \in SessionIds : SessionOK(y)'
    BY <1>1, <1>3 DEF IInv, SessionOK
<1>8. GuestsHaveOneSession'
    BY <1>1, <1>3, <1>4 DEF IInv, GuestsHaveOneSession
<1>9. OnlyTheNewestCodeCounts' /\ CodesAreSpaced'
    BY <1>1, NothingSent DEF Sent
<1>10. CustomersHaveOneCredential'
    BY <1>1 DEF IInv, CustomersHaveOneCredential
<1>11. SessionsMatchTheSubject'
  <2>1. ASSUME NEW y \in SessionIds, Live(y)'
        PROVE  IF session'[y].level = "GUEST" THEN person'[session'[y].subject] = "GUEST"
               ELSE \E d \in Destinations :
                        credential'[<<session'[y].shop, d>>] = session'[y].subject
    <3>1. IF session[y].level = "GUEST" THEN person[session[y].subject] = "GUEST"
          ELSE \E d \in Destinations : credential[<<session[y].shop, d>>] = session[y].subject
        BY <1>4, <2>1 DEF IInv, SessionsMatchTheSubject
    <3> QED
        BY <1>1, <1>3, <3>1
  <2> QED
    BY <2>1 DEF SessionsMatchTheSubject
<1>12. CodeLogsInItsHolder'
    BY <1>1, <1>3 DEF IInv, CodeLogsInItsHolder
<1> QED
    BY <1>5, <1>6, <1>7, <1>8, <1>9, <1>10, <1>11, <1>12 DEF IInv

\* The shops and the clock.
LEMMA RowsUntouched ==
    ASSUME IInv, UNCHANGED <<challenge, customerVars, guesses>>, TypeOK'
    PROVE  IInv'
<1>1. \A c \in Challenges : ChallengeOK(c)'
    BY DEF IInv, ChallengeOK
<1>2. OnlyTheNewestCodeCounts' /\ CodesAreSpaced'
    BY NothingSent DEF Sent
<1> QED
    BY <1>1, <1>2, CustomersUndisturbed DEF IInv

LEMMA Step == IInv /\ [Next]_vars => IInv'
<1> SUFFICES ASSUME IInv, [Next]_vars PROVE IInv'
    OBVIOUS
<1>1. TypeOK
    BY DEF IInv
<1>2. ASSUME NEW s \in Shops, NEW target \in {"ACTIVE", "DISABLED"}, SetShopEnabled(s, target)
      PROVE  IInv'
  <2>1. TypeOK'
    BY <1>1, <1>2 DEF SetShopEnabled, TypeOK, customerVars
  <2> QED
    BY <1>2, <2>1, RowsUntouched DEF SetShopEnabled
<1>3. ASSUME NEW s \in Shops, CloseShop(s) PROVE IInv'
  <2>1. TypeOK'
    BY <1>1, <1>3 DEF CloseShop, TypeOK, customerVars
  <2> QED
    BY <1>3, <2>1, RowsUntouched DEF CloseShop
<1>4. CASE Tick
  <2>1. TypeOK'
    BY <1>1, <1>4 DEF Tick, TypeOK, customerVars
  <2> QED
    BY <1>4, <2>1, RowsUntouched DEF Tick
<1>5. CASE UNCHANGED vars
  <2>1. TypeOK'
    BY <1>1, <1>5 DEF vars, TypeOK
  <2> QED
    BY <1>5, <2>1, RowsUntouched DEF vars, customerVars
<1> QED
    BY <1>2, <1>3, <1>4, <1>5, RequestKeeps, AnswerKeeps, RedeemKeeps, GuestKeeps, EndSessionKeeps
    DEF Next

-----------------------------------------------------------------------------
(* The theorems                                                            *)

THEOREM InvariantHolds == Spec => []IInv
BY Initially, Step, PTL DEF Spec

\* Every row is well formed; the CHECK on attempt_count never fires.
THEOREM TypeCorrect == Spec => []TypeOK
<1>1. IInv => TypeOK
    BY DEF IInv
<1> QED
    BY <1>1, InvariantHolds, PTL

\* AUTH-OTP-6: of the codes sent to a destination only the newest is open, with
\* requests that overtake each other between their clock and their lock.
THEOREM NewestCodeOnly == Spec => []OnlyTheNewestCodeCounts
<1>1. IInv => OnlyTheNewestCodeCounts
    BY DEF IInv
<1> QED
    BY <1>1, InvariantHolds, PTL

\* AUTH-OTP-9: the stamps of the codes of one destination, taken before its lock,
\* are at least the cooldown apart.
THEOREM CodesSpaced == Spec => []CodesAreSpaced
<1>1. IInv => CodesAreSpaced
    BY DEF IInv
<1> QED
    BY <1>1, InvariantHolds, PTL

\* No code is compared with more than MaxAttempts wrong ones.
THEOREM GuessesBounded == Spec => []GuessesAreBounded
<1>1. IInv => GuessesAreBounded
    BY BoundsAssumption DEF IInv, ChallengeOK, Challenge, GuessesAreBounded
<1> QED
    BY <1>1, InvariantHolds, PTL

\* AUTH-OTP-7: the session a code opened is named in its row, so a code that is
\* redeemed twice at once opens one session.
THEOREM OneSession == Spec => []OneSessionPerCode
<1>1. IInv => OneSessionPerCode
    BY DEF IInv, SessionOK, OneSessionPerCode
<1> QED
    BY <1>1, InvariantHolds, PTL

\* AUTH-OTP-8, ID-INV-38: customers are those whom exactly one credential names.
THEOREM OneCredential == Spec => []CustomersHaveOneCredential
<1>1. IInv => CustomersHaveOneCredential
    BY DEF IInv
<1> QED
    BY <1>1, InvariantHolds, PTL

\* An upgraded guest keeps no guest session, a customer is where it is known.
THEOREM SessionsMatch == Spec => []SessionsMatchTheSubject
<1>1. IInv => SessionsMatchTheSubject
    BY DEF IInv
<1> QED
    BY <1>1, InvariantHolds, PTL

\* A code logs in the holder of its destination.
THEOREM LogsInTheHolder == Spec => []CodeLogsInItsHolder
<1>1. IInv => CodeLogsInItsHolder
    BY DEF IInv
<1> QED
    BY <1>1, InvariantHolds, PTL

\* A login is never later than the life of its code and the window together.
THEOREM LoginInTime == Spec => LoginFollowsRequest
<1>1. ASSUME IInv, Next
      PROVE  \A x \in SessionIds : opener'[x] # opener[x] =>
                now < challenge[opener'[x]].created + TTL + Window
  <2>1. ASSUME NEW c \in Challenges, NEW y \in SessionIds, NEW p \in Subjects,
               NEW g \in GuestSessions \cup {None}, Redeem(c, y, p, g),
               NEW x \in SessionIds, opener'[x] # opener[x]
        PROVE  now < challenge[opener'[x]].created + TTL + Window
    <3>1. opener'[x] = c
        BY <1>1, <2>1 DEF Redeem, IInv, TypeOK
    <3>2. now < challenge[c].consumed + Window /\ challenge[c].consumed < challenge[c].created + TTL
        BY <1>1, <2>1 DEF Redeem, Redeemable, IInv, ChallengeOK
    <3>3. /\ challenge[c].consumed \in Nat /\ challenge[c].created \in Nat
          /\ now \in Nat /\ TTL \in Nat /\ Window \in Nat
        BY <1>1, BoundsAssumption DEF IInv, TypeOK, Challenge
    <3> QED
        BY <3>1, <3>2, <3>3
  <2>2. ASSUME ~ \E c \in Challenges, y \in SessionIds, p \in Subjects, g \in GuestSessions \cup {None} :
                    Redeem(c, y, p, g)
        PROVE  opener' = opener
    BY <1>1, <2>2 DEF Next, Request, VerifyRight, VerifyWrong, VerifyLate, Guest, EndSession,
        SetShopEnabled, CloseShop, Tick, customerVars
  <2> QED
    BY <2>1, <2>2
<1>2. IInv /\ [Next]_vars
        => [\A x \in SessionIds : opener'[x] # opener[x] =>
                now < challenge[opener'[x]].created + TTL + Window]_vars
    BY <1>1
<1> QED
    BY <1>2, InvariantHolds, PTL DEF Spec, LoginFollowsRequest
=============================================================================
