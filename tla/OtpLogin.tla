------------------------------ MODULE OtpLogin ------------------------------
(***************************************************************************)
(* Customers of a shop: guests, login codes and the upgrade of a guest,    *)
(*   data/auth/repository.go     (challenges: request and verify)          *)
(*   capability/auth/usecase.go  (Request, Verify)                         *)
(*   data/mysql/auth.go          (loginWithVerifiedChallenge, Guest)       *)
(*   data/shop/lifecycle.go      (what may happen to the shop meanwhile)   *)
(* for the shops of one ACTIVE merchant.  One action per transaction.      *)
(*                                                                         *)
(* Refresh tokens are left to AuthSessions: the guest cookie of a login    *)
(* names a live session, or nothing when its token was rotated away.       *)
(* A handler of the one-time codes reads its clock before it waits for its *)
(* row lock, so it may work with a time that is up to MaxLag old.          *)
(*                                                                         *)
(* An operator no action uses is its neighbour with a fault in it.         *)
(***************************************************************************)
EXTENDS Naturals, FiniteSets

CONSTANTS Shops, Destinations, Subjects, SessionIds, Challenges, None,
          Cooldown,     \* ResendIntervalSeconds, 60 s in the code
          TTL,          \* TTLSeconds, 300 s
          Window,       \* how long a verified code may be redeemed, 300 s
          MaxAttempts,  \* wrong codes before a challenge expires, 5
          MaxLag, MaxTime

ASSUME NoneAssumption == None \notin Shops \cup Destinations \cup Subjects \cup SessionIds \cup Challenges
ASSUME BoundsAssumption ==
    /\ {Cooldown, TTL, Window, MaxAttempts} \subseteq Nat \ {0}
    /\ MaxLag \in Nat /\ MaxTime \in Nat

VARIABLES
    shop,           \* identity_shop.status
    challenge,      \* identity_auth_otp_challenge
    person,         \* identity_subject.principal_type of the CUSTOMER realm
    credential,     \* identity_credential of namespace SHOP, by its unique key
    session,        \* identity_session
    now,
    guesses,        \* history: wrong codes compared with a challenge
    opener          \* history: the challenge whose redemption opened a session

vars == <<shop, challenge, person, credential, session, now, guesses, opener>>

Challenge == [status : {"ABSENT", "PENDING", "CONSUMED", "EXPIRED"},
              shop : Shops \cup {None}, to : Destinations \cup {None},
              attempts : 0..MaxAttempts, created : Nat, consumed : Nat,
              session : SessionIds \cup {None}]
Session == [status : {"ABSENT", "ACTIVE", "REVOKED"}, level : {"GUEST", "OTP"},
            subject : Subjects \cup {None}, shop : Shops \cup {None}]

NoChallenge == [status |-> "ABSENT", shop |-> None, to |-> None, attempts |-> 0,
                created |-> 0, consumed |-> 0, session |-> None]
NoSession == [status |-> "ABSENT", level |-> "GUEST", subject |-> None, shop |-> None]

Init == /\ shop = [s \in Shops |-> "ACTIVE"]
        /\ challenge = [c \in Challenges |-> NoChallenge]
        /\ person = [p \in Subjects |-> "ABSENT"]
        /\ credential = [k \in Shops \X Destinations |-> None]
        /\ session = [x \in SessionIds |-> NoSession]
        /\ now = 0
        /\ guesses = [c \in Challenges |-> 0]
        /\ opener = [x \in SessionIds |-> None]

customerVars == <<person, credential, session, opener>>

\* What a handler's clock may have shown when it began to wait for its lock.
Clock == {t \in 0..now : now <= t + MaxLag}

-----------------------------------------------------------------------------
(* One-time codes                                                          *)

To(s, d) == {c \in Challenges : challenge[c].status # "ABSENT"
                                /\ challenge[c].shop = s /\ challenge[c].to = d}

CooledDownPendingOnly(s, d, at) ==
    \A c \in To(s, d) : challenge[c].status = "PENDING" => challenge[c].created + Cooldown <= at
CooledDown(s, d, at) == \A c \in To(s, d) : challenge[c].created + Cooldown <= at

SupersededNever(s, d) == {}
Superseded(s, d) == {c \in To(s, d) : challenge[c].status = "PENDING"}

\* Request: CreatePending under the lock of the shop row.  The notification is
\* dispatched afterwards and its failure changes nothing.
Request(c, s, d, at) ==
    /\ shop[s] = "ACTIVE"
    /\ challenge[c].status = "ABSENT"
    /\ CooledDown(s, d, at)
    /\ challenge' = [b \in Challenges |->
           IF b = c THEN [NoChallenge EXCEPT !.status = "PENDING", !.shop = s, !.to = d, !.created = at]
           ELSE IF b \in Superseded(s, d) THEN [challenge[b] EXCEPT !.status = "EXPIRED"]
           ELSE challenge[b]]
    /\ UNCHANGED <<shop, customerVars, now, guesses>>

Fresh(c, at) == at < challenge[c].created + TTL

FreshForever(c, at) == challenge[c].status = "PENDING"
Answerable(c, at) == challenge[c].status = "PENDING" /\ Fresh(c, at)

\* Consume with the right code.
VerifyRight(c, at) ==
    /\ Answerable(c, at)
    /\ challenge' = [challenge EXCEPT ![c].status = "CONSUMED", ![c].consumed = at]
    /\ UNCHANGED <<shop, customerVars, now, guesses>>

AfterMissOffByOne(c) == IF challenge[c].attempts >= MaxAttempts THEN "EXPIRED" ELSE "PENDING"
AfterMiss(c) == IF challenge[c].attempts + 1 >= MaxAttempts THEN "EXPIRED" ELSE "PENDING"

\* Consume with a wrong code: the attempt is counted and committed.
VerifyWrong(c, at) ==
    /\ Answerable(c, at)
    /\ challenge' = [challenge EXCEPT ![c].status = AfterMiss(c), ![c].attempts = @ + 1]
    /\ guesses' = [guesses EXCEPT ![c] = @ + 1]
    /\ UNCHANGED <<shop, customerVars, now>>

\* Consume of a challenge that is still PENDING after its time.
VerifyLate(c, at) ==
    /\ challenge[c].status = "PENDING" /\ ~Fresh(c, at)
    /\ challenge' = [challenge EXCEPT ![c].status = "EXPIRED"]
    /\ UNCHANGED <<shop, customerVars, now, guesses>>

-----------------------------------------------------------------------------
(* Sessions                                                                *)

Live(x) == session[x].status = "ACTIVE"

\* Guest: a new subject and its session in an ACTIVE shop.
Guest(s, p, x) ==
    /\ shop[s] = "ACTIVE"
    /\ person[p] = "ABSENT" /\ session[x].status = "ABSENT"
    /\ person' = [person EXCEPT ![p] = "GUEST"]
    /\ session' = [session EXCEPT
           ![x] = [status |-> "ACTIVE", level |-> "GUEST", subject |-> p, shop |-> s]]
    /\ UNCHANGED <<shop, challenge, credential, now, guesses, opener>>

RedeemableAgain(c) == challenge[c].status = "CONSUMED" /\ now < challenge[c].consumed + Window
RedeemableForever(c) == challenge[c].status = "CONSUMED" /\ challenge[c].session = None
Redeemable(c) == /\ challenge[c].status = "CONSUMED"
                 /\ challenge[c].session = None
                 /\ now < challenge[c].consumed + Window

\* lockGuestForUpgrade: the live guest sessions a cookie can lead to.
GuestSessions == {g \in SessionIds : Live(g) /\ person[session[g].subject] = "GUEST"}

\* The effect of a login on sessions: x is opened for p in shop s, and the guest
\* session g the browser came with, if any, ends.
OpenBesideGuest(x, p, s, g) ==
    session' = [session EXCEPT ![x] = [status |-> "ACTIVE", level |-> "OTP", subject |-> p, shop |-> s]]
Open(x, p, s, g) ==
    session' = [y \in SessionIds |->
        IF y = x THEN [status |-> "ACTIVE", level |-> "OTP", subject |-> p, shop |-> s]
        ELSE IF y = g THEN [session[y] EXCEPT !.status = "REVOKED"]
        ELSE session[y]]

\* Who the code logs in when its destination is already a customer's.
Returning(c, p, g) ==
    /\ credential[<<challenge[c].shop, challenge[c].to>>] = p
    /\ UNCHANGED <<person, credential>>

\* A guest of the same shop becomes the customer of a new destination.
UpgradeTypeOnly(c, p, g) ==
    /\ credential[<<challenge[c].shop, challenge[c].to>>] = None
    /\ g # None /\ session[g].subject = p /\ session[g].shop = challenge[c].shop
    /\ person' = [person EXCEPT ![p] = "CUSTOMER"]
    /\ UNCHANGED credential
Upgrade(c, p, g) ==
    /\ credential[<<challenge[c].shop, challenge[c].to>>] = None
    /\ g # None /\ session[g].subject = p /\ session[g].shop = challenge[c].shop
    /\ person' = [person EXCEPT ![p] = "CUSTOMER"]
    /\ credential' = [credential EXCEPT ![<<challenge[c].shop, challenge[c].to>>] = p]

\* A new destination without a guest of this shop: a customer is created.
RegisterOver(c, p, g) ==
    /\ person[p] = "ABSENT"
    /\ person' = [person EXCEPT ![p] = "CUSTOMER"]
    /\ credential' = [credential EXCEPT ![<<challenge[c].shop, challenge[c].to>>] = p]
Register(c, p, g) ==
    /\ credential[<<challenge[c].shop, challenge[c].to>>] = None
    /\ g # None => session[g].shop # challenge[c].shop
    /\ person[p] = "ABSENT"
    /\ person' = [person EXCEPT ![p] = "CUSTOMER"]
    /\ credential' = [credential EXCEPT ![<<challenge[c].shop, challenge[c].to>>] = p]

\* loginWithVerifiedChallenge.
Redeem(c, x, p, g) ==
    /\ Redeemable(c)
    /\ session[x].status = "ABSENT"
    /\ Returning(c, p, g) \/ Upgrade(c, p, g) \/ Register(c, p, g)
    /\ Open(x, p, challenge[c].shop, g)
    /\ challenge' = [challenge EXCEPT ![c].session = x]
    /\ opener' = [opener EXCEPT ![x] = c]
    /\ UNCHANGED <<shop, now, guesses>>

\* Logout by the holder of one of its refresh tokens.
EndSession(x) ==
    /\ Live(x)
    /\ session' = [session EXCEPT ![x].status = "REVOKED"]
    /\ UNCHANGED <<shop, challenge, person, credential, now, guesses, opener>>

-----------------------------------------------------------------------------
(* The shop, the clock                                                     *)

SetShopEnabled(s, target) ==
    /\ shop[s] # "CLOSED"
    /\ shop' = [shop EXCEPT ![s] = target]
    /\ UNCHANGED <<challenge, customerVars, now, guesses>>

\* The last shop of a merchant that is not closed cannot be.
CloseShop(s) ==
    /\ shop[s] # "CLOSED"
    /\ \E r \in Shops \ {s} : shop[r] # "CLOSED"
    /\ shop' = [shop EXCEPT ![s] = "CLOSED"]
    /\ UNCHANGED <<challenge, customerVars, now, guesses>>

Tick == /\ now < MaxTime
        /\ now' = now + 1
        /\ UNCHANGED <<shop, challenge, customerVars, guesses>>

-----------------------------------------------------------------------------
Next ==
    \/ \E c \in Challenges, s \in Shops, d \in Destinations, at \in Clock : Request(c, s, d, at)
    \/ \E c \in Challenges, at \in Clock :
           VerifyRight(c, at) \/ VerifyWrong(c, at) \/ VerifyLate(c, at)
    \/ \E c \in Challenges, x \in SessionIds, p \in Subjects, g \in GuestSessions \cup {None} :
           Redeem(c, x, p, g)
    \/ \E s \in Shops, p \in Subjects, x \in SessionIds : Guest(s, p, x)
    \/ \E x \in SessionIds : EndSession(x)
    \/ \E s \in Shops, target \in {"ACTIVE", "DISABLED"} : SetShopEnabled(s, target)
    \/ \E s \in Shops : CloseShop(s)
    \/ Tick

Spec == Init /\ [][Next]_vars

-----------------------------------------------------------------------------
(* Correctness                                                             *)

\* Every row is well formed; the CHECK on attempt_count never fires.
TypeOK ==
    /\ shop \in [Shops -> {"ACTIVE", "DISABLED", "CLOSED"}]
    /\ challenge \in [Challenges -> Challenge]
    /\ person \in [Subjects -> {"ABSENT", "GUEST", "CUSTOMER"}]
    /\ credential \in [Shops \X Destinations -> Subjects \cup {None}]
    /\ session \in [SessionIds -> Session]
    /\ now \in Nat
    /\ guesses \in [Challenges -> Nat]
    /\ opener \in [SessionIds -> Challenges \cup {None}]

\* AUTH-OTP-6: only the newest code sent to a destination can still be verified.
OnlyTheNewestCodeCounts ==
    \A s \in Shops, d \in Destinations : \A b, c \in To(s, d) :
        challenge[b].status = "PENDING" => challenge[c].created <= challenge[b].created

\* AUTH-OTP-9: the created_at stamps of a destination's codes lie at least the
\* cooldown apart, also when requests overtake each other between reading the clock,
\* which gives the stamp, and locking the shop.  When a code is sent afterwards, and
\* how far that is from its stamp, is not said (repository.go:37-45, usecase.go:42-60).
CodesAreSpaced ==
    \A s \in Shops, d \in Destinations : \A b, c \in To(s, d) :
        b # c => \/ challenge[b].created + Cooldown <= challenge[c].created
                 \/ challenge[c].created + Cooldown <= challenge[b].created

\* A code of six digits is safe only because it can be guessed MaxAttempts times.
GuessesAreBounded == \A c \in Challenges : guesses[c] <= MaxAttempts

\* AUTH-OTP-7: one verified code opens one session.
OneSessionPerCode ==
    \A x, y \in SessionIds : opener[x] = opener[y] /\ opener[x] # None => x = y

\* AUTH-OTP-8, ID-INV-38: a subject is a CUSTOMER exactly when a credential of
\* some shop names it, a guest has none, and no subject has two.
CustomersHaveOneCredential ==
    \A p \in Subjects :
        LET held == {k \in Shops \X Destinations : credential[k] = p}
        IN IF person[p] = "CUSTOMER" THEN \E k \in held : held = {k} ELSE held = {}

\* The sessions of a subject match what it is: an upgraded guest keeps no guest
\* session, and a customer is logged in only to the shop that knows it.
SessionsMatchTheSubject ==
    \A x \in SessionIds : Live(x) =>
        IF session[x].level = "GUEST" THEN person[session[x].subject] = "GUEST"
        ELSE \E d \in Destinations : credential[<<session[x].shop, d>>] = session[x].subject

\* A code logs in the holder of the destination it was sent to, for good.
CodeLogsInItsHolder ==
    \A x \in SessionIds : opener[x] # None =>
        credential[<<challenge[opener[x]].shop, challenge[opener[x]].to>>] = session[x].subject

\* From the request of a code to the login it permits pass less than its time to
\* live and the redemption window together, however long the locks were waited for.
LoginFollowsRequest ==
    [][\A x \in SessionIds : opener'[x] # opener[x] =>
           now < challenge[opener'[x]].created + TTL + Window]_vars

\* ID-INV-8: a shop that is disabled or closed gets no new session.
NoLoginIntoInactiveShop ==
    [][\A x \in SessionIds : session[x].status = "ABSENT" /\ session'[x].status = "ACTIVE"
           => shop[session'[x].shop] = "ACTIVE"]_vars
=============================================================================
