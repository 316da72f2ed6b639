-------------------------------- MODULE SignIn --------------------------------
(***************************************************************************)
(* Signing in, sessions and changes of password.  A login asks the         *)
(* limiter, reads the account, compares the password and only then counts  *)
(* a failure or signs a token: four steps with an await between them, as   *)
(* many logins at once as there are slots.  A session is a signed token,   *)
(* kept by the browser alone; each request compares its second with that   *)
(* of the last change of password.  One unit of clock is one second.       *)
(***************************************************************************)
EXTENDS Limiter, FiniteSetsExt

CONSTANTS
    Public,         \* addresses outside the trusted ranges
    Clients,        \* those of them that browsers come from
    Proxy,          \* the host's proxy, the peer of every request
    Headers,        \* the X-Forwarded-For a browser may send, right to left
    Known,          \* e-mails with an account
    Admins,         \* those of administrators
    Attempts,       \* requests served at the same time
    NoHash,         \* the dummy hash of an unknown e-mail
    MaxAge,         \* life of a token
    MaxClock, MaxChanges, MaxSessions, MaxAsked     \* bounds of the model

ASSUME SignInAssumption ==
    /\ Public \cap Trusted = {} /\ Public \subseteq Addresses
    /\ Clients \subseteq Public
    /\ Proxy \in Trusted
    /\ Headers \subseteq Seq(Addresses)
    /\ Known \subseteq Emails
    /\ Admins \subseteq Known
    /\ IsFiniteSet(Attempts) /\ Attempts # {}
    /\ MaxAge \in Nat
    /\ MaxClock \in Nat /\ MaxChanges \in Nat /\ MaxSessions \in Nat /\ MaxAsked \in Nat

(* A login's body has at most 100 kB (body.rs LIMIT).                      *)
ASSUME EmailsAssumption == IsFiniteSet(Emails)

(* Passwords are numbered in the order in which an account takes them.     *)
Passwords == 0..MaxChanges
ASSUME NoHashAssumption == NoHash \notin Passwords

VARIABLES
    clock,
    limiter,        \* AppState.limiter
    accounts,       \* users: e-mail -> password, active, password_changed_at
    sessions,       \* tokens in browsers
    attempts,       \* the locals of the requests in flight
    asked,          \* requests so far, bounded by MaxAsked
    misses          \* history: failed logins of the last window, by
                    \* client, e-mail and second

vars == <<clock, limiter, accounts, sessions, attempts, asked, misses>>

Token == [email : Known, iat : Nat,
          password : Passwords]           \* history: the one it was given for

Attempt == [pc       : {"idle", "read", "compare", "current", "store", "sign"},
            from     : Clients \cup {AnyEmail},     \* history: who sent it
            ip       : Addresses \cup {AnyEmail},
            email    : Emails \cup {AnyEmail},
            guess    : Passwords,
            stored   : Passwords \cup {NoHash},     \* the hash read or written
            active   : BOOLEAN]

Idle == [pc |-> "idle", from |-> AnyEmail, ip |-> AnyEmail, email |-> AnyEmail,
         guess |-> 0, stored |-> NoHash, active |-> FALSE]

At(a, pc) == attempts[a].pc = pc
Goto(a, q) == attempts' = [attempts EXCEPT ![a] = q]

(* Broken: a token of the very second of the change is refused too.        *)
OutdatedToo(t) == t.iat <= accounts[t.email].changed

(* The token is from before the last change of password.                   *)
Outdated(t) == t.iat < accounts[t.email].changed

(* verify_token: a token of this server that is still alive.               *)
Verified(t) == clock < t.iat + MaxAge

(* authenticate lets a request through.                                    *)
Honoured(t) ==
    /\ Verified(t)
    /\ accounts[t.email].active
    /\ ~Outdated(t)

(* sign_token, and the cookie the browser keeps.                           *)
SignToken(q) ==
    /\ sessions' = sessions \cup
          {[email |-> q.email, iat |-> clock, password |-> q.stored]}
    /\ Cardinality(sessions') <= MaxSessions

-------------------------------------------------------------------------------
(* Login.                                                                  *)

(* The proxy adds the browser's address to the header the browser sent.    *)
Ip(i, x) == ClientIp(<<Proxy, i>> \o x)

Ask(a, i, x, e, g) ==
    LET ip == Ip(i, x) IN
    /\ At(a, "idle")
    /\ limiter' = Swept(limiter, Pair(ip, e), clock)
    /\ ~Locked(limiter, ip, e, clock)
    /\ asked < MaxAsked /\ asked' = asked + 1
    /\ Goto(a, [Idle EXCEPT !.pc = "read", !.from = i, !.ip = ip, !.email = e,
                            !.guess = g])
    /\ UNCHANGED <<clock, accounts, sessions, misses>>

(* 429.                                                                    *)
TurnAway(i, x, e) ==
    LET ip == Ip(i, x) IN
    /\ Locked(limiter, ip, e, clock)
    /\ limiter' = Swept(limiter, Pair(ip, e), clock)
    /\ UNCHANGED <<clock, accounts, sessions, attempts, asked, misses>>

ReadAccount(a) ==
    LET e == attempts[a].email IN
    /\ At(a, "read")
    /\ Goto(a, IF e \in Known
               THEN [attempts[a] EXCEPT !.pc = "compare",
                                        !.stored = accounts[e].password,
                                        !.active = accounts[e].active]
               ELSE [attempts[a] EXCEPT !.pc = "compare"])
    /\ UNCHANGED <<clock, limiter, accounts, sessions, asked, misses>>

Correct(q) == q.guess = q.stored /\ q.active

Refuse(a) ==
    LET q == attempts[a] IN
    /\ At(a, "compare")
    /\ ~Correct(q)
    /\ limiter' \in Recorded(limiter, q.ip, q.email, clock)
    /\ misses' = [misses EXCEPT ![<<q.from, q.email, clock>>] = @ + 1]
    /\ Goto(a, Idle)
    /\ UNCHANGED <<clock, accounts, sessions, asked>>

Accept(a) ==
    LET q == attempts[a] IN
    /\ At(a, "compare")
    /\ Correct(q)
    /\ limiter' = Without(limiter, {<<q.ip, q.email>>})
    /\ SignToken(q)
    /\ Goto(a, Idle)
    /\ UNCHANGED <<clock, accounts, asked, misses>>

(* The browser drops its cookie; the server keeps nothing to drop.         *)
Logout(t) ==
    /\ sessions' = sessions \ {t}
    /\ UNCHANGED <<clock, limiter, accounts, attempts, asked, misses>>

-------------------------------------------------------------------------------
(* Password and account changes.                                           *)

(* An administrator who resets their own password at /users/:id is not     *)
(* asked for the current one.                                              *)
StartChange(a, t, g) ==
    /\ At(a, "idle")
    /\ Honoured(t)
    /\ asked < MaxAsked /\ asked' = asked + 1
    /\ \E pc \in {"current"} \cup {p \in {"store"} : t.email \in Admins} :
          Goto(a, [Idle EXCEPT !.pc = pc, !.email = t.email, !.guess = g])
    /\ UNCHANGED <<clock, limiter, accounts, sessions, misses>>

CheckCurrent(a) ==
    LET q == attempts[a] IN
    /\ At(a, "current")
    /\ Goto(a, IF q.guess = accounts[q.email].password
               THEN [q EXCEPT !.pc = "store"] ELSE Idle)
    /\ UNCHANGED <<clock, limiter, accounts, sessions, asked, misses>>

(* Broken: the session stamp is forgotten.                                 *)
SetPasswordOnly(e) ==
    /\ accounts[e].password < MaxChanges
    /\ accounts' = [accounts EXCEPT ![e].password = @ + 1]

SetPassword(e) ==
    /\ accounts[e].password < MaxChanges
    /\ accounts' = [accounts EXCEPT ![e].password = @ + 1, ![e].changed = clock]

StorePassword(a) ==
    LET e == attempts[a].email IN
    /\ At(a, "store")
    /\ SetPassword(e)
    /\ Goto(a, [attempts[a] EXCEPT !.pc = "sign",
                                   !.stored = accounts[e].password + 1])
    /\ UNCHANGED <<clock, limiter, sessions, asked, misses>>

(* The UPDATE has been awaited: other changes may come before the token.   *)
SignAgain(a) ==
    /\ At(a, "sign")
    /\ SignToken(attempts[a])
    /\ Goto(a, Idle)
    /\ UNCHANGED <<clock, limiter, accounts, asked, misses>>

(* An administrator resets somebody else's password.                       *)
ResetPassword(e) ==
    /\ SetPassword(e)
    /\ UNCHANGED <<clock, limiter, sessions, attempts, asked, misses>>

SetActive(e, b) ==
    /\ accounts' = [accounts EXCEPT ![e].active = b]
    /\ UNCHANGED <<clock, limiter, sessions, attempts, asked, misses>>

-------------------------------------------------------------------------------
(* A failure or the time limit at an await: nothing is counted or signed.  *)
Abort(a) ==
    /\ Goto(a, Idle)
    /\ UNCHANGED <<clock, limiter, accounts, sessions, asked, misses>>

(* The counters live in memory, the secret in the database.                *)
Restart ==
    /\ limiter' = [k \in {} |-> 0]
    /\ attempts' = [a \in Attempts |-> Idle]
    /\ UNCHANGED <<clock, accounts, sessions, asked, misses>>

Tick ==
    /\ clock < MaxClock
    /\ clock' = clock + 1
    /\ misses' = [m \in DOMAIN misses |->
                    IF m[3] + Window > clock' THEN misses[m] ELSE 0]
    /\ UNCHANGED <<limiter, accounts, sessions, attempts, asked>>

Init ==
    /\ clock = 0
    /\ limiter = [k \in {} |-> 0]
    /\ accounts = [e \in Known |-> [password |-> 0, active |-> TRUE, changed |-> 0]]
    /\ sessions = {}
    /\ attempts = [a \in Attempts |-> Idle]
    /\ asked = 0
    /\ misses = [m \in Public \X Emails \X (0..MaxClock) |-> 0]

Step(a) ==
    \/ \E i \in Clients, x \in Headers, e \in Emails, g \in Passwords :
          Ask(a, i, x, e, g)
    \/ ReadAccount(a) \/ Refuse(a) \/ Accept(a)
    \/ \E t \in sessions, g \in Passwords : StartChange(a, t, g)
    \/ CheckCurrent(a) \/ StorePassword(a) \/ SignAgain(a)
    \/ Abort(a)

Next ==
    \/ \E a \in Attempts : Step(a)
    \/ \E i \in Clients, x \in Headers, e \in Emails : TurnAway(i, x, e)
    \/ \E t \in sessions : Logout(t)
    \/ \E e \in Known : ResetPassword(e)
    \/ \E e \in Known, b \in BOOLEAN : SetActive(e, b)
    \/ Restart
    \/ Tick

Spec == Init /\ [][Next]_vars

-------------------------------------------------------------------------------
Counters == Clients \X (Emails \cup {AnyEmail})

(* Nothing is stamped later than now, no token or local names a password   *)
(* its account has not had yet, and a request about to sign knows which.   *)
TypeOK ==
    /\ clock \in 0..MaxClock
    /\ DOMAIN limiter \subseteq Counters
    /\ limiter \in [DOMAIN limiter -> Failures]
    /\ \A k \in DOMAIN limiter : limiter[k].since <= clock
    /\ accounts \in [Known -> [password : Passwords, active : BOOLEAN,
                               changed : Nat]]
    /\ \A e \in Known : accounts[e].changed <= clock
    /\ sessions \subseteq Token
    /\ \A t \in sessions : /\ t.iat <= clock
                           /\ t.password <= accounts[t.email].password
    /\ attempts \in [Attempts -> Attempt]
    /\ \A a \in Attempts : ~At(a, "idle") =>
          LET q == attempts[a] IN
          /\ q.email \in Emails
          /\ q.pc \in {"read", "compare"} => q.from \in Clients /\ q.ip = q.from
          /\ q.pc \in {"current", "store", "sign"} => q.email \in Known
          /\ q.pc = "sign" \/ q.active => q.email \in Known /\ q.stored # NoHash
          /\ q.stored # NoHash /\ q.email \in Known =>
                q.stored <= accounts[q.email].password
    /\ asked \in 0..MaxAsked
    /\ misses \in [Public \X Emails \X (0..MaxClock) -> Nat]

(* The limiter stays within its bound however many addresses and e-mails   *)
(* are tried: record_failure makes room for each key it inserts.           *)
MemoryBounded == Cardinality(DOMAIN limiter) <= MaxKeys

RecentMisses(i, S) ==
    MapThenSumSet(LAMBDA m : misses[m], {i} \X S \X (0..MaxClock))

(* A public address is turned away only for what came from that address    *)
(* within the last window: its failures on that account, or on all.  No    *)
(* other public client, whatever X-Forwarded-For it sends, can lock it     *)
(* out, and no lock outlives its window (limiter.rs live, client_ip.rs).   *)
OwnFailuresOnly ==
    \A i \in Public, e \in Emails : Locked(limiter, i, e, clock) =>
        \/ RecentMisses(i, {e}) >= MaxPerAccount
        \/ RecentMisses(i, Emails) >= MaxPerIp

(* A token given for the password the account has now is refused only      *)
(* because it is too old or the account is closed: the session that        *)
(* changes its password goes on, and a login that follows a change in the  *)
(* same second is not refused (auth.rs:191, whole seconds on both sides).  *)
CurrentSessionsHonoured ==
    \A t \in sessions : t.password = accounts[t.email].password => ~Outdated(t)

(* A change of password ends the account's sessions of earlier seconds,    *)
(* the one of the request that makes it too, and a session so ended is     *)
(* never let in again, whatever changes follow or interleave.              *)
SessionsEndForGood ==
    [][\A t \in sessions :
          \/ Outdated(t)
          \/ /\ accounts'[t.email].password # accounts[t.email].password
             /\ t.iat < clock
          => Outdated(t)']_vars

(* However many logins are judged at once, the limiter is one that judges  *)
(* and counts in a single step, with a limit higher by the other logins    *)
(* that may be in flight.                                                  *)
Limiting == INSTANCE Throttle WITH
    counters <- Counters,
    pairs    <- {Pair(i, e) : i \in Clients, e \in Emails},
    forgivable <- Clients \X Emails,
    limit    <- [k \in Counters |-> Limit(k)],
    span     <- Window,
    slack    <- Cardinality(Attempts) - 1,
    time     <- clock,
    spent    <- [k \in Counters |-> IF IsLive(limiter, k, clock)
                                THEN limiter[k].count ELSE 0],
    opened   <- [k \in Counters |-> IF IsLive(limiter, k, clock)
                                THEN limiter[k].since ELSE 0]
Throttled == Limiting!ThrottleSpec
===============================================================================
