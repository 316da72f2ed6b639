----------------------------- MODULE SignInProofs -----------------------------
(***************************************************************************)
(* Theorems of SignIn, for any addresses, accounts, limits, lives of       *)
(* tokens and any number of requests in flight: the limiter's bound, which *)
(* sessions a change of password ends, whom a lock turns away, and how     *)
(* many guesses are let in (the refinement of Throttle).                   *)
(***************************************************************************)
EXTENDS SignIn, LimiterProofs, WellFoundedInduction

(* What holds of a request's locals, given the accounts.                   *)
AttemptOK(q, table) ==
    /\ q \in Attempt
    /\ q.pc # "idle" =>
          /\ q.email \in Emails
          /\ q.pc \in {"read", "compare"} => q.from \in Clients /\ q.ip = q.from
          /\ q.pc \in {"current", "store", "sign"} => q.email \in Known
          /\ q.pc = "sign" \/ q.active => q.email \in Known /\ q.stored # NoHash
          /\ q.stored # NoHash /\ q.email \in Known =>
                q.stored <= table[q.email].password

(* What holds of a token, given the accounts and the time: it was given    *)
(* for a password the account has had, and for the present one only since  *)
(* the last change.                                                        *)
TokenOK(t, table, now) ==
    /\ t \in Token
    /\ t.iat <= now
    /\ t.password <= table[t.email].password
    /\ t.password = table[t.email].password => table[t.email].changed <= t.iat

AccountsOK ==
    /\ accounts \in [Known -> [password : Passwords, active : BOOLEAN, changed : Nat]]
    /\ \A e \in Known : accounts[e].changed <= clock

CountsOK ==
    /\ clock \in 0..MaxClock
    /\ asked \in 0..MaxAsked
    /\ misses \in [Public \X Emails \X (0..MaxClock) -> Nat]

AttemptsOK ==
    /\ attempts \in [Attempts -> Attempt]
    /\ \A a \in Attempts : AttemptOK(attempts[a], accounts)

SessionsOK == \A t \in sessions : TokenOK(t, accounts, clock)

(* The invariant.                                                          *)
Inv ==
    /\ CountsOK
    /\ AccountsOK
    /\ Sound(limiter, Counters, clock)
    /\ AttemptsOK
    /\ SessionsOK

(* What any step may do to time and to an account: the clock never goes    *)
(* back, and a change takes the next password and stamps the present.      *)
Onward ==
    /\ clock' \in Nat /\ clock <= clock'
    /\ \A e \in Known :
          \/ /\ accounts'[e].password = accounts[e].password
             /\ accounts'[e].changed = accounts[e].changed
          \/ /\ accounts'[e].password = accounts[e].password + 1
             /\ accounts'[e].changed = clock

LEMMA InvImplies ==
    Inv => TypeOK /\ MemoryBounded /\ CurrentSessionsHonoured
<1> SUFFICES ASSUME Inv PROVE TypeOK /\ MemoryBounded /\ CurrentSessionsHonoured
  OBVIOUS
<1>1. \A t \in sessions : /\ t \in Token /\ t.iat <= clock
                          /\ t.password <= accounts[t.email].password
  BY DEF Inv, SessionsOK, TokenOK
<1>2. \A a \in Attempts : ~At(a, "idle") =>
          LET q == attempts[a] IN
          /\ q.email \in Emails
          /\ q.pc \in {"read", "compare"} => q.from \in Clients /\ q.ip = q.from
          /\ q.pc \in {"current", "store", "sign"} => q.email \in Known
          /\ q.pc = "sign" \/ q.active => q.email \in Known /\ q.stored # NoHash
          /\ q.stored # NoHash /\ q.email \in Known =>
                q.stored <= accounts[q.email].password
  BY DEF Inv, AttemptsOK, AttemptOK, At
<1>3. TypeOK
  BY <1>1, <1>2 DEF Inv, CountsOK, AccountsOK, AttemptsOK, Sound, TypeOK
<1>4. MemoryBounded
  BY DEF Inv, Sound, MemoryBounded
<1>5. CurrentSessionsHonoured
  <2> SUFFICES ASSUME NEW t \in sessions,
                      t.password = accounts[t.email].password
               PROVE  ~Outdated(t)
    BY DEF CurrentSessionsHonoured
  <2>1. /\ t.email \in Known /\ t.iat \in Nat
        /\ accounts[t.email].changed <= t.iat
    BY DEF Inv, SessionsOK, TokenOK, Token
  <2>2. accounts[t.email].changed \in Nat
    BY <2>1 DEF Inv, AccountsOK
  <2> QED
    BY <2>1, <2>2 DEF Outdated
<1> QED
  BY <1>3, <1>4, <1>5

LEMMA InitInv == Init => Inv
<1> SUFFICES ASSUME Init PROVE Inv
  OBVIOUS
<1>1. CountsOK
  BY SignInAssumption DEF Init, CountsOK
<1>2. AccountsOK
  BY SignInAssumption DEF Init, AccountsOK, Passwords
<1>3. Sound(limiter, Counters, clock)
  BY EmptySound DEF Init
<1>4. Idle \in Attempt /\ Idle.pc = "idle"
  BY SignInAssumption DEF Idle, Attempt, Passwords
<1>5. AttemptsOK
  BY <1>4 DEF Init, AttemptsOK, AttemptOK
<1>6. SessionsOK
  BY DEF Init, SessionsOK
<1> QED
  BY <1>1, <1>2, <1>3, <1>5, <1>6 DEF Inv

(* Passwords and their stamps move together, and only forward.             *)
LEMMA AccountStep ==
    ASSUME Inv, Next
    PROVE  AccountsOK' /\ Onward
<1>1. /\ clock \in Nat
      /\ accounts \in [Known -> [password : Passwords, active : BOOLEAN, changed : Nat]]
      /\ \A e \in Known : /\ accounts[e].changed \in Nat
                          /\ accounts[e].changed <= clock
                          /\ accounts[e].password \in Nat
      /\ Passwords = 0..MaxChanges /\ MaxChanges \in Nat
  BY SignInAssumption DEF Inv, CountsOK, AccountsOK, Passwords
<1>2. ASSUME NEW e \in Known, SetPassword(e), clock' = clock
      PROVE  AccountsOK' /\ Onward
  <2>1. accounts' = [accounts EXCEPT ![e] =
            [[accounts[e] EXCEPT !.password = @ + 1] EXCEPT !.changed = clock]]
    BY <1>1, <1>2 DEF SetPassword
  <2>2. accounts[e].password + 1 \in Passwords
    BY <1>1, <1>2 DEF SetPassword
  <2>3. AccountsOK'
    <3> DEFINE r == [[accounts[e] EXCEPT !.password = @ + 1] EXCEPT !.changed = clock]
    <3>1. /\ r \in [password : Passwords, active : BOOLEAN, changed : Nat]
          /\ r.changed = clock
      BY <1>1, <2>2
    <3>2. accounts' = [accounts EXCEPT ![e] = r]
      BY <2>1
    <3> HIDE DEF r
    <3>3. accounts' \in [Known -> [password : Passwords, active : BOOLEAN, changed : Nat]]
      BY <1>1, <3>1, <3>2
    <3>4. \A f \in Known : accounts'[f].changed <= clock'
      BY <1>1, <1>2, <3>1, <3>2
    <3> QED
      BY <3>3, <3>4 DEF AccountsOK, Passwords
  <2>4. Onward
    BY <1>1, <1>2, <2>1 DEF Onward
  <2> QED
    BY <2>3, <2>4
<1>3. ASSUME NEW e \in Known, NEW b \in BOOLEAN, SetActive(e, b)
      PROVE  AccountsOK' /\ Onward
  <2>1. /\ accounts' = [accounts EXCEPT ![e].active = b] /\ clock' = clock
    BY <1>3 DEF SetActive
  <2> QED
    BY <1>1, <2>1 DEF AccountsOK, Onward, Passwords
<1>4. ASSUME accounts' = accounts, clock' = clock \/ clock' = clock + 1
      PROVE  AccountsOK' /\ Onward
  <2>1. \A e \in Known : accounts[e].changed <= clock'
    BY <1>1, <1>4
  <2> QED
    BY <1>1, <1>4, <2>1 DEF AccountsOK, Onward, Passwords
<1>5. ASSUME NEW a \in Attempts, StorePassword(a)
      PROVE  AccountsOK' /\ Onward
  <2>1. attempts[a].email \in Known
    BY <1>5 DEF StorePassword, At, Inv, AttemptsOK, AttemptOK
  <2> QED
    BY <1>2, <1>5, <2>1 DEF StorePassword
<1>6. ASSUME NEW a \in Attempts, Step(a), ~StorePassword(a)
      PROVE  AccountsOK' /\ Onward
  <2>1. accounts' = accounts /\ clock' = clock
    BY <1>6 DEF Step, Ask, ReadAccount, Refuse, Accept, StartChange, CheckCurrent,
           SignAgain, Abort
  <2> QED
    BY <1>4, <2>1
<1>7. CASE (\E i \in Clients, x \in Headers, e \in Emails : TurnAway(i, x, e))
           \/ (\E t \in sessions : Logout(t)) \/ Restart
  <2>1. accounts' = accounts /\ clock' = clock
    BY <1>7 DEF TurnAway, Logout, Restart
  <2> QED
    BY <1>4, <2>1
<1>8. CASE Tick
  BY <1>4, <1>8 DEF Tick
<1>9. CASE \E e \in Known : ResetPassword(e)
  BY <1>2, <1>9 DEF ResetPassword
<1> QED
  BY <1>3, <1>5, <1>6, <1>7, <1>8, <1>9 DEF Next

(* The bound variables of the model.                                       *)
LEMMA CountStep ==
    ASSUME Inv, Next
    PROVE  CountsOK'
<1>1. /\ clock \in 0..MaxClock /\ asked \in 0..MaxAsked
      /\ misses \in [Public \X Emails \X (0..MaxClock) -> Nat]
      /\ MaxClock \in Nat /\ MaxAsked \in Nat
  BY SignInAssumption DEF Inv, CountsOK
<1>2. CASE Tick
  <2>1. clock' \in 0..MaxClock /\ asked' = asked
    BY <1>1, <1>2 DEF Tick
  <2>2. misses' \in [Public \X Emails \X (0..MaxClock) -> Nat]
    BY <1>1, <1>2 DEF Tick
  <2> QED
    BY <1>1, <2>1, <2>2 DEF CountsOK
<1>3. ASSUME NEW a \in Attempts, Refuse(a)
      PROVE  CountsOK'
  <2>1. clock' = clock /\ asked' = asked
    BY <1>3 DEF Refuse
  <2>2. misses' \in [Public \X Emails \X (0..MaxClock) -> Nat]
    <3> DEFINE m == <<attempts[a].from, attempts[a].email, clock>>
    <3>1. misses' = [misses EXCEPT ![m] = @ + 1]
      BY <1>3 DEF Refuse
    <3>2. m \in Public \X Emails \X (0..MaxClock)
      <4>1. attempts[a].from \in Clients /\ attempts[a].email \in Emails
        BY <1>3 DEF Refuse, At, Inv, AttemptsOK, AttemptOK
      <4> QED
        BY <1>1, <4>1, SignInAssumption
    <3> HIDE DEF m
    <3>3. misses[m] + 1 \in Nat
      BY <1>1, <3>2
    <3> QED
      BY <1>1, <3>1, <3>2, <3>3
  <2> QED
    BY <1>1, <2>1, <2>2 DEF CountsOK
<1>4. ASSUME NEW a \in Attempts, Step(a), ~Refuse(a)
      PROVE  CountsOK'
  <2>1. /\ clock' = clock /\ misses' = misses
        /\ asked' = asked \/ (asked < MaxAsked /\ asked' = asked + 1)
    BY <1>4 DEF Step, Ask, ReadAccount, Accept, StartChange, CheckCurrent,
           StorePassword, SignAgain, Abort
  <2> QED
    BY <1>1, <2>1 DEF CountsOK
<1>5. CASE /\ ~Tick
           /\ ~\E a \in Attempts : Step(a)
  <2>1. clock' = clock /\ misses' = misses /\ asked' = asked
    BY <1>5 DEF Next, TurnAway, Logout, ResetPassword, SetActive, Restart
  <2> QED
    BY <1>1, <2>1 DEF CountsOK
<1> QED
  BY <1>2, <1>3, <1>4, <1>5

(* The address a login counts is the client's own.                         *)
LEMMA IpIsOwn ==
    ASSUME NEW i \in Clients, NEW x \in Headers
    PROVE  Ip(i, x) = i
<1>1. /\ Proxy \in Trusted /\ i \in Addresses \ Trusted /\ x \in Seq(Addresses)
  BY SignInAssumption
<1>2. ClientIp(<<Proxy, i>> \o x) = i
  BY <1>1, CountsWhatTheProxySaw
<1> QED
  BY <1>2 DEF Ip

(* Every step leaves the limiter sound.                                    *)
LEMMA LimiterStep ==
    ASSUME Inv, Next
    PROVE  Sound(limiter, Counters, clock)'
<1>1. Sound(limiter, Counters, clock) /\ clock \in Nat
  BY DEF Inv, CountsOK
<1>2. Counters' = Counters /\ \A i \in Clients, e \in Emails : Pair(i, e) \subseteq Counters
  BY DEF Counters, Pair
<1>3. ASSUME Sound(limiter', Counters, clock), clock' = clock
      PROVE  Sound(limiter, Counters, clock)'
  BY <1>3 DEF Sound, Counters
<1>4. ASSUME NEW i \in Clients, NEW x \in Headers, NEW e \in Emails, TurnAway(i, x, e)
      PROVE  Sound(limiter, Counters, clock)'
  BY <1>1, <1>3, <1>4, SweptSound DEF TurnAway
<1>5. ASSUME NEW a \in Attempts, NEW i \in Clients, NEW x \in Headers, NEW e \in Emails,
             NEW g \in Passwords, Ask(a, i, x, e, g)
      PROVE  Sound(limiter, Counters, clock)'
  BY <1>1, <1>3, <1>5, SweptSound DEF Ask
<1>6. ASSUME NEW a \in Attempts, Refuse(a)
      PROVE  Sound(limiter, Counters, clock)'
  <2> DEFINE q == attempts[a]
  <2>1. q.ip \in Clients /\ q.email \in Emails
    BY <1>6 DEF Refuse, At, Inv, AttemptsOK, AttemptOK
  <2>2. limiter' \in Recorded(limiter, q.ip, q.email, clock) /\ clock' = clock
    BY <1>6 DEF Refuse
  <2>3. Pair(q.ip, q.email) \subseteq Counters
    BY <1>2, <2>1
  <2> HIDE DEF q
  <2> QED
    BY <1>1, <1>3, <2>2, <2>3, RecordedSound
<1>7. ASSUME NEW a \in Attempts, Accept(a)
      PROVE  Sound(limiter, Counters, clock)'
  BY <1>1, <1>3, <1>7, WithoutSound DEF Accept
<1>8. CASE Restart
  <2>1. limiter' = [k \in {} |-> 0] /\ clock' = clock
    BY <1>8 DEF Restart
  <2> QED
    BY <1>3, <2>1, EmptySound
<1>9. CASE Tick
  <2>1. limiter' = limiter /\ clock' \in Nat /\ clock <= clock'
    BY <1>1, <1>9 DEF Tick
  <2>2. Sound(limiter, Counters, clock')
    BY <1>1, <2>1, LaterSound
  <2> QED
    BY <1>2, <2>1, <2>2 DEF Sound
<1>10. ASSUME limiter' = limiter, clock' = clock
       PROVE  Sound(limiter, Counters, clock)'
  BY <1>1, <1>3, <1>10
<1>11. ASSUME NEW a \in Attempts,
              \/ ReadAccount(a) \/ (\E t \in sessions, g \in Passwords : StartChange(a, t, g))
              \/ CheckCurrent(a) \/ StorePassword(a) \/ SignAgain(a) \/ Abort(a)
       PROVE  Sound(limiter, Counters, clock)'
  BY <1>10, <1>11 DEF ReadAccount, StartChange, CheckCurrent, StorePassword,
         SignAgain, Abort
<1>12. CASE \/ \E t \in sessions : Logout(t)
            \/ \E e \in Known : ResetPassword(e)
            \/ \E e \in Known, b \in BOOLEAN : SetActive(e, b)
  BY <1>10, <1>12 DEF Logout, ResetPassword, SetActive
<1> QED
  BY <1>4, <1>5, <1>6, <1>7, <1>8, <1>9, <1>11, <1>12 DEF Next, Step

(* What a request holds stays true of it as accounts change.               *)
LEMMA AttemptLasts ==
    ASSUME Inv, Onward, NEW q, AttemptOK(q, accounts)
    PROVE  AttemptOK(q, accounts')
<1>1. ASSUME q.stored # NoHash, q.email \in Known, q.stored <= accounts[q.email].password
      PROVE  q.stored <= accounts'[q.email].password
  <2>1. q.stored \in Nat /\ accounts[q.email].password \in Nat
    BY <1>1, SignInAssumption DEF AttemptOK, Attempt, Passwords, Inv, AccountsOK
  <2>2. \/ accounts'[q.email].password = accounts[q.email].password
        \/ accounts'[q.email].password = accounts[q.email].password + 1
    BY <1>1 DEF Onward
  <2> QED
    BY <1>1, <2>1, <2>2
<1> QED
  BY <1>1 DEF AttemptOK

(* The locals of a request move with its program counter; those of the     *)
(* others stay.                                                            *)
LEMMA AttemptStep ==
    ASSUME Inv, Next
    PROVE  AttemptsOK'
<1> USE DEF At, Goto
<1>1. /\ attempts \in [Attempts -> Attempt]
      /\ \A a \in Attempts : AttemptOK(attempts[a], accounts)
      /\ accounts \in [Known -> [password : Passwords, active : BOOLEAN, changed : Nat]]
      /\ Onward
  BY AccountStep DEF Inv, AttemptsOK, AccountsOK
<1>2. \A a \in Attempts : AttemptOK(attempts[a], accounts')
  BY <1>1, AttemptLasts
<1>3. AttemptOK(Idle, accounts') /\ Idle \in Attempt /\ Idle.pc = "idle"
  BY SignInAssumption DEF AttemptOK, Idle, Attempt, Passwords
<1>4. Attempt' = Attempt
  BY DEF Attempt, Passwords
<1>5. ASSUME NEW a \in Attempts, NEW q, AttemptOK(q, accounts'), Goto(a, q)
      PROVE  AttemptsOK'
  <2>1. q \in Attempt
    BY <1>5 DEF AttemptOK
  <2>2. attempts' \in [Attempts -> Attempt]
    BY <1>1, <1>5, <2>1
  <2>3. \A b \in Attempts : AttemptOK(attempts'[b], accounts')
    BY <1>1, <1>2, <1>5
  <2> QED
    BY <1>4, <2>2, <2>3 DEF AttemptsOK, AttemptOK
<1>6. ASSUME attempts' = attempts
      PROVE  AttemptsOK'
  BY <1>1, <1>2, <1>4, <1>6 DEF AttemptsOK, AttemptOK
<1>7. ASSUME NEW a \in Attempts, NEW i \in Clients, NEW x \in Headers, NEW e \in Emails,
             NEW g \in Passwords, Ask(a, i, x, e, g)
      PROVE  AttemptsOK'
  <2> DEFINE q == [Idle EXCEPT !.pc = "read", !.from = i, !.ip = Ip(i, x),
                               !.email = e, !.guess = g]
  <2>1. Ip(i, x) = i /\ i \in Addresses
    BY IpIsOwn, SignInAssumption
  <2>2. Goto(a, q)
    BY <1>7 DEF Ask
  <2>3. /\ q.pc = "read" /\ q.from = i /\ q.ip = i /\ q.email = e
        /\ q.stored = NoHash /\ q.active = FALSE
    BY <2>1 DEF Idle
  <2>a. q \in Attempt
    BY <1>3, <2>1 DEF Attempt
  <2>4. AttemptOK(q, accounts')
    BY <2>3, <2>a DEF AttemptOK
  <2> HIDE DEF q
  <2> QED
    BY <1>5, <2>2, <2>4
<1>8. ASSUME NEW a \in Attempts, ReadAccount(a)
      PROVE  AttemptsOK'
  <2> DEFINE p == attempts[a]
  <2>1. /\ p \in Attempt /\ p.pc = "read" /\ p.email \in Emails
        /\ p.from \in Clients /\ p.ip = p.from /\ AttemptOK(p, accounts')
        /\ accounts' = accounts
    BY <1>1, <1>2, <1>8 DEF ReadAccount, AttemptOK
  <2>2. CASE p.email \in Known
    <3> DEFINE acc == accounts[p.email]
               q == [p EXCEPT !.pc = "compare", !.stored = acc.password,
                              !.active = acc.active]
    <3>1. acc.password \in Passwords /\ acc.active \in BOOLEAN
      BY <1>1, <2>2
    <3>2. Goto(a, q)
      BY <1>8, <2>2 DEF ReadAccount
    <3>3. acc.password \in Int /\ acc.password # NoHash
      BY <3>1, NoHashAssumption, SignInAssumption DEF Passwords
    <3>4. q \in Attempt
      BY <2>1, <3>1 DEF Attempt
    <3>5. /\ q.pc = "compare" /\ q.email = p.email /\ q.from = p.from /\ q.ip = p.ip
          /\ q.stored = acc.password
      BY <2>1 DEF Attempt
    <3>6. AttemptOK(q, accounts')
      BY <2>1, <2>2, <3>3, <3>4, <3>5 DEF AttemptOK
    <3> HIDE DEF q
    <3> QED
      BY <1>5, <3>2, <3>6
  <2>3. CASE p.email \notin Known
    <3> DEFINE q == [p EXCEPT !.pc = "compare"]
    <3>1. Goto(a, q)
      BY <1>8, <2>3 DEF ReadAccount
    <3>2. AttemptOK(q, accounts')
      BY <2>1, <2>3 DEF AttemptOK, Attempt
    <3> HIDE DEF q
    <3> QED
      BY <1>5, <3>1, <3>2
  <2> QED
    BY <2>2, <2>3
<1>9. ASSUME NEW a \in Attempts, Refuse(a) \/ Accept(a) \/ SignAgain(a) \/ Abort(a)
      PROVE  AttemptsOK'
  <2>1. Goto(a, Idle)
    BY <1>9 DEF Refuse, Accept, SignAgain, Abort
  <2> QED
    BY <1>3, <1>5, <2>1
<1>10. ASSUME NEW a \in Attempts, NEW t \in sessions, NEW g \in Passwords,
              StartChange(a, t, g)
       PROVE  AttemptsOK'
  <2>1. t.email \in Known /\ t.email \in Emails
    BY SignInAssumption DEF Inv, SessionsOK, TokenOK, Token
  <2>2. PICK pc \in {"current", "store"} :
            Goto(a, [Idle EXCEPT !.pc = pc, !.email = t.email, !.guess = g])
    BY <1>10 DEF StartChange
  <2> DEFINE q == [Idle EXCEPT !.pc = pc, !.email = t.email, !.guess = g]
  <2>3. /\ q.pc = pc /\ q.email = t.email
        /\ q.stored = NoHash /\ q.active = FALSE
    BY DEF Idle
  <2>a. q \in Attempt
    BY <1>3, <2>1 DEF Attempt
  <2>4. AttemptOK(q, accounts')
    BY <2>1, <2>3, <2>a DEF AttemptOK
  <2> HIDE DEF q
  <2>5. Goto(a, q)
    BY <2>2 DEF q
  <2> QED
    BY <1>5, <2>4, <2>5
<1>11. ASSUME NEW a \in Attempts, CheckCurrent(a)
       PROVE  AttemptsOK'
  <2> DEFINE p == attempts[a]
             q == [p EXCEPT !.pc = "store"]
  <2>1. Goto(a, q) \/ Goto(a, Idle)
    BY <1>11 DEF CheckCurrent
  <2>2. AttemptOK(p, accounts') /\ p.pc = "current"
    BY <1>2, <1>11 DEF CheckCurrent
  <2>3. AttemptOK(q, accounts')
    BY <2>2 DEF AttemptOK, Attempt
  <2> HIDE DEF q
  <2> QED
    BY <1>3, <1>5, <2>1, <2>3
<1>12. ASSUME NEW a \in Attempts, StorePassword(a)
       PROVE  AttemptsOK'
  <2> DEFINE p == attempts[a]
             new == accounts[p.email].password + 1
             q == [p EXCEPT !.pc = "sign", !.stored = new]
  <2>1. /\ AttemptOK(p, accounts') /\ p.pc = "store"
        /\ p.email \in Known /\ p.email \in Emails /\ Goto(a, q)
    BY <1>1, <1>2, <1>12 DEF StorePassword, AttemptOK
  <2>2. /\ accounts[p.email].password \in 0..MaxChanges
        /\ accounts[p.email].password < MaxChanges
        /\ accounts' = [accounts EXCEPT ![p.email].password = @ + 1,
                                        ![p.email].changed = clock]
    BY <1>1, <1>12, <2>1 DEF StorePassword, SetPassword, Passwords
  <2>3. new \in Passwords /\ new # NoHash /\ new \in Nat
    BY <2>2, NoHashAssumption, SignInAssumption DEF Passwords
  <2>4. accounts'[p.email].password = new
    BY <1>1, <2>1, <2>2
  <2>5. q \in Attempt
    BY <2>1, <2>3 DEF AttemptOK, Attempt
  <2>6. q.pc = "sign" /\ q.email = p.email /\ q.stored = new /\ q.active = p.active
    BY <2>1 DEF AttemptOK, Attempt
  <2>7. AttemptOK(q, accounts')
    BY <2>1, <2>3, <2>4, <2>5, <2>6 DEF AttemptOK
  <2> HIDE DEF q
  <2> QED
    BY <1>5, <2>1, <2>7
<1>13. CASE Restart
  <2>1. attempts' = [a \in Attempts |-> Idle] /\ accounts' = accounts
    BY <1>13 DEF Restart
  <2>2. \A a \in Attempts : attempts'[a] = Idle
    BY <2>1
  <2> QED
    BY <1>3, <1>4, <2>1, <2>2 DEF AttemptsOK, AttemptOK
<1>14. CASE \/ \E i \in Clients, x \in Headers, e \in Emails : TurnAway(i, x, e)
            \/ \E t \in sessions : Logout(t)
            \/ \E e \in Known : ResetPassword(e)
            \/ \E e \in Known, b \in BOOLEAN : SetActive(e, b)
            \/ Tick
  BY <1>6, <1>14 DEF TurnAway, Logout, ResetPassword, SetActive, Tick
<1> QED
  BY <1>7, <1>8, <1>9, <1>10, <1>11, <1>12, <1>13, <1>14 DEF Next, Step

(* A token that is sound stays so: after a change it names an old password. *)
LEMMA TokenLasts ==
    ASSUME Inv, Onward, NEW t, TokenOK(t, accounts, clock)
    PROVE  TokenOK(t, accounts', clock')
<1>1. /\ t \in Token /\ t.email \in Known /\ t.iat \in Nat /\ t.password \in Nat
      /\ accounts[t.email].password \in Nat /\ clock \in Nat
  BY SignInAssumption DEF TokenOK, Token, Passwords, Inv, AccountsOK, CountsOK
<1>2. CASE /\ accounts'[t.email].password = accounts[t.email].password
           /\ accounts'[t.email].changed = accounts[t.email].changed
  BY <1>1, <1>2 DEF TokenOK, Onward
<1>3. CASE accounts'[t.email].password = accounts[t.email].password + 1
  <2>1. /\ t.iat <= clock /\ clock <= clock' /\ clock' \in Nat
        /\ t.password <= accounts[t.email].password
    BY DEF TokenOK, Onward
  <2>2. /\ t.iat <= clock' /\ t.password <= accounts'[t.email].password
        /\ t.password # accounts'[t.email].password
    BY <1>1, <1>3, <2>1
  <2> QED
    BY <1>1, <2>2 DEF TokenOK
<1> QED
  BY <1>1, <1>2, <1>3 DEF Onward

(* Every token in a browser is sound: the one a step signs, and the others *)
(* as the accounts change.                                                 *)
LEMMA SessionStep ==
    ASSUME Inv, Next
    PROVE  SessionsOK'
<1>1. /\ Onward
      /\ \A t \in sessions : TokenOK(t, accounts', clock')
  BY AccountStep, TokenLasts DEF Inv, SessionsOK
<1>2. ASSUME NEW a \in Attempts, Accept(a) \/ SignAgain(a)
      PROVE  SessionsOK'
  <2> DEFINE q == attempts[a]
             t == [email |-> q.email, iat |-> clock, password |-> q.stored]
  <2>1. sessions' = sessions \cup {t} /\ accounts' = accounts /\ clock' = clock
    BY <1>2 DEF Accept, SignAgain, SignToken
  <2>2. q \in Attempt /\ (q.pc = "sign" \/ q.active) /\ AttemptOK(q, accounts) /\ q.pc # "idle"
    BY <1>2 DEF Accept, SignAgain, At, Correct, Inv, AttemptsOK
  <2>3. q.email \in Known /\ q.stored # NoHash /\ q.stored <= accounts[q.email].password
    BY <2>2 DEF AttemptOK
  <2>4. q.stored \in Passwords /\ clock \in Nat /\ accounts[q.email].changed <= clock
    BY <2>2, <2>3 DEF Attempt, Inv, AccountsOK, CountsOK
  <2>5. TokenOK(t, accounts, clock)
    BY <2>3, <2>4 DEF TokenOK, Token
  <2> HIDE DEF t
  <2> QED
    BY <1>1, <2>1, <2>5 DEF SessionsOK
<1>3. ASSUME sessions' \subseteq sessions
      PROVE  SessionsOK'
  BY <1>1, <1>3 DEF SessionsOK
<1>4. ASSUME NEW a \in Attempts, Step(a), ~(Accept(a) \/ SignAgain(a))
      PROVE  SessionsOK'
  BY <1>3, <1>4 DEF Step, Ask, ReadAccount, Refuse, StartChange, CheckCurrent,
         StorePassword, Abort
<1>5. CASE ~\E a \in Attempts : Step(a)
  <2>1. sessions' \subseteq sessions
    BY <1>5 DEF Next, TurnAway, Logout, ResetPassword, SetActive, Restart, Tick
  <2> QED
    BY <1>3, <2>1
<1> QED
  BY <1>2, <1>4, <1>5

LEMMA InvStep == Inv /\ [Next]_vars => Inv'
<1>1. ASSUME Inv, Next PROVE Inv'
  BY <1>1, CountStep, AccountStep, LimiterStep, AttemptStep, SessionStep DEF Inv
<1>2. ASSUME Inv, UNCHANGED vars PROVE Inv'
  BY <1>2 DEF Inv, vars, CountsOK, AccountsOK, AttemptsOK, AttemptOK, Attempt,
         SessionsOK, TokenOK, Token, Sound, Counters, Passwords
<1> QED
  BY <1>1, <1>2

(* The invariant holds through every login, change, restart and tick.      *)
THEOREM SignInInvariant == Spec => []Inv
  BY InitInv, InvStep, PTL DEF Spec

(* Types; a request counts the address its client really has, a token      *)
(* names a password the account has had.                                   *)
THEOREM TypeCorrect == Spec => []TypeOK
  BY InvImplies, SignInInvariant, PTL

(* However many addresses and e-mails are tried, the limiter keeps at most *)
(* MaxKeys keys (limiter.rs record_failure).                               *)
THEOREM LimiterBounded == Spec => []MemoryBounded
  BY InvImplies, SignInInvariant, PTL

(* The session that holds the present password is never refused for a      *)
(* change of password, however logins and changes interleave               *)
(* (auth.rs:191).                                                          *)
THEOREM CurrentSessionsStay == Spec => []CurrentSessionsHonoured
  BY InvImplies, SignInInvariant, PTL

(* A change of password ends the sessions of earlier seconds, for good:    *)
(* password_changed_at never goes back (auth.rs:191, users.rs, auth.rs     *)
(* password).                                                              *)
THEOREM EndedForGood == Spec => SessionsEndForGood
<1> DEFINE A == \A t \in sessions :
                  \/ Outdated(t)
                  \/ /\ accounts'[t.email].password # accounts[t.email].password
                     /\ t.iat < clock
                  => Outdated(t)'
<1>1. ASSUME Inv, Next PROVE A
  <2> SUFFICES ASSUME NEW t \in sessions,
                      \/ Outdated(t)
                      \/ /\ accounts'[t.email].password # accounts[t.email].password
                         /\ t.iat < clock
               PROVE  Outdated(t)'
    OBVIOUS
  <2>1. t.email \in Known /\ t.iat \in Nat
    BY <1>1 DEF Inv, SessionsOK, TokenOK, Token
  <2>2. /\ accounts[t.email].changed \in Nat /\ clock \in Nat
        /\ accounts[t.email].changed <= clock
    BY <1>1, <2>1 DEF Inv, AccountsOK, CountsOK
  <2>3. \/ /\ accounts'[t.email].password = accounts[t.email].password
           /\ accounts'[t.email].changed = accounts[t.email].changed
        \/ accounts'[t.email].changed = clock
    BY <1>1, <2>1, AccountStep DEF Onward
  <2> QED
    BY <2>1, <2>2, <2>3 DEF Outdated
<1> QED
  BY <1>1, SignInInvariant, PTL DEF Spec, SessionsEndForGood

-------------------------------------------------------------------------------
(* Whom a lock turns away: a live counter never exceeds the failures       *)
(* recorded of its own client since its window opened.                     *)

(* One member for each failure of a client, an e-mail and a second.        *)
Missed(f, m) == {m} \X (1..f[m])
MissedIn(f, M) == UNION {Missed(f, m) : m \in M}

Cells == Public \X Emails \X (0..MaxClock)

(* The e-mails that a key counts, and where its failures are to be found.  *)
Counting(k) == IF k[2] = AnyEmail THEN Emails ELSE {k[2]}
Since(i, S, s) == {i} \X S \X (s..MaxClock)

Backed(map, f, now) ==
    \A k \in DOMAIN map : ~Expired(map, k, now) =>
        map[k].count <=
            Cardinality(MissedIn(f, Since(k[1], Counting(k), map[k].since)))

(* RecentMisses on any cells.                                              *)
Total(f, S) == MapThenSumSet(LAMBDA m : f[m], S)

(* Of one cell, as many as its number.                                     *)
LEMMA MissedCount ==
    ASSUME NEW f, NEW m, f[m] \in Nat
    PROVE  IsFiniteSet(Missed(f, m)) /\ Cardinality(Missed(f, m)) = f[m]
<1>1. IsFiniteSet(1..f[m]) /\ Cardinality(1..f[m]) = f[m]
  BY FS_Interval
<1>2. IsFiniteSet({m}) /\ Cardinality({m}) = 1
  BY FS_Singleton
<1>3. /\ IsFiniteSet(Missed(f, m))
      /\ Cardinality(Missed(f, m)) = Cardinality({m}) * Cardinality(1..f[m])
  BY <1>1, <1>2, FS_Product DEF Missed
<1> QED
  BY <1>1, <1>2, <1>3

(* Of finitely many cells, finitely many.                                  *)
LEMMA MissedFinite ==
    ASSUME NEW f, NEW M, IsFiniteSet(M), \A m \in M : f[m] \in Nat
    PROVE  IsFiniteSet(MissedIn(f, M)) /\ Cardinality(MissedIn(f, M)) \in Nat
<1>1. IsFiniteSet({Missed(f, m) : m \in M})
  <2> DEFINE g == [m \in M |-> Missed(f, m)]
  <2>1. g \in Surjection(M, {Missed(f, m) : m \in M})
    BY DEF Surjection
  <2> HIDE DEF g
  <2> QED
    BY <2>1, FS_Surjection
<1>2. \A T \in {Missed(f, m) : m \in M} : IsFiniteSet(T)
  BY MissedCount
<1> QED
  BY <1>1, <1>2, FS_UNION, FS_CardinalityType DEF MissedIn

(* A sum is the number of failures it adds up. The fold is a recursive     *)
(* function: cardinalities satisfy its equation, and a smallest set on     *)
(* which another solution differed would not be one.                       *)
LEMMA SumCounts ==
    ASSUME NEW f, NEW S, IsFiniteSet(S), \A m \in S : f[m] \in Nat
    PROVE  Total(f, S) = Cardinality(MissedIn(f, S))
<1> DEFINE Pick(s) == CHOOSE x \in s : TRUE
           All(s) == MissedIn(f, s)
           Value(g, s) == IF s = {} THEN 0
                         ELSE f[Pick(s)] + g[s \ {Pick(s)}]
           Equation(g) == g = [s \in SUBSET S |-> Value(g, s)]
           G == [s \in SUBSET S |-> Cardinality(All(s))]
<1>1. Total(f, S) = (CHOOSE g : Equation(g))[S]
  BY DEF Total, MapThenSumSet, MapThenFoldSet
<1>2. ASSUME NEW s \in SUBSET S, s # {}
      PROVE  /\ Pick(s) \in s /\ s \ {Pick(s)} \in SUBSET S
             /\ s \ {Pick(s)} # s /\ s \ {Pick(s)} \subseteq s
  <2>1. Pick(s) \in s
    BY <1>2
  <2> HIDE DEF Pick
  <2> QED
    BY <2>1
<1>3. ASSUME NEW s \in SUBSET S
      PROVE  IsFiniteSet(All(s)) /\ Cardinality(All(s)) \in Nat
  <2>1. IsFiniteSet(s)
    BY FS_Subset
  <2> QED
    BY <2>1, MissedFinite
<1>4. ASSUME NEW s \in SUBSET S, s # {}
      PROVE  Cardinality(All(s)) = Value(G, s)
  <2> DEFINE x == Pick(s)
             r == s \ {x}
  <2>1. x \in s /\ r \in SUBSET S
    BY <1>2, <1>4
  <2> HIDE DEF x
  <2>2. All(s) = Missed(f, x) \cup All(r)
    BY <2>1 DEF MissedIn
  <2>3. Missed(f, x) \cap All(r) = {}
    BY <2>1 DEF MissedIn, Missed
  <2>4. IsFiniteSet(Missed(f, x)) /\ Cardinality(Missed(f, x)) = f[x]
    BY <2>1, MissedCount
  <2>5. IsFiniteSet(All(r)) /\ Cardinality(All(r)) \in Nat /\ f[x] \in Nat
    BY <1>3, <2>1
  <2>6. Cardinality(All(s)) = Cardinality(Missed(f, x)) + Cardinality(All(r)) - Cardinality({})
    <3> HIDE DEF All, r
    <3>1. Cardinality(Missed(f, x) \cup All(r))
            = Cardinality(Missed(f, x)) + Cardinality(All(r)) - Cardinality(Missed(f, x) \cap All(r))
      BY <2>4, <2>5, FS_Union
    <3> QED
      BY <2>2, <2>3, <3>1
  <2> HIDE DEF All
  <2>7. Cardinality({}) = 0
    BY FS_EmptySet
  <2>8. Cardinality(All(s)) = Cardinality(Missed(f, x)) + Cardinality(All(r))
    BY <2>4, <2>5, <2>6, <2>7
  <2>9. Value(G, s) = f[x] + G[r]
    BY <1>4 DEF x
  <2>10. G[r] = Cardinality(All(r))
    BY <2>1
  <2> QED
    BY <2>1, <2>4, <2>8, <2>9, <2>10
<1>5. Equation(G)
  <2>1. All({}) = {}
    BY DEF MissedIn
  <2>2. \A s \in SUBSET S : Cardinality(All(s)) = Value(G, s)
    <3> TAKE s \in SUBSET S
    <3>1. CASE s = {}
      BY <2>1, <3>1, FS_EmptySet
    <3>2. CASE s # {}
      BY <1>4, <3>2
    <3> QED
      BY <3>1, <3>2
  <2> HIDE DEF Value, All
  <2> QED
    BY <2>2
<1>6. ASSUME NEW g, Equation(g)
      PROVE  g[S] = G[S]
  <2> DEFINE T == {s \in SUBSET S : g[s] # G[s]}
  <2>1. SUFFICES ASSUME T # {} PROVE FALSE
    BY <2>1
  <2>2. PICK s \in T : \A y \in T : <<y, s>> \notin StrictSubsetOrdering(S)
    <3>1. IsWellFoundedOn(StrictSubsetOrdering(S), SUBSET S)
      BY FS_StrictSubsetOrderingWellFounded, FS_FiniteSubsetsOfFinite
    <3>2. T \subseteq SUBSET S
      OBVIOUS
    <3> HIDE DEF T
    <3> QED
      BY <2>1, <3>1, <3>2, WFMin
  <2>3. s \in SUBSET S /\ g[s] # G[s]
    OBVIOUS
  <2>4. \A y \in SUBSET S : y # s /\ y \subseteq s => g[y] = G[y]
    BY <2>2, <2>3 DEF StrictSubsetOrdering
  <2>5. g[s] = Value(g, s) /\ G[s] = Value(G, s)
    <3> HIDE DEF Value, G
    <3> QED
      BY <1>5, <1>6, <2>3
  <2>6. Value(g, s) = Value(G, s)
    <3>1. CASE s = {}
      BY <3>1
    <3>2. CASE s # {}
      <4>1. g[s \ {Pick(s)}] = G[s \ {Pick(s)}]
        <5> HIDE DEF Pick, G
        <5> QED
          BY <1>2, <2>3, <2>4, <3>2
      <4> HIDE DEF Pick, G
      <4> QED
        BY <3>2, <4>1
    <3> QED
      BY <3>1, <3>2
  <2> QED
    BY <2>3, <2>5, <2>6
<1>7. Equation(CHOOSE g : Equation(g))
  <2> HIDE DEF Equation, G
  <2> QED
    BY <1>5
<1>8. Total(f, S) = G[S]
  <2> HIDE DEF Equation, G
  <2> QED
    BY <1>1, <1>6, <1>7
<1>9. G[S] = Cardinality(All(S))
  OBVIOUS
<1> QED
  BY <1>8, <1>9


(* The cells of a window are finitely many, and are cells.                 *)
LEMMA SinceFinite ==
    ASSUME NEW i \in Public, NEW S \in SUBSET Emails, NEW s \in Nat
    PROVE  IsFiniteSet(Since(i, S, s)) /\ Since(i, S, s) \subseteq Cells
<1>1. IsFiniteSet({i}) /\ IsFiniteSet(S)
  BY FS_Singleton, FS_Subset, EmailsAssumption
<1>2. IsFiniteSet(s..MaxClock)
  BY FS_Interval, SignInAssumption
<1>3. IsFiniteSet({i} \X S)
  BY <1>1, FS_Product
<1>4. IsFiniteSet(({i} \X S) \X (s..MaxClock))
  BY <1>2, <1>3, FS_Product
<1>5. IsFiniteSet(Since(i, S, s))
  <2> DEFINE g == [p \in ({i} \X S) \X (s..MaxClock) |-> <<p[1][1], p[1][2], p[2]>>]
  <2>1. g \in [({i} \X S) \X (s..MaxClock) -> Since(i, S, s)]
    BY DEF Since
  <2>2. \A m \in Since(i, S, s) : \E p \in ({i} \X S) \X (s..MaxClock) : g[p] = m
    <3> TAKE m \in Since(i, S, s)
    <3>1. m = <<m[1], m[2], m[3]>> /\ m[1] \in {i} /\ m[2] \in S /\ m[3] \in s..MaxClock
      BY DEF Since
    <3>2. <<<<m[1], m[2]>>, m[3]>> \in ({i} \X S) \X (s..MaxClock)
      BY <3>1
    <3>3. g[<<<<m[1], m[2]>>, m[3]>>] = m
      BY <3>1, <3>2
    <3> QED
      BY <3>2, <3>3
  <2>3. g \in Surjection(({i} \X S) \X (s..MaxClock), Since(i, S, s))
    <3> HIDE DEF g
    <3> QED
      BY <2>1, <2>2 DEF Surjection
  <2> QED
    BY <1>4, <2>3, FS_Surjection
<1>6. Since(i, S, s) \subseteq Cells
  BY SignInAssumption DEF Since, Cells
<1> QED
  BY <1>5, <1>6

(* One more failure is found in the cells that hold it, and no other is    *)
(* lost.                                                                   *)
LEMMA MissAdds ==
    ASSUME NEW f \in [Cells -> Nat], NEW o \in Cells, NEW M \in SUBSET Cells,
           IsFiniteSet(M)
    PROVE  LET g == [f EXCEPT ![o] = @ + 1] IN
           Cardinality(MissedIn(g, M))
             >= Cardinality(MissedIn(f, M)) + (IF o \in M THEN 1 ELSE 0)
<1> DEFINE g == [f EXCEPT ![o] = @ + 1]
<1>1. g \in [Cells -> Nat] /\ g[o] = f[o] + 1 /\ \A m \in Cells \ {o} : g[m] = f[m]
  OBVIOUS
<1> HIDE DEF g
<1>2. /\ IsFiniteSet(MissedIn(f, M)) /\ Cardinality(MissedIn(f, M)) \in Nat
      /\ IsFiniteSet(MissedIn(g, M)) /\ Cardinality(MissedIn(g, M)) \in Nat
  <2>1. \A m \in M : f[m] \in Nat /\ g[m] \in Nat
    BY <1>1
  <2> QED
    BY <2>1, MissedFinite
<1>3. \A m \in Cells : 1..f[m] \subseteq 1..g[m]
  <2>1. \A m \in Cells : f[m] \in Nat /\ g[m] \in Nat /\ f[m] <= g[m]
    BY <1>1
  <2> QED
    BY <2>1
<1>4. MissedIn(f, M) \subseteq MissedIn(g, M)
  BY <1>3 DEF MissedIn, Missed
<1>5. CASE o \notin M
  <2>1. MissedIn(f, M) \in SUBSET MissedIn(g, M)
    BY <1>4
  <2>2. Cardinality(MissedIn(f, M)) <= Cardinality(MissedIn(g, M))
    BY <1>2, <2>1, FS_Subset
  <2> QED
    BY <1>2, <1>5, <2>2 DEF g
<1>6. CASE o \in M
  <2> DEFINE last == <<o, f[o] + 1>>
  <2>1. f[o] \in Nat
    OBVIOUS
  <2>2. last \in MissedIn(g, M)
    <3>1. f[o] + 1 \in 1..g[o]
      BY <1>1, <2>1
    <3> QED
      BY <1>6, <3>1 DEF MissedIn, Missed
  <2>3. last \notin MissedIn(f, M)
    <3>1. f[o] + 1 \notin 1..f[o]
      BY <2>1
    <3> QED
      BY <3>1 DEF MissedIn, Missed
  <2> HIDE DEF last
  <2>4. /\ IsFiniteSet(MissedIn(f, M) \cup {last})
        /\ Cardinality(MissedIn(f, M) \cup {last}) = Cardinality(MissedIn(f, M)) + 1
    BY <1>2, <2>3, FS_AddElement
  <2>5. MissedIn(f, M) \cup {last} \in SUBSET MissedIn(g, M)
    BY <1>4, <2>2
  <2>6. Cardinality(MissedIn(f, M) \cup {last}) <= Cardinality(MissedIn(g, M))
    BY <1>2, <2>5, FS_Subset
  <2> QED
    BY <1>2, <1>6, <2>4, <2>6 DEF g
<1> QED
  BY <1>5, <1>6

(* Of a key, the client, the e-mails and the cells.                        *)
LEMMA KeyCells ==
    ASSUME NEW k \in Counters, NEW s \in Nat
    PROVE  /\ k[1] \in Public /\ Counting(k) \in SUBSET Emails
           /\ Since(k[1], Counting(k), s) \in SUBSET Cells
           /\ IsFiniteSet(Since(k[1], Counting(k), s))
<1>1. k[1] \in Public /\ Counting(k) \in SUBSET Emails
  BY SignInAssumption DEF Counters, Counting
<1> QED
  BY <1>1, SinceFinite

(* A limiter that forgets is still backed.                                 *)
LEMMA FewerBacked ==
    ASSUME NEW map, NEW f, NEW now, Backed(map, f, now), NEW keys
    PROVE  Backed(Without(map, keys), f, now)
<1>1. /\ DOMAIN Without(map, keys) = DOMAIN map \ keys
      /\ \A k \in DOMAIN map \ keys : Without(map, keys)[k] = map[k]
  BY DEF Without
<1> QED
  BY <1>1 DEF Backed, Expired

(* A failure is counted by at most the keys of its own client and e-mail,  *)
(* and recorded once for both.                                             *)
LEMMA RecordedBacked ==
    ASSUME NEW map, NEW f \in [Cells -> Nat], NEW now \in 0..MaxClock,
           Sound(map, Counters, now), Backed(map, f, now),
           NEW i \in Clients, NEW e \in Emails, NEW new \in Recorded(map, i, e, now)
    PROVE  Backed(new, [f EXCEPT ![<<i, e, now>>] = @ + 1], now)
<1> DEFINE o == <<i, e, now>>
           g == [f EXCEPT ![o] = @ + 1]
           Of(h, k, s) == Cardinality(MissedIn(h, Since(k[1], Counting(k), s)))
<1>1. o \in Cells /\ now \in Nat /\ MaxClock \in Nat
  BY SignInAssumption DEF Cells
<1>2. g \in [Cells -> Nat]
  BY <1>1
<1>3. Pair(i, e) \subseteq Counters
  BY DEF Pair, Counters
<1>4. Sound(new, Counters, now)
  BY <1>1, <1>3, RecordedSound
<1>5. \A k \in Counters, s \in Nat :
          /\ Of(f, k, s) \in Nat /\ Of(g, k, s) \in Nat
          /\ Of(g, k, s) >= Of(f, k, s)
                + (IF o \in Since(k[1], Counting(k), s) THEN 1 ELSE 0)
  <2> TAKE k \in Counters, s \in Nat
  <2> DEFINE M == Since(k[1], Counting(k), s)
  <2>1. M \in SUBSET Cells /\ IsFiniteSet(M)
    BY KeyCells
  <2> HIDE DEF M
  <2>2. /\ Cardinality(MissedIn(f, M)) \in Nat /\ Cardinality(MissedIn(g, M)) \in Nat
    <3>1. \A m \in M : f[m] \in Nat /\ g[m] \in Nat
      BY <1>2, <2>1
    <3> QED
      BY <2>1, <3>1, MissedFinite
  <2>3. Cardinality(MissedIn(g, M)) >=
            Cardinality(MissedIn(f, M)) + (IF o \in M THEN 1 ELSE 0)
    BY <1>1, <2>1, MissAdds
  <2> QED
    BY <2>2, <2>3 DEF M
<1>6. \A k \in Pair(i, e), s \in 0..now : o \in Since(k[1], Counting(k), s)
  BY <1>1 DEF Pair, Counting, Since
<1> HIDE DEF o, g
<1>7. ASSUME NEW k \in DOMAIN new, ~Expired(new, k, now)
      PROVE  new[k].count <= Of(g, k, new[k].since)
  <2>1. /\ k \in Counters /\ new[k].since \in Nat /\ new[k].count \in Nat
        /\ new[k].since <= now
    BY <1>4 DEF Sound, Failures
  <2>2. CASE k \notin Pair(i, e)
    <3>1. k \in DOMAIN map /\ new[k] = map[k]
      BY <1>1, <1>3, <2>2, RecordedEffect
    <3>2. new[k].count <= Of(f, k, new[k].since)
      BY <1>7, <3>1 DEF Backed, Expired
    <3>3. Of(f, k, new[k].since) <= Of(g, k, new[k].since)
      <4> HIDE DEF Of
      <4> QED
        BY <1>5, <2>1
    <3>4. Of(f, k, new[k].since) \in Nat /\ Of(g, k, new[k].since) \in Nat
      BY <1>5, <2>1
    <3> HIDE DEF Of
    <3> QED
      BY <2>1, <3>2, <3>3, <3>4
  <2>3. CASE k \in Pair(i, e)
    <3>1. /\ Of(f, k, new[k].since) \in Nat /\ Of(g, k, new[k].since) \in Nat
          /\ Of(g, k, new[k].since) >= Of(f, k, new[k].since) + 1
      <4>1. new[k].since \in 0..now
        BY <1>1, <2>1
      <4>2. o \in Since(k[1], Counting(k), new[k].since)
        BY <1>6, <2>3, <4>1
      <4> HIDE DEF Of
      <4> QED
        BY <1>5, <2>1, <4>2
    <3>2. \/ IsLive(map, k, now) /\ GoesOn(map, new, k, Pair(i, e))
          \/ new[k].count = 1
      BY <1>1, <1>3, <1>7, <2>3, RecordedEffect
    <3>3. CASE new[k].count = 1
      <4> HIDE DEF Of
      <4> QED
        BY <3>1, <3>3
    <3>4. CASE IsLive(map, k, now) /\ GoesOn(map, new, k, Pair(i, e))
      <4>1. /\ k \in DOMAIN map /\ map[k].count \in Nat
            /\ new[k].count = map[k].count + 1 /\ new[k].since = map[k].since
        BY <2>3, <3>4 DEF IsLive, GoesOn, Sound, Failures
      <4>2. map[k].count <= Of(f, k, map[k].since)
        BY <3>4, <4>1 DEF Backed, IsLive
      <4> HIDE DEF Of
      <4> QED
        BY <3>1, <4>1, <4>2
    <3> QED
      BY <3>2, <3>3, <3>4
  <2> QED
    BY <2>2, <2>3
<1> QED
  BY <1>7 DEF Backed, g, o

(* The failures of a window are kept as long as the window is open.        *)
LEMMA LaterBacked ==
    ASSUME NEW map, NEW f \in [Cells -> Nat], NEW now \in Nat, NEW later \in Nat,
           now <= later, Sound(map, Counters, now), Backed(map, f, now)
    PROVE  Backed(map, [m \in DOMAIN f |-> IF m[3] + Window > later THEN f[m] ELSE 0],
                  later)
<1> DEFINE g == [m \in DOMAIN f |-> IF m[3] + Window > later THEN f[m] ELSE 0]
<1>1. ASSUME NEW k \in DOMAIN map, ~Expired(map, k, later)
      PROVE  map[k].count <=
                Cardinality(MissedIn(g, Since(k[1], Counting(k), map[k].since)))
  <2> DEFINE M == Since(k[1], Counting(k), map[k].since)
  <2>1. k \in Counters /\ map[k].since \in Nat /\ Window \in Nat
    BY LimiterAssumption DEF Sound, Failures
  <2>2. map[k].since + Window > later
    BY <1>1, <2>1 DEF Expired
  <2>3. ~Expired(map, k, now)
    BY <2>1, <2>2 DEF Expired
  <2>4. M \in SUBSET Cells
    BY <2>1, KeyCells
  <2>5. \A m \in M : m[3] \in Nat /\ m[3] >= map[k].since
    BY <2>1, SignInAssumption DEF Since
  <2> HIDE DEF M
  <2>6. \A m \in M : g[m] = f[m]
    BY <2>1, <2>2, <2>4, <2>5
  <2> HIDE DEF g
  <2>7. MissedIn(g, M) = MissedIn(f, M)
    BY <2>6 DEF MissedIn, Missed
  <2>8. map[k].count <= Cardinality(MissedIn(f, M))
    BY <2>3 DEF Backed, M
  <2> QED
    BY <2>7, <2>8 DEF M
<1> QED
  BY <1>1 DEF Backed

LimiterBacked == Backed(limiter, misses, clock)

(* Every step keeps the counters backed.                                   *)
LEMMA BackedStep ==
    ASSUME Inv, LimiterBacked, [Next]_vars
    PROVE  LimiterBacked'
<1>1. /\ Sound(limiter, Counters, clock) /\ clock \in 0..MaxClock /\ clock \in Nat
      /\ misses \in [Cells -> Nat] /\ Backed(limiter, misses, clock)
  BY DEF Inv, CountsOK, Cells, LimiterBacked
<1>2. ASSUME NEW keys, limiter' = Without(limiter, keys), UNCHANGED <<clock, misses>>
      PROVE  LimiterBacked'
  <2>1. Backed(limiter', misses, clock)
    BY <1>1, <1>2, FewerBacked
  <2> QED
    BY <1>2, <2>1 DEF LimiterBacked, Backed, Expired, MissedIn, Missed, Since, Counting
<1>3. ASSUME limiter' = limiter, UNCHANGED <<clock, misses>>
      PROVE  LimiterBacked'
  BY <1>1, <1>3 DEF LimiterBacked, Backed, Expired, MissedIn, Missed, Since, Counting
<1>4. ASSUME NEW a \in Attempts, Refuse(a)
      PROVE  LimiterBacked'
  <2> DEFINE q == attempts[a]
  <2>1. q.from \in Clients /\ q.ip = q.from /\ q.email \in Emails
    BY <1>4 DEF Refuse, At, Inv, AttemptsOK, AttemptOK
  <2>2. /\ limiter' \in Recorded(limiter, q.from, q.email, clock)
        /\ misses' = [misses EXCEPT ![<<q.from, q.email, clock>>] = @ + 1]
        /\ clock' = clock
    BY <1>4, <2>1 DEF Refuse
  <2> HIDE DEF q
  <2>3. Backed(limiter', misses', clock)
    BY <1>1, <2>1, <2>2, RecordedBacked
  <2> QED
    BY <2>2, <2>3 DEF LimiterBacked
<1>5. CASE Tick
  <2>1. /\ limiter' = limiter /\ clock' \in Nat /\ clock <= clock'
        /\ misses' = [m \in DOMAIN misses |-> IF m[3] + Window > clock' THEN misses[m] ELSE 0]
    BY <1>1, <1>5 DEF Tick
  <2>2. Backed(limiter, misses', clock')
    BY <1>1, <2>1, LaterBacked
  <2> QED
    BY <2>1, <2>2 DEF LimiterBacked
<1>6. CASE Restart
  <2>1. limiter' = [k \in {} |-> 0]
    BY <1>6 DEF Restart
  <2>2. DOMAIN limiter' = {}
    BY <2>1
  <2> QED
    BY <2>2 DEF LimiterBacked, Backed
<1>7. ASSUME NEW a \in Attempts, Step(a), ~Refuse(a)
      PROVE  LimiterBacked'
  <2>1. CASE \E i \in Clients, x \in Headers, e \in Emails, g \in Passwords : Ask(a, i, x, e, g)
    BY <1>2, <2>1 DEF Ask, Swept
  <2>2. CASE Accept(a)
    BY <1>2, <2>2 DEF Accept
  <2>3. CASE \/ ReadAccount(a) \/ (\E t \in sessions, g \in Passwords : StartChange(a, t, g))
             \/ CheckCurrent(a) \/ StorePassword(a) \/ SignAgain(a) \/ Abort(a)
    BY <1>3, <2>3 DEF ReadAccount, StartChange, CheckCurrent, StorePassword, SignAgain, Abort
  <2> QED
    BY <1>7, <2>1, <2>2, <2>3 DEF Step
<1>8. CASE \E i \in Clients, x \in Headers, e \in Emails : TurnAway(i, x, e)
  BY <1>2, <1>8 DEF TurnAway, Swept
<1>9. CASE \/ \E t \in sessions : Logout(t)
           \/ \E e \in Known : ResetPassword(e)
           \/ \E e \in Known, b \in BOOLEAN : SetActive(e, b)
           \/ UNCHANGED vars
  BY <1>3, <1>9 DEF Logout, ResetPassword, SetActive, vars
<1> QED
  BY <1>4, <1>5, <1>6, <1>7, <1>8, <1>9 DEF Next

(* The counters are backed from the start on.                              *)
LEMMA BackedInvariant == Spec => []LimiterBacked
<1>1. Init => LimiterBacked
  <2> SUFFICES ASSUME Init PROVE LimiterBacked
    OBVIOUS
  <2>1. DOMAIN limiter = {}
    BY DEF Init
  <2> QED
    BY <2>1 DEF LimiterBacked, Backed
<1>2. Inv /\ LimiterBacked /\ [Next]_vars => LimiterBacked'
  BY BackedStep
<1> QED
  BY <1>1, <1>2, SignInInvariant, PTL DEF Spec

(* A client is turned away only for failures of its own, on that account   *)
(* or on all, within the last window: whoever else fails, whatever header  *)
(* is sent (limiter.rs locked_for, client_ip.rs).                          *)
THEOREM LockedOutForOwn == Spec => []OwnFailuresOnly
<1>1. Inv /\ LimiterBacked => OwnFailuresOnly
  <2> SUFFICES ASSUME Inv, LimiterBacked, NEW i \in Public, NEW e \in Emails,
                      Locked(limiter, i, e, clock)
               PROVE  \/ RecentMisses(i, {e}) >= MaxPerAccount
                      \/ RecentMisses(i, Emails) >= MaxPerIp
    BY DEF OwnFailuresOnly
  <2>1. PICK k \in Pair(i, e) : /\ IsLive(limiter, k, clock)
                                /\ limiter[k].count >= Limit(k)
    BY DEF Locked
  <2>2. /\ k \in DOMAIN limiter /\ k \in Counters /\ k[1] = i
        /\ limiter[k].since \in Nat /\ limiter[k].count \in Nat
    BY <2>1 DEF IsLive, Inv, Sound, Failures, Pair
  <2> DEFINE S == Counting(k)
             M == Since(i, S, limiter[k].since)
             N == Since(i, S, 0)
  <2>3. limiter[k].count <= Cardinality(MissedIn(misses, M))
    BY <2>1, <2>2 DEF LimiterBacked, Backed, IsLive
  <2>4. /\ M \in SUBSET Cells /\ IsFiniteSet(M)
        /\ N \in SUBSET Cells /\ IsFiniteSet(N)
        /\ S \in SUBSET Emails
    BY <2>2, KeyCells
  <2>5. M \subseteq N
    BY <2>2 DEF Since
  <2>6. RecentMisses(i, S) = Total(misses, N)
    BY DEF RecentMisses, Total, Since
  <2>7. S = IF k[2] = AnyEmail THEN Emails ELSE {e}
    BY LimiterAssumption DEF Counting, Pair
  <2>8. Limit(k) = IF k[2] = AnyEmail THEN MaxPerIp ELSE MaxPerAccount
    BY DEF Limit
  <2> HIDE DEF S, M, N
  <2>9. \A m \in Cells : misses[m] \in Nat
    BY DEF Inv, CountsOK, Cells
  <2>10. Total(misses, N) = Cardinality(MissedIn(misses, N))
    BY <2>4, <2>9, SumCounts
  <2>11. /\ IsFiniteSet(MissedIn(misses, N)) /\ Cardinality(MissedIn(misses, N)) \in Nat
         /\ Cardinality(MissedIn(misses, M)) \in Nat
    BY <2>4, <2>9, MissedFinite
  <2>12. MissedIn(misses, M) \in SUBSET MissedIn(misses, N)
    BY <2>5 DEF MissedIn
  <2>13. Cardinality(MissedIn(misses, M)) <= Cardinality(MissedIn(misses, N))
    BY <2>11, <2>12, FS_Subset
  <2>14. RecentMisses(i, S) >= Limit(k)
    BY <2>1, <2>2, <2>3, <2>6, <2>8, <2>10, <2>11, <2>13, LimiterAssumption
  <2> QED
    BY <2>7, <2>8, <2>14
<1> QED
  BY <1>1, BackedInvariant, SignInInvariant, PTL

-------------------------------------------------------------------------------
(* The refinement of Throttle. A counter and the attempts that were judged *)
(* by it and are not counted yet are together within the limit and the     *)
(* slots: each was let in while the counter was below its limit.           *)

SpentOf(map, k, now) == IF IsLive(map, k, now) THEN map[k].count ELSE 0
OpenedAt(map, k, now) == IF IsLive(map, k, now) THEN map[k].since ELSE 0

(* The attempts in flight that may still be counted by a key.              *)
Judged(table, k) ==
    {a \in Attempts : /\ table[a].pc \in {"read", "compare"}
                      /\ k \in Pair(table[a].ip, table[a].email)}

WithinRoom(map, table, now) ==
    \A k \in Counters :
        SpentOf(map, k, now) + Cardinality(Judged(table, k))
            <= Limit(k) - 1 + Cardinality(Attempts)

(* What the limiter shows of a key: positive exactly while it is live.     *)
LEMMA ViewType ==
    ASSUME NEW map, NEW now \in Nat, Sound(map, Counters, now), NEW k
    PROVE  /\ SpentOf(map, k, now) \in Nat /\ OpenedAt(map, k, now) \in Nat
           /\ SpentOf(map, k, now) > 0 <=> IsLive(map, k, now)
           /\ IsLive(map, k, now) =>
                 /\ k \in Counters /\ k \in DOMAIN map
                 /\ SpentOf(map, k, now) = map[k].count
                 /\ OpenedAt(map, k, now) = map[k].since
           /\ ~IsLive(map, k, now) =>
                 SpentOf(map, k, now) = 0 /\ OpenedAt(map, k, now) = 0
<1>1. CASE IsLive(map, k, now)
  <2>1. k \in DOMAIN map
    BY <1>1 DEF IsLive
  <2>2. k \in Counters /\ map[k].count \in Nat \ {0} /\ map[k].since \in Nat
    BY <2>1 DEF Sound, Failures
  <2> QED
    BY <1>1, <2>1, <2>2 DEF SpentOf, OpenedAt
<1>2. CASE ~IsLive(map, k, now)
  BY <1>2 DEF SpentOf, OpenedAt
<1> QED
  BY <1>1, <1>2

(* Sweeping does not show.                                                 *)
LEMMA SweptShowsNothing ==
    ASSUME NEW map, NEW keys, NEW now, NEW k
    PROVE  /\ SpentOf(Swept(map, keys, now), k, now) = SpentOf(map, k, now)
           /\ OpenedAt(Swept(map, keys, now), k, now) = OpenedAt(map, k, now)
<1> DEFINE swept == Swept(map, keys, now)
<1>1. /\ DOMAIN swept = DOMAIN map \ {l \in keys \cap DOMAIN map : Expired(map, l, now)}
      /\ \A l \in DOMAIN swept : swept[l] = map[l]
  BY DEF Swept, Without
<1> HIDE DEF swept
<1>2. IsLive(swept, k, now) <=> IsLive(map, k, now)
  BY <1>1 DEF IsLive, Expired
<1>3. IsLive(map, k, now) => swept[k] = map[k]
  BY <1>1, <1>2 DEF IsLive
<1> QED
  BY <1>2, <1>3 DEF SpentOf, OpenedAt, swept

(* A key that is removed shows nothing, the others show what they did.     *)
LEMMA WithoutShows ==
    ASSUME NEW map, NEW keys, NEW now, NEW k
    PROVE  /\ k \in keys => /\ SpentOf(Without(map, keys), k, now) = 0
                            /\ OpenedAt(Without(map, keys), k, now) = 0
           /\ k \notin keys =>
                 /\ SpentOf(Without(map, keys), k, now) = SpentOf(map, k, now)
                 /\ OpenedAt(Without(map, keys), k, now) = OpenedAt(map, k, now)
<1>1. /\ DOMAIN Without(map, keys) = DOMAIN map \ keys
      /\ \A l \in DOMAIN map \ keys : Without(map, keys)[l] = map[l]
  BY DEF Without
<1> QED
  BY <1>1 DEF SpentOf, OpenedAt, IsLive, Expired

(* No more attempts wait to be counted than there are slots.               *)
LEMMA JudgedCount ==
    ASSUME NEW table, NEW k
    PROVE  /\ IsFiniteSet(Judged(table, k)) /\ Cardinality(Judged(table, k)) \in Nat
           /\ Cardinality(Judged(table, k)) <= Cardinality(Attempts)
           /\ Cardinality(Attempts) \in Nat
<1>1. Judged(table, k) \in SUBSET Attempts
  BY DEF Judged
<1> QED
  BY <1>1, FS_Subset, FS_CardinalityType, SignInAssumption

(* Each limit lets at least one attempt in.                                *)
LEMMA LimitType == ASSUME NEW k PROVE Limit(k) \in Nat /\ Limit(k) >= 1
  BY LimiterAssumption DEF Limit

(* Fewer failures shown and fewer attempts in flight leave more room.      *)
LEMMA LessRoomTaken ==
    ASSUME NEW map, NEW table, NEW now \in Nat, Sound(map, Counters, now),
           WithinRoom(map, table, now),
           NEW new, NEW other, NEW later \in Nat, Sound(new, Counters, later),
           \A k \in Counters : /\ SpentOf(new, k, later) <= SpentOf(map, k, now)
                               /\ Judged(other, k) \subseteq Judged(table, k)
    PROVE  WithinRoom(new, other, later)
<1> SUFFICES ASSUME NEW k \in Counters
             PROVE  SpentOf(new, k, later) + Cardinality(Judged(other, k))
                      <= Limit(k) - 1 + Cardinality(Attempts)
  BY DEF WithinRoom
<1>1. /\ SpentOf(new, k, later) \in Nat /\ SpentOf(map, k, now) \in Nat
      /\ SpentOf(new, k, later) <= SpentOf(map, k, now)
  BY ViewType
<1>2. Judged(other, k) \in SUBSET Judged(table, k)
  OBVIOUS
<1>3. /\ Cardinality(Judged(other, k)) <= Cardinality(Judged(table, k))
      /\ Cardinality(Judged(other, k)) \in Nat /\ Cardinality(Judged(table, k)) \in Nat
      /\ Cardinality(Attempts) \in Nat /\ Limit(k) \in Nat
  BY <1>2, JudgedCount, LimitType, FS_Subset
<1>4. SpentOf(map, k, now) + Cardinality(Judged(table, k))
        <= Limit(k) - 1 + Cardinality(Attempts)
  BY DEF WithinRoom
<1> QED
  BY <1>1, <1>3, <1>4

RoomLeft == WithinRoom(limiter, attempts, clock)

(* A failure moves from the attempts in flight to the counters.            *)
LEMMA RefuseRoom ==
    ASSUME Inv, RoomLeft, NEW a \in Attempts, Refuse(a), Inv'
    PROVE  RoomLeft'
<1> DEFINE q == attempts[a]
           p == Pair(q.ip, q.email)
<1>1. /\ q.ip \in Clients /\ q.email \in Emails /\ q.pc = "compare"
      /\ limiter' \in Recorded(limiter, q.ip, q.email, clock) /\ clock' = clock
      /\ attempts' = [attempts EXCEPT ![a] = Idle]
  BY DEF Refuse, At, Goto, Inv, AttemptsOK, AttemptOK
<1>2. /\ Sound(limiter, Counters, clock) /\ Sound(limiter', Counters, clock)
      /\ clock \in Nat /\ attempts \in [Attempts -> Attempt]
      /\ p \subseteq Counters
  BY <1>1 DEF Inv, CountsOK, AttemptsOK, Pair, Counters, Sound
<1> SUFFICES ASSUME NEW k \in Counters
             PROVE  SpentOf(limiter', k, clock) + Cardinality(Judged(attempts', k))
                      <= Limit(k) - 1 + Cardinality(Attempts)
  BY <1>1 DEF RoomLeft, WithinRoom, Counters, Judged, Limit
<1>3. /\ SpentOf(limiter, k, clock) \in Nat /\ SpentOf(limiter', k, clock) \in Nat
      /\ Cardinality(Judged(attempts, k)) \in Nat /\ IsFiniteSet(Judged(attempts, k))
      /\ Cardinality(Judged(attempts', k)) \in Nat
      /\ Cardinality(Judged(attempts, k)) <= Cardinality(Attempts)
      /\ Cardinality(Attempts) \in Nat /\ Limit(k) \in Nat /\ Limit(k) >= 1
      /\ SpentOf(limiter, k, clock) + Cardinality(Judged(attempts, k))
            <= Limit(k) - 1 + Cardinality(Attempts)
  BY <1>2, ViewType, JudgedCount, LimitType DEF RoomLeft, WithinRoom
<1>4. attempts'[a].pc = "idle" /\ \A b \in Attempts \ {a} : attempts'[b] = attempts[b]
  BY <1>1, <1>2 DEF Idle
<1>5. Judged(attempts', k) = Judged(attempts, k) \ {a}
  BY <1>4 DEF Judged
<1> HIDE DEF q
<1>6. CASE k \in p
  <2>1. a \in Judged(attempts, k)
    BY <1>1, <1>6 DEF Judged, q
  <2>2. Cardinality(Judged(attempts', k)) = Cardinality(Judged(attempts, k)) - 1
    BY <1>3, <1>5, <2>1, FS_RemoveElement
  <2>3. SpentOf(limiter', k, clock) <= SpentOf(limiter, k, clock) + 1
    <3>1. CASE ~IsLive(limiter', k, clock)
      BY <1>3, <3>1 DEF SpentOf
    <3>2. CASE IsLive(limiter', k, clock)
      <4>1. k \in DOMAIN limiter' /\ SpentOf(limiter', k, clock) = limiter'[k].count
        BY <1>2, <3>2, ViewType
      <4>2. \/ IsLive(limiter, k, clock) /\ GoesOn(limiter, limiter', k, p)
            \/ limiter'[k].count = 1
        BY <1>1, <1>2, <1>6, <4>1, RecordedEffect
      <4>3. IsLive(limiter, k, clock) => SpentOf(limiter, k, clock) = limiter[k].count
        BY <1>2, ViewType
      <4> QED
        BY <1>3, <1>6, <4>1, <4>2, <4>3 DEF GoesOn
    <3> QED
      BY <3>1, <3>2
  <2> QED
    BY <1>3, <2>2, <2>3
<1>7. CASE k \notin p
  <2>1. SpentOf(limiter', k, clock) <= SpentOf(limiter, k, clock)
    <3>1. CASE ~IsLive(limiter', k, clock)
      BY <1>3, <3>1 DEF SpentOf
    <3>2. CASE IsLive(limiter', k, clock)
      <4>1. k \in DOMAIN limiter' \ p
        BY <1>7, <3>2 DEF IsLive
      <4>2. k \in DOMAIN limiter /\ limiter'[k] = limiter[k]
        BY <1>1, <1>2, <4>1, RecordedEffect
      <4>3. SpentOf(limiter', k, clock) = SpentOf(limiter, k, clock)
        BY <3>2, <4>2 DEF SpentOf, IsLive, Expired
      <4> QED
        BY <1>3, <4>3
    <3> QED
      BY <3>1, <3>2
  <2>2. Judged(attempts', k) \in SUBSET Judged(attempts, k)
    BY <1>5
  <2>3. Cardinality(Judged(attempts', k)) <= Cardinality(Judged(attempts, k))
    BY <1>3, <2>2, FS_Subset
  <2> QED
    BY <1>3, <2>1, <2>3
<1> QED
  BY <1>6, <1>7

(* An attempt is let in only below the limits of both its keys.            *)
LEMMA AskRoom ==
    ASSUME Inv, RoomLeft, Inv', NEW a \in Attempts, NEW i \in Clients, NEW x \in Headers,
           NEW e \in Emails, NEW g \in Passwords, Ask(a, i, x, e, g)
    PROVE  RoomLeft'
<1>1. Ip(i, x) = i
  BY IpIsOwn
<1>2. /\ limiter' = Swept(limiter, Pair(i, e), clock) /\ clock' = clock
      /\ ~Locked(limiter, i, e, clock)
      /\ attempts' = [attempts EXCEPT ![a] = [Idle EXCEPT !.pc = "read", !.from = i,
                          !.ip = i, !.email = e, !.guess = g]]
  BY <1>1 DEF Ask, Goto
<1>3. /\ Sound(limiter, Counters, clock) /\ clock \in Nat
      /\ attempts \in [Attempts -> Attempt]
  BY DEF Inv, CountsOK, AttemptsOK
<1> SUFFICES ASSUME NEW k \in Counters
             PROVE  SpentOf(limiter', k, clock) + Cardinality(Judged(attempts', k))
                      <= Limit(k) - 1 + Cardinality(Attempts)
  BY <1>2 DEF RoomLeft, WithinRoom, Counters, Judged, Limit
<1>4. SpentOf(limiter', k, clock) = SpentOf(limiter, k, clock)
  BY <1>2, SweptShowsNothing
<1>5. /\ SpentOf(limiter, k, clock) \in Nat
      /\ Cardinality(Judged(attempts, k)) \in Nat /\ IsFiniteSet(Judged(attempts, k))
      /\ Cardinality(Judged(attempts', k)) \in Nat
      /\ Cardinality(Judged(attempts', k)) <= Cardinality(Attempts)
      /\ Cardinality(Attempts) \in Nat /\ Limit(k) \in Nat /\ Limit(k) >= 1
      /\ SpentOf(limiter, k, clock) + Cardinality(Judged(attempts, k))
            <= Limit(k) - 1 + Cardinality(Attempts)
  BY <1>3, ViewType, JudgedCount, LimitType DEF RoomLeft, WithinRoom
<1>6. CASE k \in Pair(i, e)
  <2>1. SpentOf(limiter, k, clock) < Limit(k)
    <3>1. CASE ~IsLive(limiter, k, clock)
      BY <1>5, <3>1 DEF SpentOf
    <3>2. CASE IsLive(limiter, k, clock)
      <4>1. ~(limiter[k].count >= Limit(k))
        BY <1>2, <1>6, <3>2 DEF Locked
      <4>2. SpentOf(limiter, k, clock) = limiter[k].count
        BY <3>2 DEF SpentOf
      <4> QED
        BY <1>5, <4>1, <4>2
    <3> QED
      BY <3>1, <3>2
  <2> QED
    BY <1>4, <1>5, <2>1
<1>7. CASE k \notin Pair(i, e)
  <2>1. /\ attempts'[a].ip = i /\ attempts'[a].email = e
        /\ \A b \in Attempts \ {a} : attempts'[b] = attempts[b]
    BY <1>2, <1>3 DEF Idle
  <2>2. Judged(attempts', k) \in SUBSET Judged(attempts, k)
    BY <1>7, <2>1 DEF Judged
  <2>3. Cardinality(Judged(attempts', k)) <= Cardinality(Judged(attempts, k))
    BY <1>5, <2>2, FS_Subset
  <2> QED
    BY <1>4, <1>5, <2>3
<1> QED
  BY <1>6, <1>7

(* Every step leaves room for what is in flight.                           *)
LEMMA RoomStep == Inv /\ RoomLeft /\ [Next]_vars /\ Inv' => RoomLeft'
<1> SUFFICES ASSUME Inv, RoomLeft, [Next]_vars, Inv' PROVE RoomLeft'
  OBVIOUS
<1>1. /\ Sound(limiter, Counters, clock) /\ clock \in Nat
      /\ Sound(limiter', Counters, clock') /\ clock' \in Nat
      /\ attempts \in [Attempts -> Attempt] /\ WithinRoom(limiter, attempts, clock)
  BY DEF Inv, CountsOK, AttemptsOK, RoomLeft, Sound, Counters
<1>2. ASSUME \A k \in Counters : /\ SpentOf(limiter', k, clock') <= SpentOf(limiter, k, clock)
                                 /\ Judged(attempts', k) \subseteq Judged(attempts, k)
      PROVE  RoomLeft'
  <2>1. WithinRoom(limiter', attempts', clock')
    BY <1>1, <1>2, LessRoomTaken
  <2> QED
    BY <2>1 DEF RoomLeft
<1>3. \A k \in Counters : /\ SpentOf(limiter, k, clock) \in Nat
                          /\ SpentOf(limiter', k, clock') \in Nat
  BY <1>1, ViewType
<1>4. ASSUME NEW keys, limiter' = Without(limiter, keys), clock' = clock
      PROVE  \A k \in Counters : SpentOf(limiter', k, clock') <= SpentOf(limiter, k, clock)
  BY <1>3, <1>4, WithoutShows
<1>5. ASSUME limiter' = limiter, clock' = clock
      PROVE  \A k \in Counters : SpentOf(limiter', k, clock') <= SpentOf(limiter, k, clock)
  BY <1>3, <1>5
<1>6. ASSUME NEW a \in Attempts, NEW r, Goto(a, r),
             \/ r.pc \notin {"read", "compare"}
             \/ /\ attempts[a].pc \in {"read", "compare"}
                /\ r.ip = attempts[a].ip /\ r.email = attempts[a].email
      PROVE  \A k \in Counters : Judged(attempts', k) \subseteq Judged(attempts, k)
  <2>1. attempts'[a] = r /\ \A b \in Attempts \ {a} : attempts'[b] = attempts[b]
    BY <1>1, <1>6 DEF Goto
  <2> QED
    BY <1>6, <2>1 DEF Judged
<1>7. Idle.pc \notin {"read", "compare"}
  BY DEF Idle
<1>8. ASSUME NEW a \in Attempts, Step(a)
      PROVE  RoomLeft'
  <2>1. CASE \E i \in Clients, x \in Headers, e \in Emails, g \in Passwords : Ask(a, i, x, e, g)
    BY <2>1, AskRoom
  <2>2. CASE Refuse(a)
    BY <2>2, RefuseRoom
  <2>3. CASE ReadAccount(a)
    <3> DEFINE acc == accounts[attempts[a].email]
               r == IF attempts[a].email \in Known
                    THEN [attempts[a] EXCEPT !.pc = "compare", !.stored = acc.password,
                                             !.active = acc.active]
                    ELSE [attempts[a] EXCEPT !.pc = "compare"]
    <3>1. Goto(a, r) /\ attempts[a].pc = "read" /\ limiter' = limiter /\ clock' = clock
      BY <2>3 DEF ReadAccount, At
    <3>2. attempts[a] \in Attempt
      BY <1>1
    <3>3. r.ip = attempts[a].ip /\ r.email = attempts[a].email
      BY <3>2 DEF Attempt
    <3> HIDE DEF r
    <3> QED
      BY <1>2, <1>5, <1>6, <3>1, <3>3
  <2>4. CASE Accept(a)
    BY <1>2, <1>4, <1>6, <1>7, <2>4 DEF Accept
  <2>5. CASE \E t \in sessions, g \in Passwords : StartChange(a, t, g)
    <3>1. PICK t \in sessions, g \in Passwords : StartChange(a, t, g)
      BY <2>5
    <3>2. PICK pc \in {"current", "store"} :
            Goto(a, [Idle EXCEPT !.pc = pc, !.email = t.email, !.guess = g])
      BY <3>1 DEF StartChange
    <3> DEFINE r == [Idle EXCEPT !.pc = pc, !.email = t.email, !.guess = g]
    <3>3. r.pc \notin {"read", "compare"}
      BY DEF Idle
    <3>4. Goto(a, r)
      BY <3>2
    <3> HIDE DEF r
    <3>5. limiter' = limiter /\ clock' = clock
      BY <3>1 DEF StartChange
    <3> QED
      BY <1>2, <1>5, <1>6, <3>3, <3>4, <3>5
  <2>6. CASE CheckCurrent(a)
    <3> DEFINE r == [attempts[a] EXCEPT !.pc = "store"]
    <3>1. (Goto(a, r) \/ Goto(a, Idle)) /\ limiter' = limiter /\ clock' = clock
      BY <2>6 DEF CheckCurrent
    <3>2. r.pc \notin {"read", "compare"}
      BY <1>1 DEF Attempt
    <3> HIDE DEF r
    <3> QED
      BY <1>2, <1>5, <1>6, <1>7, <3>1, <3>2
  <2>7. CASE StorePassword(a)
    <3> DEFINE r == [attempts[a] EXCEPT !.pc = "sign",
                         !.stored = accounts[attempts[a].email].password + 1]
    <3>1. Goto(a, r) /\ limiter' = limiter /\ clock' = clock
      BY <2>7 DEF StorePassword
    <3>2. attempts[a] \in Attempt
      BY <1>1
    <3>3. r.pc \notin {"read", "compare"}
      BY <3>2 DEF Attempt
    <3> HIDE DEF r
    <3> QED
      BY <1>2, <1>5, <1>6, <3>1, <3>3
  <2>8. CASE SignAgain(a) \/ Abort(a)
    BY <1>2, <1>5, <1>6, <1>7, <2>8 DEF SignAgain, Abort
  <2> QED
    BY <1>8, <2>1, <2>2, <2>3, <2>4, <2>5, <2>6, <2>7, <2>8 DEF Step
<1>9. CASE \E i \in Clients, x \in Headers, e \in Emails : TurnAway(i, x, e)
  BY <1>2, <1>4, <1>9 DEF TurnAway, Swept
<1>10. CASE Restart
  <2>1. DOMAIN limiter' = {} /\ \A a \in Attempts : attempts'[a] = Idle
    BY <1>10 DEF Restart
  <2>2. \A k \in Counters : SpentOf(limiter', k, clock') = 0 /\ Judged(attempts', k) = {}
    BY <1>7, <2>1 DEF SpentOf, IsLive, Judged
  <2>3. \A k \in Counters : /\ SpentOf(limiter', k, clock') <= SpentOf(limiter, k, clock)
                            /\ Judged(attempts', k) \subseteq Judged(attempts, k)
    BY <1>3, <2>2
  <2> QED
    BY <1>2, <2>3
<1>11. CASE Tick
  <2>1. limiter' = limiter /\ clock' = clock + 1 /\ attempts' = attempts
    BY <1>11 DEF Tick
  <2>2. \A k \in Counters : IsLive(limiter', k, clock') => IsLive(limiter, k, clock)
    <3> SUFFICES ASSUME NEW k \in DOMAIN limiter PROVE Expired(limiter, k, clock)
                                                        => Expired(limiter, k, clock + 1)
      BY <2>1 DEF IsLive
    <3>1. limiter[k].since \in Nat
      BY <1>1 DEF Sound, Failures
    <3> QED
      BY <1>1, <3>1, LimiterAssumption DEF Expired
  <2>3. \A k \in Counters : SpentOf(limiter', k, clock') <= SpentOf(limiter, k, clock)
    BY <1>3, <2>1, <2>2 DEF SpentOf
  <2> QED
    BY <1>2, <2>1, <2>3
<1>12. CASE \/ \E t \in sessions : Logout(t)
            \/ \E e \in Known : ResetPassword(e)
            \/ \E e \in Known, b \in BOOLEAN : SetActive(e, b)
            \/ UNCHANGED vars
  <2>1. limiter' = limiter /\ clock' = clock /\ attempts' = attempts
    BY <1>12 DEF Logout, ResetPassword, SetActive, vars
  <2> QED
    BY <1>2, <1>5, <2>1
<1> QED
  BY <1>8, <1>9, <1>10, <1>11, <1>12 DEF Next

(* There is always room for what is in flight.                             *)
LEMMA RoomInvariant == Spec => []RoomLeft
<1>1. Inv /\ Init => RoomLeft
  <2> SUFFICES ASSUME Inv, Init, NEW k \in Counters
               PROVE  SpentOf(limiter, k, clock) + Cardinality(Judged(attempts, k))
                        <= Limit(k) - 1 + Cardinality(Attempts)
    BY DEF RoomLeft, WithinRoom
  <2>1. DOMAIN limiter = {} /\ \A a \in Attempts : attempts[a].pc = "idle"
    BY DEF Init, Idle
  <2>2. SpentOf(limiter, k, clock) = 0
    BY <2>1 DEF SpentOf, IsLive
  <2>3. /\ Cardinality(Judged(attempts, k)) \in Nat
        /\ Cardinality(Judged(attempts, k)) <= Cardinality(Attempts)
        /\ Cardinality(Attempts) \in Nat /\ Limit(k) \in Nat /\ Limit(k) >= 1
    BY JudgedCount, LimitType
  <2> QED
    BY <2>2, <2>3
<1> QED
  BY <1>1, InitInv, RoomStep, SignInInvariant, PTL DEF Spec

(* The variables that Throttle sees.                                       *)
SpentNow == [k \in Counters |-> IF IsLive(limiter, k, clock)
                                THEN limiter[k].count ELSE 0]
OpenedNow == [k \in Counters |-> IF IsLive(limiter, k, clock)
                                 THEN limiter[k].since ELSE 0]

(* They are what a counter shows, before and after a step.                 *)
LEMMA Seen ==
    /\ \A k \in Counters : /\ SpentNow[k] = SpentOf(limiter, k, clock)
                           /\ OpenedNow[k] = OpenedAt(limiter, k, clock)
    /\ \A k \in Counters : /\ SpentNow'[k] = SpentOf(limiter', k, clock')
                           /\ OpenedNow'[k] = OpenedAt(limiter', k, clock')
BY DEF SpentNow, OpenedNow, SpentOf, OpenedAt, IsLive, Expired, Counters

(* A step that shows the same of every key is a stutter of Throttle.       *)
LEMMA NothingSeen ==
    ASSUME clock' = clock,
           \A k \in Counters : /\ SpentOf(limiter', k, clock) = SpentOf(limiter, k, clock)
                               /\ OpenedAt(limiter', k, clock) = OpenedAt(limiter, k, clock)
    PROVE  UNCHANGED <<clock, SpentNow, OpenedNow>>
<1>1. \A k \in Counters : SpentNow'[k] = SpentNow[k] /\ OpenedNow'[k] = OpenedNow[k]
  BY Seen
<1>2. SpentNow' = SpentNow
  BY <1>1 DEF SpentNow, Counters
<1>3. OpenedNow' = OpenedNow
  BY <1>1 DEF OpenedNow, Counters
<1> QED
  BY <1>2, <1>3

(* A refused login is Throttle's Fail of the two keys it moves.            *)
LEMMA RefuseFails ==
    ASSUME Inv, RoomLeft, Inv', NEW a \in Attempts, Refuse(a)
    PROVE  \E p \in {Pair(i, e) : i \in Clients, e \in Emails} : Limiting!Fail(p)
<1>0. PICK i \in Clients, e \in Emails : attempts[a].ip = i /\ attempts[a].email = e
  BY DEF Refuse, At, Inv, AttemptsOK, AttemptOK
<1> DEFINE p == Pair(i, e)
<1>1. /\ attempts[a].pc = "compare"
      /\ limiter' \in Recorded(limiter, i, e, clock) /\ clock' = clock
  BY <1>0 DEF Refuse, At
<1>2. /\ Sound(limiter, Counters, clock) /\ Sound(limiter', Counters, clock)
      /\ clock \in Nat /\ p \subseteq Counters
  BY <1>1 DEF Inv, CountsOK, Pair, Counters, Sound
<1>3. /\ \A l \in DOMAIN limiter' \ p : l \in DOMAIN limiter /\ limiter'[l] = limiter[l]
      /\ \A l \in DOMAIN limiter' \cap p :
            \/ IsLive(limiter, l, clock) /\ GoesOn(limiter, limiter', l, p)
            \/ limiter'[l].count = 1 /\ limiter'[l].since = clock
      /\ \A l, j \in DOMAIN limiter :
            /\ IsLive(limiter, l, clock) /\ ~GoesOn(limiter, limiter', l, p)
            /\ IsLive(limiter, j, clock) /\ GoesOn(limiter, limiter', j, p)
            => limiter[l].since <= limiter[j].since
  BY <1>1, <1>2, RecordedEffect
<1> HIDE DEF p
<1>4. \A k \in Counters :
         /\ SpentNow[k] \in Nat /\ OpenedNow[k] \in Nat
         /\ SpentNow'[k] \in Nat /\ OpenedNow'[k] \in Nat
         /\ SpentNow[k] > 0 <=> IsLive(limiter, k, clock)
         /\ IsLive(limiter, k, clock) =>
               /\ k \in DOMAIN limiter
               /\ SpentNow[k] = limiter[k].count /\ OpenedNow[k] = limiter[k].since
         /\ ~IsLive(limiter, k, clock) => SpentNow[k] = 0 /\ OpenedNow[k] = 0
         /\ IsLive(limiter', k, clock) =>
               /\ k \in DOMAIN limiter'
               /\ SpentNow'[k] = limiter'[k].count /\ OpenedNow'[k] = limiter'[k].since
         /\ ~IsLive(limiter', k, clock) => SpentNow'[k] = 0 /\ OpenedNow'[k] = 0
         /\ SpentNow'[k] > 0 => IsLive(limiter', k, clock)
  BY <1>1, <1>2, Seen, ViewType
(* What a key that goes on shows, and what shows that it does.             *)
<1>5. \A k \in Counters : IsLive(limiter, k, clock) =>
         (GoesOn(limiter, limiter', k, p) <=>
            /\ SpentNow'[k] = SpentNow[k] + (IF k \in p THEN 1 ELSE 0)
            /\ OpenedNow'[k] = OpenedNow[k])
  <2> SUFFICES ASSUME NEW k \in Counters, IsLive(limiter, k, clock)
               PROVE  GoesOn(limiter, limiter', k, p) <=>
                         /\ SpentNow'[k] = SpentNow[k] + (IF k \in p THEN 1 ELSE 0)
                         /\ OpenedNow'[k] = OpenedNow[k]
    OBVIOUS
  <2>1. ASSUME GoesOn(limiter, limiter', k, p)
        PROVE  /\ SpentNow'[k] = SpentNow[k] + (IF k \in p THEN 1 ELSE 0)
               /\ OpenedNow'[k] = OpenedNow[k]
    <3>1. IsLive(limiter', k, clock)
      BY <2>1 DEF GoesOn, IsLive, Expired
    <3> QED
      BY <1>4, <2>1, <3>1 DEF GoesOn
  <2>2. ASSUME /\ SpentNow'[k] = SpentNow[k] + (IF k \in p THEN 1 ELSE 0)
               /\ OpenedNow'[k] = OpenedNow[k]
        PROVE  GoesOn(limiter, limiter', k, p)
    <3>1. IsLive(limiter', k, clock)
      BY <1>4, <2>2
    <3> QED
      BY <1>4, <2>2, <3>1 DEF GoesOn
  <2> QED
    BY <2>1, <2>2
<1>6. \A k \in p : Limiting!Moved(k) \/ Limiting!Fresh(k) \/ Limiting!Forgotten(k)
  <2> SUFFICES ASSUME NEW k \in p
               PROVE  Limiting!Moved(k) \/ Limiting!Fresh(k) \/ Limiting!Forgotten(k)
    OBVIOUS
  <2>0. k \in Counters
    BY <1>2
  <2>1. CASE ~IsLive(limiter', k, clock)
    BY <1>4, <2>0, <2>1 DEF Limiting!Forgotten, SpentNow, OpenedNow
  <2>2. CASE IsLive(limiter', k, clock)
    <3>1. \/ IsLive(limiter, k, clock) /\ GoesOn(limiter, limiter', k, p)
          \/ limiter'[k].count = 1 /\ limiter'[k].since = clock
      BY <1>3, <1>4, <2>0, <2>2
    <3>2. CASE IsLive(limiter, k, clock) /\ GoesOn(limiter, limiter', k, p)
      <4>1. /\ SpentNow'[k] = SpentNow[k] + 1 /\ OpenedNow'[k] = OpenedNow[k]
            /\ SpentNow[k] # 0
        BY <1>4, <1>5, <2>0, <3>2
      <4> QED
        BY <4>1 DEF Limiting!Moved, SpentNow, OpenedNow
    <3>3. CASE limiter'[k].count = 1 /\ limiter'[k].since = clock
      <4>1. SpentNow'[k] = 1 /\ OpenedNow'[k] = clock
        BY <1>4, <2>0, <2>2, <3>3
      <4> QED
        BY <4>1 DEF Limiting!Fresh, SpentNow, OpenedNow
    <3> QED
      BY <3>1, <3>2, <3>3
  <2> QED
    BY <2>1, <2>2
<1>7. \A k \in p : SpentNow[k] < Limit(k) + (Cardinality(Attempts) - 1)
  <2> SUFFICES ASSUME NEW k \in p
               PROVE  SpentNow[k] < Limit(k) + (Cardinality(Attempts) - 1)
    OBVIOUS
  <2>1. k \in Counters /\ a \in Judged(attempts, k)
    BY <1>0, <1>1, <1>2 DEF Judged, p
  <2>2. /\ Cardinality(Judged(attempts, k)) \in Nat /\ IsFiniteSet(Judged(attempts, k))
        /\ Cardinality(Attempts) \in Nat /\ Limit(k) \in Nat
        /\ SpentOf(limiter, k, clock) + Cardinality(Judged(attempts, k))
             <= Limit(k) - 1 + Cardinality(Attempts)
    BY <2>1, JudgedCount, LimitType DEF RoomLeft, WithinRoom
  <2>3. Cardinality(Judged(attempts, k)) # 0
    BY <2>1, <2>2, FS_EmptySet
  <2>4. SpentNow[k] = SpentOf(limiter, k, clock) /\ SpentNow[k] \in Nat
    BY <1>4, <2>1, Seen
  <2> QED
    BY <2>2, <2>3, <2>4
<1>8. \A k \in Counters \ p : Limiting!Kept(k) \/ Limiting!Forgotten(k)
  <2> SUFFICES ASSUME NEW k \in Counters \ p
               PROVE  Limiting!Kept(k) \/ Limiting!Forgotten(k)
    OBVIOUS
  <2>1. CASE ~IsLive(limiter', k, clock)
    BY <1>4, <2>1 DEF Limiting!Forgotten, SpentNow, OpenedNow
  <2>2. CASE IsLive(limiter', k, clock)
    <3>1. k \in DOMAIN limiter /\ limiter'[k] = limiter[k]
      BY <1>3, <1>4, <2>2
    <3>2. IsLive(limiter, k, clock)
      BY <2>2, <3>1 DEF IsLive, Expired
    <3>3. SpentNow'[k] = SpentNow[k] /\ OpenedNow'[k] = OpenedNow[k]
      BY <1>4, <2>2, <3>1, <3>2
    <3> QED
      BY <3>3 DEF Limiting!Kept, SpentNow, OpenedNow
  <2> QED
    BY <2>1, <2>2
<1> DEFINE Shown(k) == IF k \in p THEN Limiting!Moved(k) ELSE Limiting!Kept(k)
           lost == {k \in Counters : SpentNow[k] > 0 /\ ~Shown(k)}
<1>9. \A k \in Counters : SpentNow[k] > 0 =>
          (Shown(k) <=> GoesOn(limiter, limiter', k, p))
  <2> SUFFICES ASSUME NEW k \in Counters, SpentNow[k] > 0
               PROVE  Shown(k) <=> GoesOn(limiter, limiter', k, p)
    OBVIOUS
  <2>1. GoesOn(limiter, limiter', k, p) <=>
            /\ SpentNow'[k] = SpentNow[k] + (IF k \in p THEN 1 ELSE 0)
            /\ OpenedNow'[k] = OpenedNow[k]
    BY <1>4, <1>5
  <2>2. CASE k \in p
    <3>1. Limiting!Moved(k) <=> SpentNow'[k] = SpentNow[k] + 1 /\ OpenedNow'[k] = OpenedNow[k]
      BY DEF Limiting!Moved, SpentNow, OpenedNow
    <3> QED
      BY <2>1, <2>2, <3>1
  <2>3. CASE k \notin p
    <3>1. Limiting!Kept(k) <=> SpentNow'[k] = SpentNow[k] /\ OpenedNow'[k] = OpenedNow[k]
      BY DEF Limiting!Kept, SpentNow, OpenedNow
    <3>2. SpentNow[k] \in Nat
      BY <1>4
    <3> QED
      BY <2>1, <2>3, <3>1, <3>2
  <2> QED
    BY <2>2, <2>3
<1> HIDE DEF Shown
<1>10. \A k \in lost, l \in Counters \ lost :
          SpentNow[l] > 0 => OpenedNow[k] <= OpenedNow[l]
  <2> SUFFICES ASSUME NEW k \in lost, NEW l \in Counters \ lost, SpentNow[l] > 0
               PROVE  OpenedNow[k] <= OpenedNow[l]
    OBVIOUS
  <2>1. /\ k \in Counters /\ IsLive(limiter, k, clock) /\ ~GoesOn(limiter, limiter', k, p)
        /\ IsLive(limiter, l, clock) /\ GoesOn(limiter, limiter', l, p)
    BY <1>4, <1>9
  <2> QED
    BY <1>3, <1>4, <2>1
<1>11. Limiting!Fail(p)
  <2>1. \A k \in p : SpentNow[k] < [c \in Counters |-> Limit(c)][k] + (Cardinality(Attempts) - 1)
    BY <1>2, <1>7
  <2> QED
    BY <1>1, <1>6, <1>8, <1>10, <2>1 DEF Limiting!Fail, SpentNow, OpenedNow, Shown
<1>12. p \in {Pair(j, f) : j \in Clients, f \in Emails}
  BY DEF p
<1> QED
  BY <1>11, <1>12

(* Time passes for every counter alike.                                    *)
LEMMA TickPasses ==
    ASSUME Inv, Tick
    PROVE  Limiting!Pass
<1>1. /\ Sound(limiter, Counters, clock) /\ clock \in Nat
      /\ limiter' = limiter /\ clock' = clock + 1
  BY DEF Inv, CountsOK, Tick
<1>2. ASSUME NEW k \in Counters
      PROVE  IF SpentNow[k] > 0 /\ OpenedNow[k] + Window <= clock'
             THEN Limiting!Forgotten(k) ELSE Limiting!Kept(k)
  <2>1. /\ SpentNow[k] = SpentOf(limiter, k, clock)
        /\ OpenedNow[k] = OpenedAt(limiter, k, clock)
        /\ SpentNow'[k] = SpentOf(limiter, k, clock + 1)
        /\ OpenedNow'[k] = OpenedAt(limiter, k, clock + 1)
    BY <1>1, Seen
  <2>2. CASE k \notin DOMAIN limiter
    <3>1. SpentNow[k] = 0 /\ OpenedNow[k] = 0 /\ SpentNow'[k] = 0 /\ OpenedNow'[k] = 0
      BY <2>1, <2>2 DEF SpentOf, OpenedAt, IsLive
    <3> QED
      BY <3>1 DEF Limiting!Kept, SpentNow, OpenedNow
  <2>3. CASE k \in DOMAIN limiter
    <3>1. limiter[k].since \in Nat /\ limiter[k].count \in Nat \ {0} /\ Window \in Nat
      BY <1>1, <2>3, LimiterAssumption DEF Sound, Failures
    <3>2. /\ IsLive(limiter, k, clock) <=> limiter[k].since + Window > clock
          /\ IsLive(limiter, k, clock + 1) <=> limiter[k].since + Window > clock + 1
      BY <1>1, <2>3, <3>1 DEF IsLive, Expired
    <3>3. CASE SpentNow[k] > 0 /\ OpenedNow[k] + Window <= clock'
      <4>1. IsLive(limiter, k, clock) /\ OpenedNow[k] = limiter[k].since
        BY <2>1, <3>3 DEF SpentOf, OpenedAt
      <4>2. ~IsLive(limiter, k, clock + 1)
        BY <1>1, <3>1, <3>2, <3>3, <4>1
      <4>3. SpentNow'[k] = 0 /\ OpenedNow'[k] = 0
        BY <2>1, <4>2 DEF SpentOf, OpenedAt
      <4> QED
        BY <3>3, <4>3 DEF Limiting!Forgotten, SpentNow, OpenedNow
    <3>4. CASE ~(SpentNow[k] > 0 /\ OpenedNow[k] + Window <= clock')
      <4>1. IsLive(limiter, k, clock) <=> IsLive(limiter, k, clock + 1)
        BY <1>1, <2>1, <3>1, <3>2, <3>4 DEF SpentOf, OpenedAt
      <4>2. SpentNow'[k] = SpentNow[k] /\ OpenedNow'[k] = OpenedNow[k]
        BY <2>1, <4>1 DEF SpentOf, OpenedAt
      <4> QED
        BY <3>4, <4>2 DEF Limiting!Kept, SpentNow, OpenedNow
    <3> QED
      BY <3>3, <3>4
  <2> QED
    BY <2>2, <2>3
<1>3. clock' > clock
  BY <1>1
<1> QED
  BY <1>2, <1>3 DEF Limiting!Pass, SpentNow, OpenedNow

(* A login that succeeds forgets its account's counter and no other.       *)
LEMMA AcceptSucceeds ==
    ASSUME Inv, NEW a \in Attempts, Accept(a)
    PROVE  Limiting!Succeed
<1>1. PICK k \in Clients \X Emails :
         limiter' = Without(limiter, {k}) /\ clock' = clock
  BY DEF Accept, At, Inv, AttemptsOK, AttemptOK
<1> k \in Counters
  BY DEF Counters
<1>2. SpentNow'[k] = 0 /\ OpenedNow'[k] = 0
  BY <1>1, Seen, WithoutShows
<1>3. \A l \in Counters \ {k} : SpentNow'[l] = SpentNow[l] /\ OpenedNow'[l] = OpenedNow[l]
  BY <1>1, Seen, WithoutShows
<1>4. Limiting!Forgotten(k)
  BY <1>2 DEF Limiting!Forgotten, SpentNow, OpenedNow
<1>5. \A l \in Counters \ {k} : Limiting!Kept(l)
  BY <1>3 DEF Limiting!Kept, SpentNow, OpenedNow
<1> QED
  BY <1>1, <1>4, <1>5 DEF Limiting!Succeed

(* A restart forgets everything.                                           *)
LEMMA RestartRestarts ==
    ASSUME Restart
    PROVE  Limiting!Restart
<1>1. DOMAIN limiter' = {} /\ clock' = clock
  BY DEF Restart
<1>2. \A k \in Counters : SpentNow'[k] = 0 /\ OpenedNow'[k] = 0
  BY <1>1, Seen DEF SpentOf, OpenedAt, IsLive
<1>3. \A k \in Counters : Limiting!Forgotten(k)
  BY <1>2 DEF Limiting!Forgotten, SpentNow, OpenedNow
<1> QED
  BY <1>1, <1>3 DEF Limiting!Restart

(* Every step of SignIn is one of Throttle, or shows it nothing.           *)
LEMMA ThrottleStep ==
    Inv /\ RoomLeft /\ Inv' /\ [Next]_vars
        => [Limiting!ThrottleNext]_<<clock, SpentNow, OpenedNow>>
<1> SUFFICES ASSUME Inv, RoomLeft, Inv', [Next]_vars
             PROVE  Limiting!ThrottleNext \/ UNCHANGED <<clock, SpentNow, OpenedNow>>
  OBVIOUS
<1>1. ASSUME NEW a \in Attempts, Step(a)
      PROVE  Limiting!ThrottleNext \/ UNCHANGED <<clock, SpentNow, OpenedNow>>
  <2>1. CASE Refuse(a)
    BY <2>1, RefuseFails DEF Limiting!ThrottleNext
  <2>2. CASE Accept(a)
    BY <2>2, AcceptSucceeds DEF Limiting!ThrottleNext
  <2>3. CASE \E i \in Clients, x \in Headers, e \in Emails, g \in Passwords : Ask(a, i, x, e, g)
    <3>1. PICK i \in Clients, x \in Headers, e \in Emails, g \in Passwords : Ask(a, i, x, e, g)
      BY <2>3
    <3>2. limiter' = Swept(limiter, Pair(Ip(i, x), e), clock) /\ clock' = clock
      BY <3>1 DEF Ask
    <3> QED
      BY <3>2, SweptShowsNothing, NothingSeen
  <2>4. CASE \/ ReadAccount(a) \/ (\E t \in sessions, g \in Passwords : StartChange(a, t, g))
             \/ CheckCurrent(a) \/ StorePassword(a) \/ SignAgain(a) \/ Abort(a)
    <3>1. limiter' = limiter /\ clock' = clock
      BY <2>4 DEF ReadAccount, StartChange, CheckCurrent, StorePassword, SignAgain, Abort
    <3> QED
      BY <3>1, NothingSeen
  <2> QED
    BY <1>1, <2>1, <2>2, <2>3, <2>4 DEF Step
<1>2. CASE \E i \in Clients, x \in Headers, e \in Emails : TurnAway(i, x, e)
  <2>1. PICK i \in Clients, x \in Headers, e \in Emails : TurnAway(i, x, e)
    BY <1>2
  <2>2. limiter' = Swept(limiter, Pair(Ip(i, x), e), clock) /\ clock' = clock
    BY <2>1 DEF TurnAway
  <2> QED
    BY <2>2, SweptShowsNothing, NothingSeen
<1>3. CASE Restart
  BY <1>3, RestartRestarts DEF Limiting!ThrottleNext
<1>4. CASE Tick
  BY <1>4, TickPasses DEF Limiting!ThrottleNext
<1>5. CASE \/ \E t \in sessions : Logout(t)
           \/ \E e \in Known : ResetPassword(e)
           \/ \E e \in Known, b \in BOOLEAN : SetActive(e, b)
           \/ UNCHANGED vars
  <2>1. limiter' = limiter /\ clock' = clock
    BY <1>5 DEF Logout, ResetPassword, SetActive, vars
  <2> QED
    BY <2>1, NothingSeen
<1> QED
  BY <1>1, <1>2, <1>3, <1>4, <1>5 DEF Next

(* However many logins are judged before they are counted, the limiter     *)
(* implements Throttle with a slack of the other slots (limiter.rs,        *)
(* routes/auth.rs login).                                                  *)
THEOREM LimiterThrottles == Spec => Throttled
<1>1. Init => Limiting!ThrottleInit
  <2> SUFFICES ASSUME Init PROVE Limiting!ThrottleInit
    OBVIOUS
  <2>1. clock = 0 /\ DOMAIN limiter = {}
    BY DEF Init
  <2>2. \A k \in Counters : ~IsLive(limiter, k, clock)
    BY <2>1 DEF IsLive
  <2> QED
    BY <2>1, <2>2 DEF Limiting!ThrottleInit
<1>2. Inv /\ RoomLeft /\ Inv' /\ [Next]_vars
        => [Limiting!ThrottleNext]_<<clock, SpentNow, OpenedNow>>
  BY ThrottleStep
<1> QED
  BY <1>1, <1>2, RoomInvariant, SignInInvariant, PTL
  DEF Spec, Throttled, Limiting!ThrottleSpec, Limiting!state, SpentNow, OpenedNow
===============================================================================
