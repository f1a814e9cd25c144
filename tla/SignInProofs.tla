---------------------------- MODULE SignInProofs ----------------------------
(***************************************************************************)
(* Theorems about SignIn, for any number of requests, any limit, window    *)
(* and token lifetimes.                                                    *)
(***************************************************************************)
EXTENDS SignIn, TLAPS

-----------------------------------------------------------------------------
(* The rate limit.  The bucket's window opened at resetAt - Window.  While *)
(* the observer still counts, hits passed in that window alone when it was *)
(* open as the observer started, in it and the one before when it opened   *)
(* later; a third cannot open in time.                                     *)

AtMost(m, n) == IF m < n THEN m ELSE n

LimiterInv ==
  ~Unlimited =>
    /\ bucket.count = 0 => watch.passed = 0
    /\ bucket.count > 0 => bucket.resetAt <= now + Window
    /\ bucket.count > 0 /\ bucket.resetAt < watch.since + Window =>
         watch.passed <= AtMost(bucket.count, Limit)
    /\ bucket.count > 0 /\ bucket.resetAt < watch.since + 2 * Window =>
         watch.passed <= Limit + AtMost(bucket.count, Limit)
    /\ watch.passed <= 2 * Limit

LInv == LimiterTypeOK /\ LimiterInv

LEMMA LimiterStarts == ASSUME LimiterInit PROVE LInv
  BY LimitIsNat, WindowIsNat, MaxTimeIsNat
  DEF LimiterInit, LInv, LimiterTypeOK, LimiterInv, NoBucket, Unlimited, AtMost

(* A hit lets at most Limit through in the bucket's window.                *)
LEMMA HitKeeps == ASSUME LInv, Hit, now' = now PROVE LInv'
<1> USE LimitIsNat, WindowIsNat, MaxTimeIsNat DEF LInv, LimiterTypeOK, Unlimited
<1>1. LimiterTypeOK'
  BY DEF Hit, Fresh
<1>2. CASE Unlimited
  BY <1>1, <1>2 DEF LimiterInv
<1>3. CASE ~Unlimited /\ Fresh
  <2>1. bucket' = [count |-> 1, resetAt |-> now + Window]
    BY <1>3 DEF Hit
  <2>2. watch' = IF Watching THEN [watch EXCEPT !.passed = @ + 1] ELSE watch
    BY <1>3 DEF Hit, Passes
  <2>3. Watching => watch.passed <= Limit
    BY <1>3 DEF Watching, Fresh, LimiterInv, AtMost
  <2> QED
    BY <1>1, <1>3, <2>1, <2>2, <2>3 DEF Watching, LimiterInv, AtMost
<1>4. CASE ~Unlimited /\ ~Fresh
  <2>1. bucket' = [bucket EXCEPT !.count = IF @ > Limit THEN @ ELSE @ + 1]
    BY <1>4 DEF Hit
  <2>2. CASE Passes /\ Watching
    <3>1. watch' = [watch EXCEPT !.passed = @ + 1] /\ bucket.count + 1 <= Limit
      BY <1>4, <2>2 DEF Hit, Passes
    <3>2. bucket.resetAt < watch.since + 2 * Window
      BY <1>4, <2>2 DEF Fresh, Watching, LimiterInv
    <3> QED
      BY <1>1, <1>4, <2>1, <3>1, <3>2 DEF Fresh, LimiterInv, AtMost
  <2>3. CASE ~(Passes /\ Watching)
    <3>1. watch' = watch
      BY <2>3 DEF Hit
    <3> QED
      BY <1>1, <1>4, <2>1, <3>1 DEF Fresh, LimiterInv, AtMost
  <2> QED
    BY <2>2, <2>3
<1> QED
  BY <1>2, <1>3, <1>4

LEMMA ForgetKeeps == ASSUME LInv, Forget, now' = now PROVE LInv'
  BY LimitIsNat, WindowIsNat, MaxTimeIsNat
  DEF LInv, LimiterTypeOK, LimiterInv, Forget, NoBucket, Unlimited, AtMost

LEMMA WatchKeeps == ASSUME LInv, Watch, now' = now PROVE LInv'
  BY LimitIsNat, WindowIsNat, MaxTimeIsNat
  DEF LInv, LimiterTypeOK, LimiterInv, Watch, Unlimited, AtMost

LEMMA TimeKeeps ==
  ASSUME LInv, now < MaxTime, now' = now + 1, UNCHANGED limiterVars PROVE LInv'
  BY LimitIsNat, WindowIsNat, MaxTimeIsNat
  DEF LInv, LimiterTypeOK, LimiterInv, limiterVars, Unlimited, AtMost

LEMMA LimiterIdles == ASSUME LInv, UNCHANGED <<now, limiterVars>> PROVE LInv'
  BY DEF LInv, LimiterTypeOK, LimiterInv, limiterVars, Unlimited

(* Every step of SignIn is one of these for the limiter.                   *)
LEMMA LimiterStep == ASSUME LInv, [Next]_vars PROVE LInv'
<1>1. CASE \E r \in Requests : \E life \in {Short, Long} : LogIn(r, life)
  BY <1>1, ForgetKeeps DEF LogIn
<1>2. CASE LogInByApi \/ Restart
  BY <1>2, ForgetKeeps DEF LogInByApi, Restart
<1>3. CASE FailToLogIn
  BY <1>3, HitKeeps DEF FailToLogIn
<1>4. CASE Tick
  BY <1>4, TimeKeeps DEF Tick
<1>5. CASE StartWatch
  BY <1>5, WatchKeeps DEF StartWatch
<1>6. CASE UNCHANGED <<now, limiterVars>>
  BY <1>6, LimiterIdles
<1> QED
  BY <1>1, <1>2, <1>3, <1>4, <1>5, <1>6
  DEF Next, vars, SendPage, ServeByAccess, ServeByRefresh, SendToLogin, Answer, Receive,
      LoseAnswer, LogOut, SwitchUser

(* Whatever logins fail, succeed or run into the limit, and whenever one   *)
(* starts to count, at most twice the limit of failed logins are let       *)
(* through in the length of a window (hit, reset).                         *)
THEOREM RateLimited == Spec => []TwiceTheLimitAtMost
<1>1. Init => LInv
  BY LimiterStarts DEF Init
<1>2. LInv /\ [Next]_vars => LInv'
  BY LimiterStep
<1>3. LInv => TwiceTheLimitAtMost
  BY DEF LInv, LimiterInv, TwiceTheLimitAtMost
<1> QED
  BY <1>1, <1>2, <1>3, PTL DEF Spec

-----------------------------------------------------------------------------
(* Types.                                                                  *)

SessionTypeOK ==
  /\ active \in BOOLEAN
  /\ jar \in Cookies
  /\ req \in [Requests -> Request]
  /\ session \in [in : BOOLEAN, ends : Nat, raced : BOOLEAN]

(* A pair of tokens with a deadline ahead is well-formed.                  *)
LEMMA Issued ==
  ASSUME now \in Nat, NEW d \in Nat, NEW e \in Nat, d > now
  PROVE  LET set == Issue(d, e)
         IN  /\ set \in Cookies
             /\ set.access.exp <= d /\ set.access.ends = e
             /\ set.refresh = [exp |-> d, ends |-> e, keep |-> d - now]
  BY LifetimesArePositive DEF Issue, Earlier, Cookies, Cookie

LEMMA NothingHeld == NoCookies \in Cookies /\ Idle \in Request
  BY DEF NoCookies, NoCookie, Cookies, Cookie, Idle, Request

TInv == LInv /\ SessionTypeOK

LEMMA TypeStep == ASSUME TInv, [Next]_vars PROVE TInv'
<1> USE NothingHeld DEF TInv, SessionTypeOK
<1>0. now \in Nat /\ now' \in Nat /\ LInv'
  BY LimiterStep, MaxTimeIsNat DEF LInv, LimiterTypeOK
<1>1. ASSUME NEW r \in Requests, SendPage(r) PROVE TInv'
  BY <1>0, <1>1 DEF SendPage, Idle, Request
<1>2. ASSUME NEW r \in Requests, ServeByAccess(r) \/ SendToLogin(r) PROVE TInv'
  <2>1. PICK pc \in {"served", "refused"} : Answer(r, pc, NoCookies)
    BY <1>2 DEF ServeByAccess, SendToLogin
  <2>2. [Idle EXCEPT !.pc = pc, !.set = NoCookies] \in Request
    BY DEF Idle, Request
  <2> QED
    BY <1>0, <2>1, <2>2 DEF Answer
<1>3. ASSUME NEW r \in Requests, ServeByRefresh(r) PROVE TInv'
  <2> DEFINE old == req[r].has.refresh
  <2>1. old.exp \in Nat /\ old.ends \in Nat /\ old.exp > now
    BY <1>3 DEF ServeByRefresh, Renews, Request, Cookies, Cookie
  <2>2. Issue(old.exp, old.ends) \in Cookies
    BY <1>0, <2>1, Issued
  <2> QED
    BY <1>0, <1>3, <2>2 DEF ServeByRefresh, Answer, Idle, Request
<1>4. ASSUME NEW r \in Requests, Receive(r) PROVE TInv'
  <2>1. req[r].set \in Cookies
    BY DEF Request
  <2>2. /\ Kept(req[r].set.access) \in Cookie /\ Kept(req[r].set.refresh) \in Cookie
        /\ req[r].set.refresh.ends \in Nat
    BY <1>0, <2>1 DEF Kept, Cookies, Cookie
  <2>3. jar' \in Cookies
    BY <1>4, <2>2 DEF Receive, Cookies
  <2>4. req' \in [Requests -> Request] /\ active' \in BOOLEAN
    BY <1>4 DEF Receive
  <2>5. session' \in [in : BOOLEAN, ends : Nat, raced : BOOLEAN]
    BY <1>4, <2>2 DEF Receive
  <2> QED
    BY <1>0, <2>3, <2>4, <2>5
<1>5. ASSUME NEW r \in Requests, LoseAnswer(r) PROVE TInv'
  BY <1>0, <1>5 DEF LoseAnswer
<1>6. ASSUME NEW r \in Requests, NEW life \in {Short, Long}, LogIn(r, life) PROVE TInv'
  <2>1. Issue(now + life, now + life) \in Cookies
    <3>1. now + life \in Nat /\ now + life > now
      BY <1>0, LifetimesArePositive
    <3> QED
      BY <1>0, <3>1, Issued
  <2> QED
    BY <1>0, <1>6, <2>1 DEF LogIn, Idle, Request
<1>7. CASE Tick
  <2>1. Dropped(jar.access) \in Cookie /\ Dropped(jar.refresh) \in Cookie
    BY DEF Dropped, NoCookie, Cookies, Cookie
  <2> QED
    BY <1>0, <1>7, <2>1 DEF Tick, Cookies
<1>8. CASE LogInByApi \/ FailToLogIn \/ StartWatch \/ UNCHANGED vars
  BY <1>0, <1>8 DEF LogInByApi, FailToLogIn, StartWatch, vars, sessionVars
<1>9. CASE LogOut
  BY <1>0, <1>9 DEF LogOut, Cleared
<1>10. CASE SwitchUser \/ Restart
  BY <1>0, <1>10 DEF SwitchUser, Restart
<1> QED
  BY <1>1, <1>2, <1>3, <1>4, <1>5, <1>6, <1>7, <1>8, <1>9, <1>10 DEF Next

LEMMA TypeStarts == ASSUME Init PROVE TInv
  BY LimiterStarts, NothingHeld DEF Init, TInv, SessionTypeOK

(* Every reachable state is well typed.                                    *)
THEOREM TypeCorrect == Spec => []TypeOK
<1>1. TInv => TypeOK
  BY DEF TInv, LInv, SessionTypeOK, TypeOK
<1> QED
  BY <1>1, TypeStarts, TypeStep, PTL DEF Spec

-----------------------------------------------------------------------------
(* Sessions.  A refresh token's own expiry is the deadline of the login it *)
(* goes back to, and no access token outlives it; a cookie set by an       *)
(* answer is kept at least as long, however late the answer comes.         *)
Bounded(cookies) ==
  /\ cookies.access.exp <= cookies.access.ends
  /\ cookies.refresh.exp = cookies.refresh.ends

AllBounded ==
  /\ Bounded(jar)
  /\ \A r \in Requests :
       /\ Bounded(req[r].has) /\ Bounded(req[r].set)
       /\ req[r].set.refresh.exp <= req[r].set.refresh.keep + now
       /\ req[r].pc = "idle" => req[r] = Idle
       /\ req[r].login => req[r].set # NoCookies /\ req[r].pc # "sent"

(* Unless raced, every page under way carries, and sets, cookies of the    *)
(* session the browser is in, and none when it is in none.                 *)
Follows(q) ==
  ~q.login =>
    IF session.in
      THEN /\ q.has.refresh = NoCookie \/ q.has.refresh.ends = session.ends
           /\ q.set = NoCookies \/ q.set.refresh.ends = session.ends
      ELSE q.has = NoCookies /\ q.set = NoCookies

AllFollow ==
  ~session.raced =>
    /\ session.in => jar.refresh = NoCookie \/ jar.refresh.ends = session.ends
    /\ \A r \in Requests : Follows(req[r])

SInv == TInv /\ AllBounded /\ AllFollow /\ JarMatchesSession

LEMMA IdleFollows == Follows(Idle) /\ Bounded(NoCookies)
  BY DEF Follows, Idle, Bounded, NoCookies, NoCookie

(* A page sent, answered or forgotten leaves the rest as it was.           *)
LEMMA RequestKeeps ==
  ASSUME SInv, TInv', UNCHANGED <<now, jar, session>>, NEW r \in Requests,
         NEW q \in Request, req' = [req EXCEPT ![r] = q],
         Bounded(q.has), Bounded(q.set), q.set.refresh.exp <= q.set.refresh.keep + now,
         q.pc = "idle" => q = Idle, q.login => q.set # NoCookies /\ q.pc # "sent",
         ~session.raced => Follows(q)
  PROVE  SInv'
<1>1. \A x \in Requests : req'[x] = IF x = r THEN q ELSE req[x]
  BY DEF SInv, TInv, SessionTypeOK
<1>2. AllBounded'
  BY <1>1 DEF SInv, AllBounded, Bounded
<1>3. AllFollow'
  BY <1>1 DEF SInv, AllFollow, Follows
<1>4. JarMatchesSession'
  BY DEF SInv, JarMatchesSession
<1> QED
  BY <1>2, <1>3, <1>4 DEF SInv

(* Nothing set, nothing held: what an answer without cookies leaves.       *)
LEMMA PlainAnswer ==
  ASSUME NEW pc \in {"served", "refused"}
  PROVE  LET q == [Idle EXCEPT !.pc = pc, !.set = NoCookies]
         IN  /\ q \in Request /\ q.has = NoCookies /\ q.set = NoCookies
             /\ q.pc # "idle" /\ ~q.login
  BY NothingHeld DEF Idle, Request

LEMMA PlainKeeps ==
  ASSUME SInv, TInv', NEW r \in Requests, NEW pc \in {"served", "refused"},
         Answer(r, pc, NoCookies)
  PROVE  SInv'
<1> DEFINE q == [Idle EXCEPT !.pc = pc, !.set = NoCookies]
<1>1. q \in Request /\ q.has = NoCookies /\ q.set = NoCookies /\ q.pc # "idle" /\ ~q.login
  BY PlainAnswer
<1>2. req' = [req EXCEPT ![r] = q] /\ UNCHANGED <<now, jar, session>>
  BY DEF Answer
<1> HIDE DEF q
<1>3. Follows(q) /\ Bounded(q.has) /\ Bounded(q.set)
  BY <1>1, IdleFollows DEF Follows, NoCookies, NoCookie
<1>4. q.set.refresh.exp <= q.set.refresh.keep + now
  BY <1>1, MaxTimeIsNat DEF NoCookies, NoCookie, SInv, TInv, LInv, LimiterTypeOK
<1> QED
  BY <1>1, <1>2, <1>3, <1>4, RequestKeeps

LEMMA SendKeeps ==
  ASSUME SInv, TInv', NEW r \in Requests, SendPage(r)
  PROVE  SInv'
<1> DEFINE q == [Idle EXCEPT !.pc = "sent", !.has = jar]
<1>1. /\ q \in Request /\ q.has = jar /\ q.set = NoCookies /\ q.pc # "idle" /\ ~q.login
  BY NothingHeld DEF Idle, Request, SInv, TInv, SessionTypeOK
<1>2. req' = [req EXCEPT ![r] = q] /\ UNCHANGED <<now, jar, session>>
  BY DEF SendPage
<1> HIDE DEF q
<1>3. ~session.raced => Follows(q)
  BY <1>1 DEF Follows, SInv, AllFollow, JarMatchesSession
<1>4. Bounded(q.has) /\ Bounded(q.set)
  BY <1>1, IdleFollows DEF SInv, AllBounded
<1>5. q.set.refresh.exp <= q.set.refresh.keep + now
  BY <1>1, MaxTimeIsNat DEF NoCookies, NoCookie, SInv, TInv, LInv, LimiterTypeOK
<1> QED
  BY <1>1, <1>2, <1>3, <1>4, <1>5, RequestKeeps

LEMMA RefreshKeeps ==
  ASSUME SInv, TInv', NEW r \in Requests, ServeByRefresh(r)
  PROVE  SInv'
<1> DEFINE old == req[r].has.refresh
           set == Issue(old.exp, old.ends)
           q == [Idle EXCEPT !.pc = "served", !.set = set]
<1>0. now \in Nat
  BY MaxTimeIsNat DEF SInv, TInv, LInv, LimiterTypeOK
<1>1. /\ old.exp \in Nat /\ old.ends = old.exp /\ old.exp > now /\ old # NoCookie
  BY DEF ServeByRefresh, Renews, Accepts, Held, Request, Cookies, Cookie, SInv, TInv,
         SessionTypeOK, AllBounded, Bounded
<1>2. /\ set \in Cookies /\ set.access.exp <= old.exp /\ set.access.ends = old.exp
      /\ set.refresh = [exp |-> old.exp, ends |-> old.exp, keep |-> old.exp - now]
  BY <1>0, <1>1, Issued
<1> HIDE DEF set
<1>3. /\ q \in Request /\ q.has = NoCookies /\ q.set = set /\ q.pc # "idle" /\ ~q.login
  BY <1>2, NothingHeld DEF Idle, Request
<1>4. req' = [req EXCEPT ![r] = q] /\ UNCHANGED <<now, jar, session>>
  BY DEF ServeByRefresh, Answer, set
<1> HIDE DEF q
<1>5. ~session.raced => Follows(q)
  <2>1. SUFFICES ASSUME ~session.raced PROVE Follows(q)
    OBVIOUS
  <2>2. Follows(req[r])
    BY <2>1 DEF SInv, AllFollow
  <2>3. ~req[r].login
    BY DEF ServeByRefresh, SInv, AllBounded
  <2>4. session.in /\ old.ends = session.ends
    BY <1>1, <2>2, <2>3 DEF Follows, NoCookies
  <2> QED
    BY <1>1, <1>2, <1>3, <2>4 DEF Follows, NoCookies
<1>6. Bounded(q.has) /\ Bounded(q.set)
  BY <1>2, <1>3, IdleFollows DEF Bounded
<1>7. q.set.refresh.exp <= q.set.refresh.keep + now
  BY <1>0, <1>1, <1>2, <1>3
<1> QED
  BY <1>3, <1>4, <1>5, <1>6, <1>7, RequestKeeps

LEMMA LogInKeeps ==
  ASSUME SInv, TInv', NEW r \in Requests, NEW life \in {Short, Long}, LogIn(r, life)
  PROVE  SInv'
<1> DEFINE set == Issue(now + life, now + life)
           q == [Idle EXCEPT !.pc = "served", !.login = TRUE, !.set = set]
<1>0. now \in Nat /\ now + life \in Nat /\ now + life > now
  BY MaxTimeIsNat, LifetimesArePositive DEF SInv, TInv, LInv, LimiterTypeOK
<1>1. /\ set \in Cookies /\ set.access.exp <= now + life /\ set.access.ends = now + life
      /\ set.refresh = [exp |-> now + life, ends |-> now + life, keep |-> (now + life) - now]
  BY <1>0, Issued
<1> HIDE DEF set
<1>2. set # NoCookies
  BY <1>0, <1>1 DEF NoCookies, NoCookie
<1>3. /\ q \in Request /\ q.has = NoCookies /\ q.set = set /\ q.pc = "served" /\ q.login
  BY <1>1, NothingHeld DEF Idle, Request
<1>4. req' = [req EXCEPT ![r] = q] /\ UNCHANGED <<now, jar, session>>
  BY DEF LogIn, set
<1> HIDE DEF q
<1>5. Bounded(q.has) /\ Bounded(q.set) /\ Follows(q)
  BY <1>1, <1>3, IdleFollows DEF Bounded, Follows
<1>6. q.set.refresh.exp <= q.set.refresh.keep + now
  BY <1>0, <1>1, <1>3
<1> QED
  BY <1>2, <1>3, <1>4, <1>5, <1>6, RequestKeeps

(* A request that ends, heard or not, is idle.                             *)
LEMMA EndKeeps ==
  ASSUME SInv, TInv', NEW r \in Requests, LoseAnswer(r)
  PROVE  SInv'
<1>1. Idle.has = NoCookies /\ Idle.set = NoCookies /\ ~Idle.login
  BY DEF Idle
<1>2. Idle.set.refresh.exp <= Idle.set.refresh.keep + now
  BY <1>1, MaxTimeIsNat DEF NoCookies, NoCookie, SInv, TInv, LInv, LimiterTypeOK
<1> QED
  BY <1>1, <1>2, IdleFollows, NothingHeld, RequestKeeps DEF LoseAnswer

(* The browser hears an answer: of a page of its session, or of a login.   *)
LEMMA ReceiveKeeps ==
  ASSUME SInv, TInv', NEW r \in Requests, Receive(r)
  PROVE  SInv'
<1> DEFINE set == req[r].set
<1>0. now \in Nat /\ now' = now
  BY MaxTimeIsNat DEF Receive, SInv, TInv, LInv, LimiterTypeOK
<1>1. set \in Cookies /\ Bounded(set) /\ set.refresh.exp <= set.refresh.keep + now
  BY DEF SInv, TInv, SessionTypeOK, Request, AllBounded
<1>2. \A x \in Requests : req'[x] = IF x = r THEN Idle ELSE req[x]
  BY DEF Receive, SInv, TInv, SessionTypeOK
<1>3. /\ set = NoCookies => jar' = jar
      /\ set # NoCookies => /\ jar'.refresh.exp = set.refresh.exp
                            /\ jar'.refresh.ends = set.refresh.ends
                            /\ jar'.refresh.keep = set.refresh.keep + now
                            /\ Bounded(jar')
  BY <1>1 DEF Receive, Kept, Cookies, Cookie, Bounded
<1>4. AllBounded'
  <2>1. Idle.has = NoCookies /\ Idle.set = NoCookies /\ ~Idle.login
    BY DEF Idle
  <2>2. Bounded(NoCookies) /\ NoCookies.refresh.exp <= NoCookies.refresh.keep + now
    BY <1>0, IdleFollows DEF NoCookies, NoCookie
  <2> QED
    BY <1>0, <1>2, <1>3, <2>1, <2>2 DEF SInv, AllBounded, Bounded
<1>5. CASE req[r].login
  <2>1. set # NoCookies
    BY <1>5 DEF SInv, AllBounded
  <2>2. session' = [in |-> TRUE, ends |-> set.refresh.ends, raced |-> Others(r) # {}]
    BY <1>5 DEF Receive
  <2>3. ~session'.raced => \A x \in Requests : req'[x] = Idle
    BY <1>2, <2>2 DEF Others, SInv, AllBounded
  <2>4. AllFollow'
    <3>1. Idle.has = NoCookies /\ Idle.set = NoCookies
      BY DEF Idle
    <3>2. ~session'.raced => \A x \in Requests : Follows(req[x])'
      BY <2>2, <2>3, <3>1 DEF Follows, NoCookies
    <3> QED
      BY <1>3, <2>1, <2>2, <3>2 DEF AllFollow
  <2>5. JarMatchesSession'
    BY <1>1, <1>3, <2>1, <2>2 DEF JarMatchesSession, Bounded
  <2> QED
    BY <1>4, <2>4, <2>5 DEF SInv
<1>6. CASE ~req[r].login
  <2>1. session' = session
    BY <1>6 DEF Receive
  <2>2. ~session.raced => Follows(req[r])
    BY DEF SInv, AllFollow
  <2>3. AllFollow'
    <3>1. Follows(Idle)' /\ \A x \in Requests : Follows(req[x]) => Follows(req[x])'
                          \/ x = r
      BY <1>2, <2>1, IdleFollows DEF Follows, Idle, NoCookies
    <3> QED
      BY <1>2, <1>3, <1>6, <2>1, <2>2, <3>1, IdleFollows DEF SInv, AllFollow, Follows
  <2>4. JarMatchesSession'
    BY <1>0, <1>1, <1>3, <1>6, <2>1, <2>2 DEF SInv, JarMatchesSession, Follows, Bounded
  <2> QED
    BY <1>4, <2>3, <2>4 DEF SInv
<1> QED
  BY <1>5, <1>6

LEMMA TickKeeps == ASSUME SInv, TInv', Tick PROVE SInv'
<1>0. now \in Nat /\ now' = now + 1 /\ UNCHANGED <<req, session>>
  BY MaxTimeIsNat DEF Tick, SInv, TInv, LInv, LimiterTypeOK
<1>1. jar' = [access |-> Dropped(jar.access), refresh |-> Dropped(jar.refresh)]
  BY DEF Tick
<1>2. jar \in Cookies /\ jar' \in Cookies
  BY DEF SInv, TInv, SessionTypeOK
<1>3. AllBounded'
  <2>1. Bounded(jar')
    BY <1>1 DEF Dropped, SInv, AllBounded, Bounded, NoCookie
  <2>2. ASSUME NEW r \in Requests
        PROVE  req[r].set.refresh.exp <= req[r].set.refresh.keep + now'
    BY <1>0 DEF SInv, TInv, SessionTypeOK, Request, Cookies, Cookie, AllBounded
  <2> QED
    BY <1>0, <2>1, <2>2 DEF SInv, AllBounded, Bounded
<1>4. jar = NoCookies => jar' = NoCookies
  BY <1>0, <1>1 DEF Dropped, NoCookies, NoCookie
<1>5. jar'.refresh = NoCookie \/ jar'.refresh = jar.refresh
  BY <1>1 DEF Dropped
<1>6. AllFollow'
  BY <1>0, <1>5 DEF SInv, AllFollow, Follows
<1>7. JarMatchesSession'
  <2>1. SUFFICES ASSUME ~session.raced, session.in, now + 1 < session.ends
                 PROVE  /\ jar'.refresh.exp = session.ends
                        /\ jar'.refresh.keep >= session.ends
    BY <1>0, <1>4 DEF SInv, JarMatchesSession
  <2>2. jar.refresh.exp = session.ends /\ jar.refresh.keep >= session.ends
    BY <1>0, <2>1 DEF SInv, TInv, SessionTypeOK, JarMatchesSession
  <2>3. ~(now + 1 >= jar.refresh.keep)
    BY <1>0, <1>2, <2>1, <2>2 DEF SInv, TInv, SessionTypeOK, Cookies, Cookie
  <2> QED
    BY <1>1, <2>2, <2>3 DEF Dropped
<1> QED
  BY <1>3, <1>6, <1>7 DEF SInv

LEMMA LogOutKeeps == ASSUME SInv, TInv', LogOut PROVE SInv'
<1>1. /\ jar' = NoCookies /\ UNCHANGED <<now, req>>
      /\ session' = [in |-> FALSE, ends |-> 0, raced |-> Pending # {}]
  BY DEF LogOut, Cleared
<1>2. AllBounded'
  BY <1>1, IdleFollows DEF SInv, AllBounded, Bounded
<1>3. ~session'.raced => \A r \in Requests : req[r].has = NoCookies /\ req[r].set = NoCookies
  <2>1. session'.raced <=> Pending # {}
    BY <1>1
  <2>2. Pending = {} => \A r \in Requests : req[r] = Idle
    BY DEF Pending, SInv, AllBounded
  <2> QED
    BY <2>1, <2>2 DEF Idle
<1>4. AllFollow' /\ JarMatchesSession'
  BY <1>1, <1>3 DEF AllFollow, Follows, JarMatchesSession
<1> QED
  BY <1>2, <1>4 DEF SInv

LEMMA RestartKeeps == ASSUME SInv, TInv', Restart PROVE SInv'
<1>1. UNCHANGED <<now, jar, session>>
  BY DEF Restart
<1>2. \A r \in Requests : req'[r] = Idle \/ req'[r] = req[r]
  BY DEF Restart
<1>3. Idle.has = NoCookies /\ Idle.set = NoCookies /\ ~Idle.login
  BY DEF Idle
<1>4. NoCookies.refresh.exp <= NoCookies.refresh.keep + now
  BY MaxTimeIsNat DEF NoCookies, NoCookie, SInv, TInv, LInv, LimiterTypeOK
<1>5. AllBounded'
  BY <1>1, <1>2, <1>3, <1>4, IdleFollows DEF SInv, AllBounded, Bounded
<1>6. AllFollow' /\ JarMatchesSession'
  BY <1>1, <1>2, <1>3, IdleFollows DEF SInv, AllFollow, Follows, JarMatchesSession
<1> QED
  BY <1>5, <1>6 DEF SInv

LEMMA Unmoved == ASSUME SInv, TInv', UNCHANGED <<now, jar, req, session>> PROVE SInv'
  BY DEF SInv, AllBounded, Bounded, AllFollow, Follows, JarMatchesSession

LEMMA SessionStep == ASSUME SInv, [Next]_vars PROVE SInv'
<1>0. TInv'
  BY TypeStep DEF SInv
<1>1. ASSUME NEW r \in Requests, SendPage(r) PROVE SInv'
  BY <1>0, <1>1, SendKeeps
<1>2. ASSUME NEW r \in Requests, ServeByAccess(r) \/ SendToLogin(r) PROVE SInv'
  BY <1>0, <1>2, PlainKeeps DEF ServeByAccess, SendToLogin
<1>3. ASSUME NEW r \in Requests, ServeByRefresh(r) PROVE SInv'
  BY <1>0, <1>3, RefreshKeeps
<1>4. ASSUME NEW r \in Requests, Receive(r) PROVE SInv'
  BY <1>0, <1>4, ReceiveKeeps
<1>5. ASSUME NEW r \in Requests, LoseAnswer(r) PROVE SInv'
  BY <1>0, <1>5, EndKeeps
<1>6. ASSUME NEW r \in Requests, NEW life \in {Short, Long}, LogIn(r, life) PROVE SInv'
  BY <1>0, <1>6, LogInKeeps
<1>7. CASE Tick
  BY <1>0, <1>7, TickKeeps
<1>8. CASE LogOut
  BY <1>0, <1>8, LogOutKeeps
<1>9. CASE Restart
  BY <1>0, <1>9, RestartKeeps
<1>10. CASE LogInByApi \/ FailToLogIn \/ StartWatch \/ SwitchUser \/ UNCHANGED vars
  BY <1>0, <1>10, Unmoved
  DEF LogInByApi, FailToLogIn, StartWatch, SwitchUser, vars, sessionVars
<1> QED
  BY <1>1, <1>2, <1>3, <1>4, <1>5, <1>6, <1>7, <1>8, <1>9, <1>10 DEF Next

LEMMA SessionStarts == ASSUME Init PROVE SInv
<1>1. TInv
  BY TypeStarts
<1>2. \A r \in Requests : req[r] = Idle
  BY DEF Init
<1>3. Idle.has = NoCookies /\ Idle.set = NoCookies /\ ~Idle.login
  BY DEF Idle
<1>4. AllBounded
  BY <1>2, <1>3, IdleFollows DEF Init, LimiterInit, AllBounded, NoCookies, NoCookie
<1>5. AllFollow /\ JarMatchesSession
  BY <1>2, <1>3 DEF Init, AllFollow, Follows, JarMatchesSession
<1> QED
  BY <1>1, <1>4, <1>5 DEF SInv

(* Whatever pages are renewed, lost or answered late, and whatever comes   *)
(* of requests around a restart, the browser's cookies are those of the    *)
(* last login or logout, unless one of its answers was overtaken by it.    *)
THEOREM JarFollowsSession == Spec => []JarMatchesSession
<1>1. SInv => JarMatchesSession
  BY DEF SInv
<1> QED
  BY <1>1, SessionStarts, SessionStep, PTL DEF Spec

(* No page is served after the login its cookies go back to has ended, nor *)
(* to a user who is switched off.                                          *)
THEOREM PagesServedInTime == Spec => ServedInTime
<1> DEFINE InTime == \A r \in Requests : req[r].pc = "sent" /\ req'[r].pc = "served" =>
             active /\ \E cookie \in {req[r].has.access, req[r].has.refresh} :
                         Held(cookie) /\ now <= cookie.ends
<1>1. SInv /\ [Next]_vars => [InTime]_vars
  <2> SUFFICES ASSUME SInv, [Next]_vars, NEW r \in Requests,
                      req[r].pc = "sent", req'[r].pc = "served"
               PROVE  active /\ \E cookie \in {req[r].has.access, req[r].has.refresh} :
                                   Held(cookie) /\ now <= cookie.ends
    OBVIOUS
  <2>0. /\ now \in Nat /\ req \in [Requests -> Request] /\ req[r].has \in Cookies
        /\ Bounded(req[r].has)
    BY MaxTimeIsNat DEF SInv, TInv, LInv, LimiterTypeOK, SessionTypeOK, Request, AllBounded
  <2>1. ServeByAccess(r) \/ ServeByRefresh(r)
    <3>1. ASSUME NEW x \in Requests, SendPage(x) \/ Receive(x) \/ LoseAnswer(x)
                   \/ SendToLogin(x) \/ \E life \in {Short, Long} : LogIn(x, life)
          PROVE  FALSE
      <4>1. x = r
        BY <3>1, <2>0
        DEF SendPage, Receive, LoseAnswer, SendToLogin, Answer, LogIn
      <4> QED
        BY <3>1, <4>1, <2>0 DEF SendPage, Receive, LoseAnswer, SendToLogin, Answer, LogIn, Idle
    <3>2. ASSUME NEW x \in Requests, ServeByAccess(x) \/ ServeByRefresh(x) PROVE x = r
      BY <3>2, <2>0 DEF ServeByAccess, ServeByRefresh, Answer
    <3>3. ~Restart
      BY <2>0 DEF Restart, Idle
    <3>4. req' # req
      OBVIOUS
    <3> QED
      BY <3>1, <3>2, <3>3, <3>4
      DEF Next, vars, sessionVars, LogInByApi, FailToLogIn, LogOut, Tick, StartWatch,
          SwitchUser
  <2>2. CASE ServeByAccess(r)
    BY <2>0, <2>2 DEF ServeByAccess, Accepts, Bounded, Cookies, Cookie
  <2>3. CASE ServeByRefresh(r)
    BY <2>0, <2>3 DEF ServeByRefresh, Renews, Accepts, Bounded, Cookies, Cookie
  <2> QED
    BY <2>1, <2>2, <2>3
<1> QED
  BY <1>1, SessionStarts, SessionStep, PTL DEF Spec, ServedInTime
=============================================================================
