------------------------------- MODULE SignIn -------------------------------
(***************************************************************************)
(* Signing in with a browser.  The server keeps nothing of a session: two  *)
(* signed tokens in cookies are all there is.  A page request carries the  *)
(* cookies of the moment it is sent, is checked later, and its answer      *)
(* comes later still, in any order with others; an answer may carry new    *)
(* cookies, and logging out only drops those the browser holds.  Failed    *)
(* logins go through the rate limit.                                       *)
(***************************************************************************)
EXTENDS Limiter

CONSTANTS
  Requests,  \* requests the browser may have under way at the same time
  Access,    \* ACCESS_TOKEN_EXPIRE_MINUTES
  Short,     \* WEB_SHORT_SESSION_DELTA
  Long       \* REFRESH_TOKEN_EXPIRE_DAYS, for "remember me"

ASSUME LifetimesArePositive == {Access, Short, Long} \subseteq Nat \ {0}

VARIABLES
  active,    \* the user's is_active
  jar,       \* the cookies the browser holds
  req,       \* the requests under way
  session    \* history: the login or logout the browser last heard of

sessionVars == <<active, jar, req, session>>
vars == <<now, limiterVars, sessionVars>>

(* "exp" is the token's own expiry, "ends" the deadline of the login it    *)
(* goes back to (history), "keep" the cookie's max_age while it is under   *)
(* way and the time it is dropped once it is in the jar.                   *)
Cookie == [exp : Nat, ends : Nat, keep : Nat]
Cookies == [access : Cookie, refresh : Cookie]
NoCookie == [exp |-> 0, ends |-> 0, keep |-> 0]
NoCookies == [access |-> NoCookie, refresh |-> NoCookie]

(* "has" are the cookies sent along, "set" those the answer sets.          *)
Request == [pc : {"idle", "sent", "served", "refused"}, login : BOOLEAN,
            has : Cookies, set : Cookies]
Idle == [pc |-> "idle", login |-> FALSE, has |-> NoCookies, set |-> NoCookies]

TypeOK ==
  /\ LimiterTypeOK
  /\ active \in BOOLEAN
  /\ jar \in Cookies
  /\ req \in [Requests -> Request]
  /\ session \in [in : BOOLEAN, ends : Nat, raced : BOOLEAN]

Init ==
  /\ LimiterInit
  /\ active = TRUE
  /\ jar = NoCookies
  /\ req = [r \in Requests |-> Idle]
  /\ session = [in |-> FALSE, ends |-> 0, raced |-> FALSE]

-----------------------------------------------------------------------------
(* Tokens.                                                                 *)

Earlier(s, t) == IF s < t THEN s ELSE t

(* Mutant: an access token's life is not cut at the deadline.              *)
IssueUncut(deadline, ends) ==
  [access  |-> [exp |-> now + Access, ends |-> ends, keep |-> Access],
   refresh |-> [exp |-> deadline, ends |-> ends, keep |-> deadline - now]]

(* _issue_web_token_session: neither token outlives the deadline.          *)
Issue(deadline, ends) ==
  LET exp == Earlier(now + Access, deadline)
  IN  [access  |-> [exp |-> exp, ends |-> ends, keep |-> exp - now],
       refresh |-> [exp |-> deadline, ends |-> ends, keep |-> deadline - now]]

Held(cookie) == cookie # NoCookie

(* decode_token and the user's row: the last instant still counts.         *)
Accepts(cookie) == Held(cookie) /\ now <= cookie.exp /\ active

(* refresh_web_tokens: with no time left there is nothing to issue.        *)
Renews(cookie) == Accepts(cookie) /\ cookie.exp > now

-----------------------------------------------------------------------------
(* Pages.                                                                  *)

SendPage(r) ==
  /\ req[r].pc = "idle"
  /\ req' = [req EXCEPT ![r] = [Idle EXCEPT !.pc = "sent", !.has = jar]]
  /\ UNCHANGED <<now, limiterVars, active, jar, session>>

Answer(r, pc, set) ==
  /\ req' = [req EXCEPT ![r] = [Idle EXCEPT !.pc = pc, !.set = set]]
  /\ UNCHANGED <<now, limiterVars, active, jar, session>>

(* get_optional_web_user: by the access token, else by the refresh token,  *)
(* whose new pair the middleware sets on the answer, else to the login.    *)
ServeByAccess(r) ==
  /\ req[r].pc = "sent"
  /\ Accepts(req[r].has.access)
  /\ Answer(r, "served", NoCookies)

ServeByRefresh(r) ==
  LET old == req[r].has.refresh
  IN  /\ req[r].pc = "sent"
      /\ ~Accepts(req[r].has.access) /\ Renews(old)
      /\ Answer(r, "served", Issue(old.exp, old.ends))

SendToLogin(r) ==
  /\ req[r].pc = "sent"
  /\ ~Accepts(req[r].has.access) /\ ~Renews(req[r].has.refresh)
  /\ Answer(r, "refused", NoCookies)

-----------------------------------------------------------------------------
(* Logging in and out.                                                     *)

(* login_submit with the right credentials of an active user.              *)
LogIn(r, life) ==
  /\ req[r].pc = "idle"
  /\ active
  /\ Forget
  /\ req' = [req EXCEPT ![r] = [Idle EXCEPT !.pc = "served", !.login = TRUE,
                                            !.set = Issue(now + life, now + life)]]
  /\ UNCHANGED <<now, active, jar, session>>

(* The API's login answers with tokens the browser does not see.           *)
LogInByApi ==
  /\ active
  /\ Forget
  /\ UNCHANGED <<now, sessionVars>>

(* Either login with wrong credentials, or of a user switched off.         *)
FailToLogIn ==
  /\ Hit
  /\ UNCHANGED <<now, sessionVars>>

Others(r) == {x \in Requests \ {r} : req[x].pc # "idle"}
Pending == {x \in Requests : req[x].pc # "idle"}

(* The browser hears: it keeps what the answer sets for its max_age.       *)
Kept(cookie) == [cookie EXCEPT !.keep = @ + now]
Receive(r) ==
  LET set == req[r].set
  IN  /\ req[r].pc \in {"served", "refused"}
      /\ jar' = IF set = NoCookies THEN jar
                ELSE [access |-> Kept(set.access), refresh |-> Kept(set.refresh)]
      /\ session' = IF req[r].login
                    THEN [in |-> TRUE, ends |-> set.refresh.ends, raced |-> Others(r) # {}]
                    ELSE session
      /\ req' = [req EXCEPT ![r] = Idle]
      /\ UNCHANGED <<now, limiterVars, active>>

LoseAnswer(r) ==
  /\ req[r].pc \in {"served", "refused"}
  /\ req' = [req EXCEPT ![r] = Idle]
  /\ UNCHANGED <<now, limiterVars, active, jar, session>>

(* Mutant: one empty cookie in place of two.                               *)
ClearedToNothing == NoCookie

(* Mutant: only the access cookie goes.                                    *)
ClearedHalf == [jar EXCEPT !.access = NoCookie]

(* clear_auth_cookies.                                                     *)
Cleared == NoCookies

(* The answer to a logout arrives; the server has nothing to forget.       *)
LogOut ==
  /\ jar' = Cleared
  /\ session' = [in |-> FALSE, ends |-> 0, raced |-> Pending # {}]
  /\ UNCHANGED <<now, limiterVars, active, req>>

-----------------------------------------------------------------------------
(* Around them.                                                            *)

(* Time passes, and the browser drops the cookies whose time is over.      *)
Dropped(cookie) == IF now + 1 >= cookie.keep THEN NoCookie ELSE cookie
Tick ==
  /\ now < MaxTime
  /\ now' = now + 1
  /\ jar' = [access |-> Dropped(jar.access), refresh |-> Dropped(jar.refresh)]
  /\ UNCHANGED <<limiterVars, active, req, session>>

StartWatch == Watch /\ UNCHANGED <<now, sessionVars>>

(* An administrator switches the user in the database.                     *)
SwitchUser ==
  /\ active' = ~active
  /\ UNCHANGED <<now, limiterVars, jar, req, session>>

(* The process restarts: its buckets are gone, and the requests it had.    *)
Restart ==
  /\ Forget
  /\ req' = [r \in Requests |-> IF req[r].pc = "sent" THEN Idle ELSE req[r]]
  /\ UNCHANGED <<now, active, jar, session>>

Next ==
  \/ \E r \in Requests :
       \/ SendPage(r) \/ ServeByAccess(r) \/ ServeByRefresh(r) \/ SendToLogin(r)
       \/ Receive(r) \/ LoseAnswer(r)
       \/ \E life \in {Short, Long} : LogIn(r, life)
  \/ LogInByApi \/ FailToLogIn \/ LogOut
  \/ Tick \/ StartWatch \/ SwitchUser \/ Restart

Spec == Init /\ [][Next]_vars

-----------------------------------------------------------------------------
(* Properties.                                                             *)

(* A page is served to a user who is active at that moment, by cookies     *)
(* that go back to a login that has not ended, however often, and in       *)
(* whatever order, they were renewed on the way (get_optional_web_user;    *)
(* "the deadline does not move", refresh_web_tokens).                      *)
ServedInTime ==
  [][\A r \in Requests : req[r].pc = "sent" /\ req'[r].pc = "served" =>
       active /\ \E cookie \in {req[r].has.access, req[r].has.refresh} :
                   Held(cookie) /\ now <= cookie.ends]_vars

(* The jar is what the last login or logout left, whichever pages were     *)
(* renewed, lost or answered late since: logged out, it holds no cookie;   *)
(* logged in, a refresh cookie good for the whole session, until it ends.  *)
(* Only the answer to a page asked for before that login or logout may     *)
(* upset it (logout, set_auth_cookies, _persist_refreshed_tokens).         *)
JarMatchesSession ==
  ~session.raced =>
    /\ ~session.in => jar = NoCookies
    /\ session.in /\ now < session.ends =>
         jar.refresh.exp = session.ends /\ jar.refresh.keep >= session.ends
=============================================================================
