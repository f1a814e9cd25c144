---------------------------- MODULE AccountsProofs ----------------------------
(***************************************************************************)
(* Theorems about Accounts, for any number of requests, rows, tokens and   *)
(* accounts, and whatever their owners edit meanwhile.                     *)
(***************************************************************************)
EXTENDS Accounts, TLAPS

Proven == {"zone"} \cup Probed

(* A check has seen at work what it says has passed, for the account it    *)
(* resolved, which is the one it was asked about if it was asked.          *)
CheckOK(q) ==
  /\ q.pc = "idle" => q = Idle
  /\ q.pc # "idle" => q.token \in Tokens
  /\ q.pc \in {"identity", "fallback", "zones"} => q.passed \subseteq {"token"}
  /\ q.pc \in Routing \cup Probed => q.cf \in CfAccounts
  /\ q.cf # None /\ q.want # None => q.cf = q.want
  /\ \A p \in q.passed \cap Proven : <<q.cf, p>> \in q.shown

(* A request for a row asks about that row's account; a refresh checks the *)
(* row's token, unless that was replaced meanwhile.                        *)
RefersOK(q) ==
  q.op \in {"refresh", "update"} =>
    /\ q.row \in RowIds /\ row[q.row].st # "absent"
    /\ q.want = row[q.row].cf
    /\ q.op = "refresh" => q.token = row[q.row].token \/ q.row \in overtaken

RowOK(r) ==
  LET x == row[r]
  IN  /\ x.st = "absent" => x = NoRow
      /\ x.st # "absent" => /\ x.cf \in CfAccounts /\ x.token \in Tokens
                            /\ \A p \in Proven : <<x.cf, p>> \in x.proof
      /\ \A p \in x.report \cap Proven : <<x.cf, p>> \in x.backing
      /\ x.about = x.token \/ r \in overtaken

IInv ==
  /\ TypeOK
  /\ \A w \in Workers : CheckOK(req[w]) /\ RefersOK(req[w])
  /\ \A r \in RowIds : RowOK(r)

LEMMA IdleOK == Idle \in Request /\ NoRow \in Row /\ CheckOK(Idle) /\ RefersOK(Idle)
  BY NoneIsApart DEF Idle, Request, NoRow, Row, CheckOK, RefersOK, Routing, Probed, Items,
     Abilities

LEMMA Starts == Init => IInv
<1> SUFFICES ASSUME Init PROVE IInv
  OBVIOUS
<1>1. TypeOK
  BY IdleOK, GrantedFits, UpsetBoundIsNat DEF Init, TypeOK
<1>2. \A w \in Workers : CheckOK(req[w]) /\ RefersOK(req[w])
  BY IdleOK DEF Init
<1>3. \A r \in RowIds : RowOK(r)
  BY DEF Init, RowOK, NoRow
<1> QED
  BY <1>1, <1>2, <1>3 DEF IInv

(* A step that gives one worker a sound request and leaves the rows alone. *)
LEMMA ReqKeeps ==
  ASSUME IInv, NEW w \in Workers, NEW q \in Request, CheckOK(q), RefersOK(q),
         req' = [req EXCEPT ![w] = q], UNCHANGED <<row, overtaken>>,
         may' \in [Tokens -> SUBSET Rights], upsets' \in 0 .. UpsetBound
  PROVE  IInv'
<1>1. \A x \in Workers : req'[x] = IF x = w THEN q ELSE req[x]
  BY DEF IInv, TypeOK
<1>2. TypeOK'
  BY DEF IInv, TypeOK
<1>3. \A x \in Workers : CheckOK(req[x])' /\ RefersOK(req[x])'
  BY <1>1 DEF IInv, CheckOK, RefersOK
<1>4. \A r \in RowIds : RowOK(r)'
  BY DEF IInv, RowOK
<1> QED
  BY <1>2, <1>3, <1>4 DEF IInv

-----------------------------------------------------------------------------
(* Requests begin, and checks go on.                                       *)

LEMMA StartStep ==
  ASSUME IInv, NEW w \in Workers, Start(w)
  PROVE  IInv'
<1>1. ASSUME NEW t \in Tokens, NEW k \in CfAccounts \cup {None}, StartBind(w, t, k)
      PROVE  IInv'
  <2> DEFINE q == [Idle EXCEPT !.pc = "identity", !.op = "bind", !.token = t, !.want = k]
  <2>1. q \in Request /\ CheckOK(q) /\ RefersOK(q)
    BY NoneIsApart DEF Idle, Request, CheckOK, RefersOK, Routing, Probed
  <2> QED
    BY <1>1, <2>1, ReqKeeps DEF StartBind, Begin, IInv, TypeOK
<1>2. ASSUME NEW r \in RowIds, Live(r) PROVE row[r].cf \in CfAccounts /\ row[r].token \in Tokens
  BY <1>2 DEF IInv, RowOK, Live
<1>3. ASSUME NEW r \in RowIds, NEW target \in BOOLEAN, StartRefresh(w, r, target)
      PROVE  IInv'
  <2> DEFINE q == [Idle EXCEPT !.pc = "identity", !.op = "refresh", !.row = r,
                               !.token = row[r].token, !.want = row[r].cf, !.target = target]
  <2>1. q \in Request /\ CheckOK(q) /\ RefersOK(q)
    BY <1>2, <1>3, NoneIsApart
    DEF StartRefresh, Live, Idle, Request, CheckOK, RefersOK, Routing, Probed
  <2> QED
    BY <1>3, <2>1, ReqKeeps DEF StartRefresh, Begin, IInv, TypeOK
<1>4. ASSUME NEW r \in RowIds, NEW t \in Tokens, StartUpdate(w, r, t)
      PROVE  IInv'
  <2> DEFINE q == [Idle EXCEPT !.pc = "identity", !.op = "update", !.row = r, !.token = t,
                               !.want = row[r].cf]
  <2>1. q \in Request /\ CheckOK(q) /\ RefersOK(q)
    BY <1>2, <1>4, NoneIsApart
    DEF StartUpdate, Live, Idle, Request, CheckOK, RefersOK, Routing, Probed
  <2> QED
    BY <1>4, <2>1, ReqKeeps DEF StartUpdate, Begin, IInv, TypeOK
<1> QED
  BY <1>1, <1>3, <1>4 DEF Start

(* A request that goes on keeps the row it is about.                       *)
LEMMA RefersOn ==
  ASSUME NEW p, NEW q, RefersOK(p), q.op = p.op, q.row = p.row, q.token = p.token,
         q.want = p.want
  PROVE  RefersOK(q)
  BY DEF RefersOK

LEMMA FailKeeps ==
  ASSUME IInv, NEW w \in Workers, req[w].pc # "idle", Fail(w), UNCHANGED <<row, may, overtaken>>,
         upsets' \in 0 .. UpsetBound
  PROVE  IInv'
<1>1. CASE req[w].op = "refresh"
  <2> DEFINE q == [req[w] EXCEPT !.pc = "commit"]
  <2>1. req[w] \in Request /\ CheckOK(req[w]) /\ RefersOK(req[w])
    BY DEF IInv, TypeOK
  <2>2. q \in Request /\ CheckOK(q)
    BY <2>1 DEF Request, CheckOK, Routing, Probed
  <2>3. /\ q.op = req[w].op /\ q.row = req[w].row /\ q.token = req[w].token
        /\ q.want = req[w].want
    BY <2>1 DEF Request
  <2>4. req' = [req EXCEPT ![w] = q]
    BY <1>1 DEF Fail
  <2> HIDE DEF q
  <2>5. RefersOK(q)
    BY <2>1, <2>3, RefersOn
  <2> QED
    BY <2>2, <2>4, <2>5, ReqKeeps DEF IInv, TypeOK
<1>2. CASE req[w].op # "refresh"
  BY <1>2, IdleOK, ReqKeeps DEF Fail, End, IInv, TypeOK
<1> QED
  BY <1>1, <1>2

(* The token was recognised.                                               *)
LEMMA PassKeeps ==
  ASSUME IInv, NEW w \in Workers, req[w].pc \in {"identity", "fallback"},
         Pass(w, "token", "zones") \/ req' = [req EXCEPT ![w].pc = "fallback"],
         UNCHANGED <<row, may, upsets, overtaken>>
  PROVE  IInv'
<1>1. req[w] \in Request /\ CheckOK(req[w]) /\ RefersOK(req[w])
  BY DEF IInv, TypeOK
<1>2. PICK pc \in {"fallback", "zones"}, items \in {req[w].passed, req[w].passed \cup {"token"}} :
        req' = [req EXCEPT ![w] = [req[w] EXCEPT !.pc = pc, !.passed = items]]
  <2>1. CASE Pass(w, "token", "zones")
    BY <2>1 DEF Pass
  <2>2. CASE req' = [req EXCEPT ![w].pc = "fallback"]
    <3>1. [req[w] EXCEPT !.pc = "fallback"]
            = [req[w] EXCEPT !.pc = "fallback", !.passed = req[w].passed]
      BY <1>1 DEF Request
    <3> QED
      BY <2>2, <3>1
  <2> QED
    BY <2>1, <2>2
<1> DEFINE q == [req[w] EXCEPT !.pc = pc, !.passed = items]
<1>3. q \in Request
  BY <1>1 DEF Request, Items
<1>4. /\ q.op = req[w].op /\ q.row = req[w].row /\ q.token = req[w].token
      /\ q.want = req[w].want /\ q.cf = req[w].cf /\ q.pc = pc /\ q.passed = items
  BY <1>1 DEF Request
<1>5. req' = [req EXCEPT ![w] = q]
  BY <1>2
<1> HIDE DEF q
<1>6. items \subseteq {"token"}
  BY <1>1 DEF CheckOK
<1>7. CheckOK(q)
  BY <1>1, <1>4, <1>6 DEF CheckOK, Routing, Probed, Proven
<1>8. RefersOK(q)
  BY <1>1, <1>4, RefersOn
<1> QED
  BY <1>3, <1>5, <1>7, <1>8, ReqKeeps DEF IInv, TypeOK

(* The account resolved is one whose zones the token could read, and the   *)
(* one asked for.                                                          *)
LEMMA Resolved ==
  ASSUME NEW t \in Tokens, NEW want \in CfAccounts \cup {None},
         NEW seen \in ZoneAnswers(t, want), NEW k \in Resolve(want, seen)
  PROVE  k \in Readable(t) /\ (want # None => k = want)
<1>1. seen \subseteq Readable(t)
  BY DEF ZoneAnswers
<1>2. k \in seen /\ (want # None => k = want)
  BY DEF Resolve
<1> QED
  BY <1>1, <1>2

LEMMA ZonesStep ==
  ASSUME IInv, NEW w \in Workers, ListZones(w)
  PROVE  IInv'
<1>1. /\ req[w] \in Request /\ CheckOK(req[w]) /\ RefersOK(req[w])
      /\ req[w].pc = "zones" /\ req[w].token \in Tokens
  BY DEF IInv, TypeOK, CheckOK, ListZones, Ask
<1>2. PICK seen \in ZoneAnswers(req[w].token, req[w].want) :
        IF Resolve(req[w].want, seen) = {} THEN Fail(w)
        ELSE \E k \in Resolve(req[w].want, seen) :
               req' = [req EXCEPT ![w].pc = IF req[w].target THEN "settings" ELSE "addresses",
                         ![w].cf = k,
                         ![w].passed = @ \cup {"zone"} \cup
                            (IF req[w].target THEN {} ELSE Routing),
                         ![w].shown = {<<x, "zone">> : x \in Readable(req[w].token)}]
  BY DEF ListZones
<1>3. CASE Fail(w)
  BY <1>1, <1>3, FailKeeps DEF ListZones, IInv, TypeOK
<1>4. CASE Resolve(req[w].want, seen) # {}
  <2>1. PICK k \in Resolve(req[w].want, seen) :
          req' = [req EXCEPT ![w].pc = IF req[w].target THEN "settings" ELSE "addresses",
                    ![w].cf = k,
                    ![w].passed = @ \cup {"zone"} \cup (IF req[w].target THEN {} ELSE Routing),
                    ![w].shown = {<<x, "zone">> : x \in Readable(req[w].token)}]
    BY <1>2, <1>4
  <2> DEFINE pc == IF req[w].target THEN "settings" ELSE "addresses"
             items == req[w].passed \cup {"zone"} \cup (IF req[w].target THEN {} ELSE Routing)
             rights == {<<x, "zone">> : x \in Readable(req[w].token)}
             q == [req[w] EXCEPT !.pc = pc, !.cf = k, !.passed = items, !.shown = rights]
  <2>2. req' = [req EXCEPT ![w] = q]
    BY <2>1
  <2>3. k \in Readable(req[w].token) /\ (req[w].want # None => k = req[w].want)
    <3>1. req[w].want \in CfAccounts \cup {None}
      BY <1>1 DEF Request
    <3> QED
      BY <1>1, <3>1, Resolved
  <2>4. k \in CfAccounts /\ rights \in SUBSET Rights /\ <<k, "zone">> \in rights
    <3>1. Readable(req[w].token) \subseteq CfAccounts
      BY DEF Readable
    <3>2. \A x \in CfAccounts : <<x, "zone">> \in Rights
      BY DEF Rights, Abilities
    <3> QED
      BY <2>3, <3>1, <3>2
  <2>5. pc \in {"settings", "addresses"} /\ items \in SUBSET Items
        /\ \A p \in items \cap Proven : p = "zone"
    BY <1>1 DEF Request, CheckOK, Items, Abilities, Routing, Probed, Proven
  <2> HIDE DEF pc, items, rights
  <2>6. q \in Request
    BY <1>1, <2>4, <2>5 DEF Request, Routing, Probed
  <2>7. /\ q.op = req[w].op /\ q.row = req[w].row /\ q.token = req[w].token
        /\ q.want = req[w].want /\ q.cf = k /\ q.pc = pc /\ q.passed = items
        /\ q.shown = rights
    BY <1>1 DEF Request
  <2> HIDE DEF q
  <2>8. CheckOK(q)
    <3>1. \A p \in q.passed \cap Proven : <<q.cf, p>> \in q.shown
      BY <2>4, <2>5, <2>7
    <3>2. q.pc \notin {"idle", "identity", "fallback", "zones"}
      BY <2>5, <2>7
    <3>3. q.token \in Tokens /\ q.cf \in CfAccounts /\ (q.want # None => q.cf = q.want)
      BY <1>1, <2>3, <2>4, <2>7
    <3> QED
      BY <3>1, <3>2, <3>3 DEF CheckOK
  <2>9. RefersOK(q)
    BY <1>1, <2>7, RefersOn
  <2> QED
    BY <2>2, <2>6, <2>8, <2>9, ReqKeeps DEF ListZones, IInv, TypeOK
<1> QED
  BY <1>2, <1>3, <1>4

(* A probe that passes found the permission there.                         *)
LEMMA PassedMeansHeld ==
  ASSUME NEW t \in Tokens, NEW k \in CfAccounts, NEW p \in Routing \cup Probed, NEW a,
         Passes(p, a), a \in Deserved(t, k, p) \/ a \in Odd
  PROVE  <<k, p>> \in may[t]
<1>1. a \notin Odd
  BY DEF Passes, Odd, Routing, Probed
<1>2. a # "forbidden"
  BY DEF Passes, Routing, Probed
<1> QED
  BY <1>1, <1>2 DEF Deserved

LEMMA AnsweredKeeps ==
  ASSUME IInv, NEW w \in Workers, NEW p \in Routing \cup Probed, NEW a, Ask(w, p),
         a \in Deserved(req[w].token, req[w].cf, p) \/ a \in Odd, Answered(w, p, a),
         UNCHANGED <<row, may, overtaken>>, upsets' \in 0 .. UpsetBound
  PROVE  IInv'
<1>1. /\ req[w] \in Request /\ CheckOK(req[w]) /\ RefersOK(req[w])
      /\ req[w].token \in Tokens /\ req[w].cf \in CfAccounts
      /\ may[req[w].token] \in SUBSET Rights
  BY DEF IInv, TypeOK, CheckOK, Ask, Routing, Probed
<1> DEFINE pc == NextItem[p]
           items == IF Passes(p, a) THEN req[w].passed \cup {p} ELSE req[w].passed
           rights == req[w].shown \cup (may[req[w].token] \cap {<<req[w].cf, p>>})
           q == [req[w] EXCEPT !.pc = pc, !.passed = items, !.shown = rights]
<1>2. req' = [req EXCEPT ![w] = q]
  BY DEF Answered
<1>3. pc \in {"rules"} \cup Probed \cup {"commit"}
  BY DEF NextItem, Routing, Probed
<1>4. items \in SUBSET Items /\ rights \in SUBSET Rights
  BY <1>1 DEF Request, Items, Abilities, Routing, Probed
<1>5. \A x \in items \cap Proven : <<req[w].cf, x>> \in rights
  <2>1. Passes(p, a) => <<req[w].cf, p>> \in rights
    BY <1>1, PassedMeansHeld
  <2> QED
    BY <1>1, <2>1 DEF CheckOK
<1> HIDE DEF pc, items, rights
<1>6. q \in Request
  BY <1>1, <1>3, <1>4 DEF Request, Routing, Probed
<1>7. /\ q.op = req[w].op /\ q.row = req[w].row /\ q.token = req[w].token
      /\ q.want = req[w].want /\ q.cf = req[w].cf /\ q.pc = pc /\ q.passed = items
      /\ q.shown = rights
  BY <1>1 DEF Request
<1> HIDE DEF q
<1>8. CheckOK(q)
  <2>1. q.pc \notin {"idle", "identity", "fallback", "zones"}
    BY <1>3, <1>7 DEF Probed
  <2>2. q.token \in Tokens /\ q.cf \in CfAccounts /\ (q.want # None => q.cf = q.want)
    BY <1>1, <1>7, NoneIsApart DEF CheckOK
  <2> QED
    BY <1>5, <1>7, <2>1, <2>2 DEF CheckOK
<1>9. RefersOK(q)
  BY <1>1, <1>7, RefersOn
<1> QED
  BY <1>2, <1>6, <1>8, <1>9, ReqKeeps DEF IInv, TypeOK

LEMMA InspectStep ==
  ASSUME IInv, NEW w \in Workers, Inspect(w)
  PROVE  IInv'
<1>1. upsets \in 0 .. UpsetBound
  BY DEF IInv, TypeOK
<1>2. CASE Identity(w) \/ AccountIdentity(w)
  <2>1. /\ req[w].pc \in {"identity", "fallback"} /\ UNCHANGED <<row, may, upsets, overtaken>>
        /\ \/ Pass(w, "token", "zones") \/ req' = [req EXCEPT ![w].pc = "fallback"]
           \/ Fail(w)
    BY <1>2 DEF Identity, AccountIdentity, Ask
  <2> QED
    BY <1>1, <2>1, PassKeeps, FailKeeps
<1>3. CASE ListZones(w)
  BY <1>3, ZonesStep
<1>4. CASE Upset(w)
  <2>1. upsets' \in 0 .. UpsetBound
    BY <1>1, <1>4, UpsetBoundIsNat DEF Upset
  <2>2. CASE req[w].pc \in {"identity", "fallback", "zones"} /\ Fail(w)
    BY <1>4, <2>1, <2>2, FailKeeps DEF Upset
  <2>3. ASSUME NEW p \in Routing \cup Probed, NEW a \in Odd, Ask(w, p), Answered(w, p, a)
        PROVE  IInv'
    BY <1>4, <2>1, <2>3, AnsweredKeeps DEF Upset
  <2> QED
    BY <1>4, <2>2, <2>3 DEF Upset
<1>5. ASSUME NEW p \in Routing \cup Probed, Probe(w, p) PROVE IInv'
  BY <1>1, <1>5, AnsweredKeeps DEF Probe
<1> QED
  BY <1>2, <1>3, <1>4, <1>5 DEF Inspect

-----------------------------------------------------------------------------
(* Commits.                                                                *)

(* A request ends and one row changes, for the better.                     *)
LEMMA RowKeeps ==
  ASSUME IInv, NEW w \in Workers, End(w), NEW r \in RowIds, NEW x \in Row,
         row' = [row EXCEPT ![r] = x], RowOK(r)', overtaken' \subseteq RowIds,
         overtaken \subseteq overtaken', UNCHANGED <<may, upsets>>,
         row[r].st # "absent" => x.cf = row[r].cf /\ x.st # "absent",
         \A v \in Workers : v # w /\ req[v].op = "refresh" /\ req[v].row = r
                           => x.token = row[r].token \/ r \in overtaken'
  PROVE  IInv'
<1>1. row \in [RowIds -> Row] /\ req \in [Workers -> Request]
  BY DEF IInv, TypeOK
<1>2. \A s \in RowIds : row'[s] = IF s = r THEN x ELSE row[s]
  BY <1>1
<1>3. \A v \in Workers : req'[v] = IF v = w THEN Idle ELSE req[v]
  BY <1>1 DEF End
<1>4. TypeOK'
  BY <1>1, <1>3, IdleOK DEF IInv, TypeOK, End
<1>5. ASSUME NEW s \in RowIds PROVE RowOK(s)'
  <2>1. CASE s = r
    BY <2>1
  <2>2. CASE s # r
    BY <1>2, <2>2 DEF RowOK, IInv
  <2> QED
    BY <2>1, <2>2
<1>6. ASSUME NEW v \in Workers PROVE CheckOK(req[v])' /\ RefersOK(req[v])'
  <2>1. CASE v = w
    <3>1. req'[v] = Idle /\ Idle.op = "none"
      BY <1>3, <2>1 DEF Idle
    <3>2. CheckOK(req[v])'
      BY <3>1, IdleOK DEF CheckOK
    <3> QED
      BY <3>1, <3>2 DEF RefersOK
  <2>2. CASE v # w
    <3>1. CheckOK(req[v]) /\ RefersOK(req[v]) /\ req'[v] = req[v]
      BY <1>3, <2>2 DEF IInv
    <3>2. CheckOK(req[v])'
      BY <3>1 DEF CheckOK
    <3>3. RefersOK(req[v])'
      BY <1>2, <2>2, <3>1 DEF RefersOK
    <3> QED
      BY <3>2, <3>3
  <2> QED
    BY <2>1, <2>2
<1> QED
  BY <1>4, <1>5, <1>6 DEF IInv

(* A report that passed in full was made for one account, at work.         *)
LEMMA FullReport ==
  ASSUME IInv, NEW w \in Workers, AllPassed(w)
  PROVE  /\ req[w].cf \in CfAccounts
         /\ \A p \in Proven : <<req[w].cf, p>> \in req[w].shown
<1>1. req[w] \in Request /\ CheckOK(req[w])
  BY DEF IInv, TypeOK
<1>2. \A p \in Proven : <<req[w].cf, p>> \in req[w].shown
  BY <1>1 DEF CheckOK, AllPassed, Items, Abilities, Proven
<1>3. <<req[w].cf, "zone">> \in Rights
  BY <1>1, <1>2 DEF Request, Proven
<1> QED
  BY <1>2, <1>3 DEF Rights

LEMMA EndKeeps ==
  ASSUME IInv, NEW w \in Workers, End(w), UNCHANGED <<row, may, upsets, overtaken>>
  PROVE  IInv'
  BY IdleOK, ReqKeeps DEF End, IInv, TypeOK

LEMMA BindStep ==
  ASSUME IInv, NEW w \in Workers, CommitBind(w)
  PROVE  IInv'
<1>1. /\ req[w] \in Request /\ req[w].token \in Tokens
      /\ End(w) /\ UNCHANGED <<may, upsets, overtaken>>
  BY DEF IInv, TypeOK, CheckOK, CommitBind, Ask
<1>2. CASE ~AllPassed(w)
  BY <1>1, <1>2, EndKeeps DEF CommitBind
<1>3. CASE AllPassed(w)
  <2> DEFINE x == [st |-> "live", cf |-> req[w].cf, token |-> req[w].token,
                   report |-> req[w].passed, about |-> req[w].token,
                   backing |-> req[w].shown, proof |-> req[w].shown]
  <2>1. PICK r \in RowIds : row[r].st = "absent" /\ row' = [row EXCEPT ![r] = x]
    BY <1>3 DEF CommitBind
  <2>2. x \in Row
    BY <1>1 DEF Request, Row
  <2>3. row'[r] = x
    BY <2>1 DEF IInv, TypeOK
  <2>4. RowOK(r)'
    BY <1>1, <1>3, <2>3, FullReport DEF RowOK
  <2>5. \A v \in Workers : ~(req[v].op = "refresh" /\ req[v].row = r)
    BY <2>1 DEF IInv, RefersOK
  <2> HIDE DEF x
  <2> QED
    BY <1>1, <2>1, <2>2, <2>4, <2>5, RowKeeps DEF IInv, TypeOK
<1> QED
  BY <1>2, <1>3

LEMMA RefreshStep ==
  ASSUME IInv, NEW w \in Workers, CommitRefresh(w)
  PROVE  IInv'
<1> PICK r \in RowIds : r = req[w].row
  BY DEF IInv, RefersOK, CommitRefresh
<1> DEFINE x == [row[r] EXCEPT !.report = req[w].passed, !.about = req[w].token,
                               !.backing = req[w].shown]
<1>1. /\ req[w] \in Request /\ CheckOK(req[w]) /\ req[w].token \in Tokens
      /\ r \in RowIds /\ row[r] \in Row /\ RowOK(r) /\ row[r].st # "absent"
      /\ req[w].want = row[r].cf
      /\ req[w].token = row[r].token \/ r \in overtaken
  BY DEF IInv, TypeOK, CheckOK, RefersOK, CommitRefresh, Ask
<1>2. /\ End(w) /\ UNCHANGED <<may, upsets, overtaken>>
      /\ row' = [row EXCEPT ![r] = x]
  BY DEF CommitRefresh
<1>3. /\ x \in Row /\ x.st = row[r].st /\ x.cf = row[r].cf /\ x.token = row[r].token
      /\ x.report = req[w].passed /\ x.about = req[w].token
      /\ x.backing = req[w].shown /\ x.proof = row[r].proof
  BY <1>1 DEF Row, Request
<1>4. row'[r] = x
  BY <1>1, <1>2 DEF IInv, TypeOK
<1> HIDE DEF x
<1>5. \A p \in req[w].passed \cap Proven : <<row[r].cf, p>> \in req[w].shown
  <2> TAKE p \in req[w].passed \cap Proven
  <2>1. <<req[w].cf, p>> \in req[w].shown
    BY <1>1 DEF CheckOK
  <2>2. req[w].cf \in CfAccounts /\ row[r].cf \in CfAccounts
    BY <1>1, <2>1 DEF Request, Rights, RowOK
  <2> QED
    BY <1>1, <2>1, <2>2, NoneIsApart DEF CheckOK
<1>6. RowOK(r)'
  BY <1>1, <1>2, <1>3, <1>4, <1>5 DEF RowOK
<1> QED
  BY <1>1, <1>2, <1>3, <1>6, RowKeeps DEF IInv, TypeOK

LEMMA UpdateStep ==
  ASSUME IInv, NEW w \in Workers, CommitUpdate(w)
  PROVE  IInv'
<1> PICK r \in RowIds : r = req[w].row
  BY DEF IInv, RefersOK, CommitUpdate
<1> DEFINE x == [row[r] EXCEPT !.token = req[w].token, !.report = req[w].passed,
                               !.about = req[w].token, !.backing = req[w].shown,
                               !.proof = req[w].shown]
<1>1. /\ req[w] \in Request /\ req[w].token \in Tokens
      /\ r \in RowIds /\ row[r] \in Row /\ row[r].st # "absent"
      /\ req[w].want = row[r].cf /\ overtaken \subseteq RowIds
  BY DEF IInv, TypeOK, CheckOK, RefersOK, CommitUpdate, Ask
<1>2. End(w) /\ UNCHANGED <<may, upsets>>
  BY DEF CommitUpdate
<1>3. CASE ~AllPassed(w) \/ req[w].cf # req[w].want
  BY <1>2, <1>3, EndKeeps DEF CommitUpdate
<1>4. CASE AllPassed(w) /\ req[w].cf = req[w].want
  <2>1. /\ row' = [row EXCEPT ![r] = x]
        /\ overtaken' = IF Refreshed(w, r) THEN overtaken \cup {r} ELSE overtaken
    BY <1>4 DEF CommitUpdate
  <2>2. /\ x \in Row /\ x.st = row[r].st /\ x.cf = row[r].cf /\ x.token = req[w].token
        /\ x.report = req[w].passed /\ x.about = req[w].token
        /\ x.backing = req[w].shown /\ x.proof = req[w].shown
    BY <1>1 DEF Row, Request
  <2>3. row'[r] = x
    BY <1>1, <2>1 DEF IInv, TypeOK
  <2> HIDE DEF x
  <2>4. RowOK(r)'
    BY <1>1, <1>4, <2>2, <2>3, FullReport DEF RowOK
  <2>5. \A v \in Workers : v # w /\ req[v].op = "refresh" /\ req[v].row = r
                            => x.token = row[r].token \/ r \in overtaken'
    BY <2>1 DEF Refreshed
  <2>6. overtaken \subseteq overtaken' /\ overtaken' \subseteq RowIds
    BY <1>1, <2>1
  <2>7. row[r].st # "absent" => x.cf = row[r].cf /\ x.st # "absent"
    BY <2>2
  <2>8. x \in Row /\ row' = [row EXCEPT ![r] = x]
    BY <2>1, <2>2
  <2> QED
    BY <1>1, <1>2, <2>4, <2>5, <2>6, <2>7, <2>8, RowKeeps, ZenonT(60)
<1> QED
  BY <1>3, <1>4

-----------------------------------------------------------------------------
(* Around the platform, and the theorems.                                  *)

LEMMA AroundStep ==
  ASSUME IInv, Around
  PROVE  IInv'
<1>1. ASSUME NEW r \in RowIds, Delete(r) PROVE IInv'
  <2> DEFINE x == [row[r] EXCEPT !.st = "deleted"]
  <2>1. row[r] \in Row /\ RowOK(r) /\ row[r].st # "absent"
    BY <1>1 DEF IInv, TypeOK, Delete, Live
  <2>2. /\ x \in Row /\ x.st = "deleted" /\ x.cf = row[r].cf /\ x.token = row[r].token
        /\ x.report = row[r].report /\ x.about = row[r].about
        /\ x.backing = row[r].backing /\ x.proof = row[r].proof
    BY <2>1 DEF Row
  <2>3. row' = [row EXCEPT ![r] = x] /\ UNCHANGED <<may, upsets, req, overtaken>>
    BY <1>1 DEF Delete
  <2>4. row'[r] = x
    BY <2>3 DEF IInv, TypeOK
  <2> HIDE DEF x
  <2>5. RowOK(r)'
    BY <2>1, <2>2, <2>3, <2>4 DEF RowOK
  <2>6. row' \in [RowIds -> Row] /\ \A s \in RowIds : row'[s] = IF s = r THEN x ELSE row[s]
    BY <2>2, <2>3 DEF IInv, TypeOK
  <2>7. ASSUME NEW s \in RowIds PROVE RowOK(s)'
    BY <2>3, <2>5, <2>6 DEF RowOK, IInv
  <2>8. ASSUME NEW v \in Workers PROVE CheckOK(req[v])' /\ RefersOK(req[v])'
    BY <2>2, <2>3, <2>6 DEF IInv, CheckOK, RefersOK
  <2> QED
    BY <2>3, <2>6, <2>7, <2>8 DEF IInv, TypeOK
<1>2. ASSUME NEW t \in Tokens, NEW rights \in Edited(t), Edit(t, rights) PROVE IInv'
  <2>1. rights \in SUBSET Rights
    BY GrantedFits DEF Edited, IInv, TypeOK
  <2>2. TypeOK'
    BY <1>2, <2>1, UpsetBoundIsNat DEF Edit, IInv, TypeOK
  <2> QED
    BY <1>2, <2>2 DEF Edit, IInv, CheckOK, RefersOK, RowOK
<1>3. CASE Crash
  <2>1. req' \in [Workers -> Request] /\ \A v \in Workers : req'[v] = Idle
    BY <1>3, IdleOK DEF Crash
  <2>2. \A v \in Workers : CheckOK(req[v])' /\ RefersOK(req[v])'
    BY <2>1, IdleOK DEF CheckOK, RefersOK, Idle
  <2> QED
    BY <1>3, <2>1, <2>2 DEF Crash, IInv, TypeOK, RowOK
<1> QED
  BY <1>1, <1>2, <1>3 DEF Around

LEMMA Steps == IInv /\ [Next]_vars => IInv'
<1> SUFFICES ASSUME IInv, [Next]_vars PROVE IInv'
  OBVIOUS
<1>1. ASSUME NEW w \in Workers, Commit(w) PROVE IInv'
  BY <1>1, BindStep, RefreshStep, UpdateStep, EndKeeps DEF Commit, AnswerCheck
<1>2. CASE UNCHANGED vars
  BY <1>2 DEF vars, IInv, TypeOK, CheckOK, RefersOK, RowOK
<1> QED
  BY <1>1, <1>2, StartStep, InspectStep, AroundStep DEF Next

(* Every row, request and report keeps its shape.                          *)
THEOREM TypeCorrect == Spec => []TypeOK
<1>1. IInv => TypeOK
  BY DEF IInv
<1> QED
  BY <1>1, Starts, Steps, PTL DEF Spec

(* A stored token has shown every permission the account level needs, for  *)
(* the account it is stored under.                                         *)
THEOREM TokenProved == Spec => []StoredTokenProved
<1>1. IInv => StoredTokenProved
  BY DEF IInv, RowOK, StoredTokenProved, Live, Proven
<1> QED
  BY <1>1, Starts, Steps, PTL DEF Spec

(* What a stored report says passed was seen at work.                      *)
THEOREM ReportsVouched == Spec => []ReportVouched
<1>1. IInv => ReportVouched
  BY DEF IInv, RowOK, ReportVouched, Proven
<1> QED
  BY <1>1, Starts, Steps, PTL DEF Spec

(* A stored report is that of the stored token, unless the token was       *)
(* replaced during a refresh of the old one.                               *)
THEOREM ReportsFollowToken == Spec => []ReportOfStoredToken
<1>1. IInv => ReportOfStoredToken
  BY DEF IInv, RowOK, ReportOfStoredToken
<1> QED
  BY <1>1, Starts, Steps, PTL DEF Spec
=============================================================================
