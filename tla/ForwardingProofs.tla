-------------------------- MODULE ForwardingProofs --------------------------
(***************************************************************************)
(* Theorems about Forwarding for every set of workers, rows, identifiers,  *)
(* mailboxes and destinations and every choice of Faults: first those      *)
(* about requests that overlap in any way, then those about requests that  *)
(* keep apart, the last of which supposes that no call fails.              *)
(***************************************************************************)
EXTENDS Forwarding, TLAPS

(* What a request in flight knows stays true whatever the others do.       *)
(* The remote rule it created is its own and no row holds its id yet.      *)
MadeIsPrivate ==
  \A w \in Workers : req[w].made # None =>
    /\ remote[req[w].made].st # "unused"
    /\ remote[req[w].made].email = req[w].email
    /\ remote[req[w].made].dest = req[w].dest
    /\ \A r \in RuleIds : rule[r].cfid # req[w].made
    /\ \A v \in Workers \ {w} : req[v].made # req[w].made
    /\ \A v \in Workers, r \in RuleIds : req[v].seen[r] # req[w].made

(* The rows it loaded exist.                                               *)
LoadedRowsExist ==
  \A w \in Workers : \A r \in req[w].mine : rule[r].st # "none"

(* A request that enables a rule loaded one row, and forwards what the row *)
(* says.                                                                   *)
EnablesItsRow ==
  \A w \in Workers : \A r \in req[w].mine : req[w].op = "enable" =>
    /\ rule[r].email = req[w].email
    /\ rule[r].dest = req[w].dest
    /\ \A s \in req[w].mine : s = r

(* An id it loaded is held by no row but the one it was loaded from.       *)
SeenIsOwn ==
  \A w \in Workers : \A r \in RuleIds : req[w].seen[r] # None =>
    /\ remote[req[w].seen[r]].st # "unused"
    /\ \A s \in RuleIds \ {r} : rule[s].cfid # req[w].seen[r]

(* The inductive invariant.                                                *)
IInv ==
  /\ TypeOK
  /\ LoadedRowsExist
  /\ RowsNameTheirOwnRemote
  /\ MadeIsPrivate
  /\ EnablesItsRow
  /\ SeenIsOwn

-----------------------------------------------------------------------------
(* A worker that serves nothing holds a well-formed request record.        *)
LEMMA IdleIsRequest == Idle \in Request
  BY NoneIsNoValue DEF Idle, Request, RequestShape

(* What disable and delete load is a well-formed request.                  *)
LEMMA ClearingIsRequest ==
  ASSUME TypeOK, NEW w, NEW op \in {"disable", "delete"}, NEW R \in SUBSET RuleIds
  PROVE  StartClearing(w, op, R, "commit") \in Request
  BY DEF TypeOK, Row, RowShape, Request, RequestShape, Idle, Loaded, StartClearing

(* So is what delete_destination_address loads,                            *)
LEMMA RetiringIsRequest ==
  ASSUME TypeOK, NEW w, NEW R \in SUBSET RuleIds, NEW d \in Dests
  PROVE  [StartClearing(w, "retire", R, "drop") EXCEPT !.dest = d] \in Request
  BY NoneIsNoValue
     DEF TypeOK, Row, RowShape, Request, RequestShape, Idle, Loaded, StartClearing

(* what enabling a live row loads,                                         *)
LEMMA EnablingIsRequest ==
  ASSUME TypeOK, NEW r \in RuleIds, Live(r)
  PROVE  [Loaded("enable", "verify", {r}) EXCEPT !.email = rule[r].email,
                                                 !.dest = rule[r].dest] \in Request
  BY DEF TypeOK, Row, RowShape, Request, RequestShape, Idle, Loaded, Live

(* and what create_forwarding_rule starts with.                            *)
LEMMA CreatingIsRequest ==
  ASSUME NEW e \in Emails, NEW d \in Dests
  PROVE  [Idle EXCEPT !.op = "create", !.pc = "verify", !.email = e, !.dest = d] \in Request
  BY NoneIsNoValue DEF Idle, Request, RequestShape

(* The updates a request in flight makes to its own record give a request: *)
(* ensure_verified found the destination verified.                         *)
LEMMA VerifiedIsRequest ==
  ASSUME NEW q \in Request, q.pc = "verify"
  PROVE  [q EXCEPT !.pc = "cache"] \in Request
  BY DEF Request, RequestShape

(* ensure_verified committed its local row.                                *)
LEMMA CachedIsRequest ==
  ASSUME NEW q \in Request, q.pc = "cache"
  PROVE  [q EXCEPT !.pc = "post"] \in Request
  BY DEF Request, RequestShape

(* create_routing_rule answered with an identifier.                        *)
LEMMA PostedIsRequest ==
  ASSUME NEW q \in Request, NEW c \in CfIds
  PROVE  [q EXCEPT !.pc = "commit", !.made = c] \in Request
  BY DEF Request, RequestShape

(* Cloudflare dropped the destination.                                     *)
LEMMA DroppedIsRequest ==
  ASSUME NEW q \in Request
  PROVE  [q EXCEPT !.pc = "commit"] \in Request
  BY DEF Request, RequestShape

(* delete_routing_rule answered for one of the rows to clear.              *)
LEMMA RemovedIsRequest ==
  ASSUME NEW q \in Request, NEW R \in SUBSET q.todo,
         NEW pc \in {"remove", "drop", "commit"}, pc = "drop" => q.op = "retire"
  PROVE  [q EXCEPT !.todo = R, !.pc = pc] \in Request
<1> DEFINE x == [q EXCEPT !.todo = R, !.pc = pc]
<1>1. x \in RequestShape
  BY DEF Request, RequestShape
<1>2. /\ x.todo = R /\ x.seen = q.seen /\ x.op = q.op
      /\ x.pc = pc /\ x.email = q.email /\ x.dest = q.dest
  BY DEF Request, RequestShape
<1>3. q.todo \in SUBSET RuleIds /\ \A r \in q.todo : q.seen[r] # None
  BY DEF Request, RequestShape
<1> QED
  BY <1>1, <1>2, <1>3 DEF Request

(* A step that gives one worker a well-formed request keeps them all so.   *)
LEMMA RequestUpdate ==
  ASSUME TypeOK, NEW w \in Workers, NEW q \in Request, req' = [req EXCEPT ![w] = q]
  PROVE  req' \in [Workers -> Request]
  BY DEF TypeOK

(* The three updates a commit makes to a row in use give a complete row.   *)
LEMMA RowUpdates ==
  ASSUME TypeOK, NEW r \in RuleIds, rule[r].st # "none", NEW w \in Workers
  PROVE  /\ Cleared(w, r) \in Row
         /\ [Cleared(w, r) EXCEPT !.st = "deleted"] \in Row
         /\ [rule[r] EXCEPT !.cfid = req[w].made, !.active = TRUE] \in Row
<1>1. rule[r] \in Row /\ req[w].made \in CfIds \cup {None}
  BY DEF TypeOK, Request, RequestShape
<1>2. Cleared(w, r) \in Row
  BY <1>1 DEF Cleared, Row, RowShape
<1>3. [Cleared(w, r) EXCEPT !.st = "deleted"] \in Row
  <2>1. Cleared(w, r).email = rule[r].email /\ Cleared(w, r).dest = rule[r].dest
    BY <1>1 DEF Cleared, Row, RowShape
  <2> QED
    BY <1>1, <1>2, <2>1 DEF Row, RowShape
<1>4. [rule[r] EXCEPT !.cfid = req[w].made, !.active = TRUE] \in Row
  BY <1>1 DEF Row, RowShape
<1> QED
  BY <1>2, <1>3, <1>4

-----------------------------------------------------------------------------
(* What the steps of a request do to the shared state, in the terms the    *)
(* invariant speaks of.                                                    *)

LoadedNow(q) ==
  /\ q.made = None
  /\ \A r \in q.mine : Live(r) /\ (r \in q.wasOn <=> rule[r].active)
  /\ q.op = "create" => ~AlreadyBound(q.email)
  /\ \A r \in RuleIds : q.seen[r] = IF r \in q.mine THEN rule[r].cfid ELSE None
  /\ q.op = "enable" => \E r \in RuleIds :
       q.mine = {r} /\ q.email = rule[r].email /\ q.dest = rule[r].dest

(* StartClearing remembers the live rows it was given as they are now.     *)
LEMMA ClearingLoads ==
  ASSUME TypeOK, NEW w, NEW op \in {"disable", "delete", "retire"}, NEW next,
         NEW R \in SUBSET RuleIds, \A r \in R : Live(r), NEW d,
         NEW q, \/ q = StartClearing(w, op, R, next)
                \/ q = [StartClearing(w, op, R, next) EXCEPT !.dest = d]
  PROVE  LoadedNow(q)
<1>1. /\ q.made = None /\ q.mine = R /\ q.op = op
      /\ q.seen = [r \in RuleIds |-> IF r \in R THEN rule[r].cfid ELSE None]
      /\ q.wasOn = {r \in R : rule[r].active}
  BY DEF StartClearing, Loaded, Idle
<1> QED
  BY <1>1 DEF LoadedNow

(* Every handler starts by loading: shared state is unchanged and the      *)
(* request knows the rows as they are now.                                 *)
LEMMA StartEffect ==
  ASSUME TypeOK, NEW w \in Workers, Start(w)
  PROVE  /\ UNCHANGED <<rule, remote, cfDest, listed, mailboxes, account>>
         /\ \E q \in Request : req' = [req EXCEPT ![w] = q] /\ LoadedNow(q)
<1>1. ASSUME NEW e \in Emails, NEW d \in Dests, StartCreate(w, e, d)
      PROVE  \E q \in Request : req' = [req EXCEPT ![w] = q] /\ LoadedNow(q)
  <2> DEFINE q == [Idle EXCEPT !.op = "create", !.pc = "verify", !.email = e, !.dest = d]
  <2>1. LoadedNow(q)
    BY <1>1 DEF LoadedNow, Idle, StartCreate
  <2> QED
    BY <1>1, <2>1, CreatingIsRequest DEF StartCreate
<1>2. ASSUME NEW r \in RuleIds, StartEnable(w, r)
      PROVE  \E q \in Request : req' = [req EXCEPT ![w] = q] /\ LoadedNow(q)
  <2> DEFINE q == [Loaded("enable", "verify", {r}) EXCEPT !.email = rule[r].email,
                                                          !.dest = rule[r].dest]
  <2>1. LoadedNow(q)
    BY <1>2 DEF LoadedNow, Loaded, Idle, StartEnable, Live
  <2> QED
    BY <1>2, <2>1, EnablingIsRequest DEF StartEnable
<1>3. ASSUME NEW r \in RuleIds, StartDisable(w, r) \/ StartDelete(w, r)
      PROVE  \E q \in Request : req' = [req EXCEPT ![w] = q] /\ LoadedNow(q)
  <2>1. PICK op \in {"disable", "delete"} :
          req' = [req EXCEPT ![w] = StartClearing(w, op, {r}, "commit")]
    BY <1>3 DEF StartDisable, StartDelete
  <2>2. \A s \in {r} : Live(s)
    BY <1>3 DEF StartDisable, StartDelete
  <2>3. LoadedNow(StartClearing(w, op, {r}, "commit"))
    BY <2>2, ClearingLoads
  <2> QED
    BY <2>1, <2>3, ClearingIsRequest
<1>4. ASSUME NEW d \in Dests, StartRetire(w, d)
      PROVE  \E q \in Request : req' = [req EXCEPT ![w] = q] /\ LoadedNow(q)
  <2> DEFINE impacted == {r \in RuleIds : Live(r) /\ rule[r].dest = d}
             q == [StartClearing(w, "retire", impacted, "drop") EXCEPT !.dest = d]
  <2>1. q \in Request
    BY RetiringIsRequest
  <2>2. LoadedNow(q)
    BY ClearingLoads
  <2> HIDE DEF q
  <2>3. req' = [req EXCEPT ![w] = q]
    BY <1>4 DEF StartRetire, q
  <2> QED
    BY <2>1, <2>2, <2>3
<1> QED
  BY <1>1, <1>2, <1>3, <1>4 DEF Start, StartCreate, StartEnable, StartDisable,
     StartDelete, StartRetire

(* A request in flight goes on with what it loaded, or ends.               *)
GoesOn(w, q) ==
  \/ q = Idle
  \/ /\ q.mine = req[w].mine /\ q.seen = req[w].seen /\ q.wasOn = req[w].wasOn
     /\ q.op = req[w].op /\ q.email = req[w].email /\ q.dest = req[w].dest

(* Remote rules keep their mailbox and destination once they are in use.   *)
RemoteKept ==
  \A c \in CfIds : remote[c].st # "unused" =>
    /\ remote'[c].st # "unused"
    /\ remote'[c].email = remote[c].email
    /\ remote'[c].dest = remote[c].dest

-----------------------------------------------------------------------------
(* Preservation of the invariant.                                          *)

(* The invariant survives the start of any request: an id loaded from a    *)
(* row is held by that row only, because RowsNameTheirOwnRemote says so    *)
(* now.                                                                    *)
LEMMA StartKeeps ==
  ASSUME IInv, NEW w \in Workers, Start(w)
  PROVE  IInv'
<1> USE DEF IInv
<1>1. PICK q \in Request : req' = [req EXCEPT ![w] = q] /\ LoadedNow(q)
  BY StartEffect
<1>2. UNCHANGED <<rule, remote, cfDest, listed, mailboxes, account>>
  BY StartEffect
<1>3. req'[w] = q /\ \A v \in Workers \ {w} : req'[v] = req[v]
  BY <1>1 DEF TypeOK
<1>4. TypeOK'
  BY <1>1, <1>2 DEF TypeOK
<1>5. LoadedRowsExist'
  BY <1>1, <1>2, <1>3 DEF LoadedRowsExist, LoadedNow, Live
<1>6. RowsNameTheirOwnRemote'
  BY <1>2 DEF RowsNameTheirOwnRemote
<1>7. MadeIsPrivate'
  BY <1>1, <1>2, <1>3 DEF MadeIsPrivate, LoadedNow
<1>8. EnablesItsRow'
  BY <1>1, <1>2, <1>3 DEF EnablesItsRow, LoadedNow
<1>9. SeenIsOwn'
  BY <1>1, <1>2, <1>3 DEF SeenIsOwn, LoadedNow, RowsNameTheirOwnRemote
<1> QED
  BY <1>4, <1>5, <1>6, <1>7, <1>8, <1>9

(* The invariant survives a call that leaves the rows alone and adds no    *)
(* remote rule.                                                            *)
LEMMA GoingOnKeeps ==
  ASSUME IInv, NEW w \in Workers, NEW q \in Request, GoesOn(w, q), q.made \in {req[w].made, None},
         req' = [req EXCEPT ![w] = q], rule' = rule, RemoteKept, TypeOK'
  PROVE  IInv'
<1> USE DEF IInv
<1>1. req'[w] = q /\ \A v \in Workers \ {w} : req'[v] = req[v]
  BY DEF TypeOK
<1>2. \A r \in RuleIds : rule[r].cfid \in CfIds \cup {None}
  BY DEF TypeOK, Row, RowShape
<1>3. \A v \in Workers : /\ req[v].made \in CfIds \cup {None}
                         /\ \A r \in RuleIds : req[v].seen[r] \in CfIds \cup {None}
  BY DEF TypeOK, Request, RequestShape
<1>4. \A r \in RuleIds : Idle.seen[r] = None
  BY DEF Idle
<1>5. LoadedRowsExist'
  BY <1>1 DEF LoadedRowsExist, GoesOn, Idle
<1>6. RowsNameTheirOwnRemote'
  BY <1>2 DEF RowsNameTheirOwnRemote, RemoteKept
<1>7. MadeIsPrivate'
  BY <1>1, <1>3, <1>4 DEF MadeIsPrivate, GoesOn, RemoteKept, Idle
<1>8. EnablesItsRow'
  BY <1>1 DEF EnablesItsRow, GoesOn, Idle
<1>9. SeenIsOwn'
  BY <1>1, <1>3, <1>4 DEF SeenIsOwn, GoesOn, RemoteKept
<1> QED
  BY <1>5, <1>6, <1>7, <1>8, <1>9

(* The invariant survives the creation of a remote rule: its id is fresh,  *)
(* so no row and no other request holds it.                                *)
LEMMA PostKeeps ==
  ASSUME IInv, NEW w \in Workers, NEW a \in Answers, Post(w, a)
  PROVE  IInv'
<1> USE DEF IInv
<1>1. PICK c \in Unused :
        /\ remote' = [remote EXCEPT ![c] = [st |-> "present", email |-> req[w].email,
                                            dest |-> req[w].dest]]
        /\ \/ req' = [req EXCEPT ![w].pc = "commit", ![w].made = c]
           \/ End(w)
  BY DEF Post
<1>2. c \in CfIds /\ remote[c].st = "unused"
  BY DEF Unused
<1>3. UNCHANGED <<rule, cfDest, listed, mailboxes, account>>
  BY DEF Post
<1>4. req[w] \in Request /\ req[w].email \in Emails \cup {None}
        /\ req[w].dest \in Dests \cup {None}
  BY DEF TypeOK, Request, RequestShape
<1>5. remote' \in [CfIds -> RemoteRule]
  BY <1>1, <1>2, <1>4 DEF TypeOK, RemoteRule
<1>6. RemoteKept
  BY <1>1, <1>2 DEF RemoteKept, TypeOK
<1>7. CASE End(w)
  <2>1. TypeOK'
    BY <1>3, <1>5, <1>7, IdleIsRequest DEF TypeOK, End
  <2> QED
    BY <1>3, <1>6, <1>7, <2>1, IdleIsRequest, GoingOnKeeps DEF End, GoesOn, Idle
<1>8. CASE req' = [req EXCEPT ![w].pc = "commit", ![w].made = c]
  <2> DEFINE q == [req[w] EXCEPT !.pc = "commit", !.made = c]
  <2>1. q \in Request /\ req' = [req EXCEPT ![w] = q]
    BY <1>2, <1>4, <1>8, PostedIsRequest
  <2>2. /\ q.mine = req[w].mine /\ q.seen = req[w].seen /\ q.op = req[w].op
        /\ q.email = req[w].email /\ q.dest = req[w].dest /\ q.made = c
    BY <1>4 DEF Request, RequestShape
  <2> HIDE DEF q
  <2>3. req'[w] = q /\ \A v \in Workers \ {w} : req'[v] = req[v]
    BY <2>1 DEF TypeOK
  <2>4. TypeOK'
    BY <1>3, <1>5, <2>1 DEF TypeOK
  <2>5. \A r \in RuleIds : rule[r].cfid \in CfIds \cup {None} /\ rule[r].cfid # c
    BY <1>2, NoneIsNoValue DEF TypeOK, Row, RowShape, RowsNameTheirOwnRemote
  <2>6. \A v \in Workers : /\ req[v].made \in CfIds \cup {None} /\ req[v].made # c
                           /\ \A r \in RuleIds : /\ req[v].seen[r] \in CfIds \cup {None}
                                                 /\ req[v].seen[r] # c
    BY <1>2, NoneIsNoValue
       DEF TypeOK, Request, RequestShape, MadeIsPrivate, SeenIsOwn
  <2>7. LoadedRowsExist'
    BY <1>3, <2>2, <2>3 DEF LoadedRowsExist
  <2>8. RowsNameTheirOwnRemote'
    BY <1>3, <1>6, <2>5 DEF RowsNameTheirOwnRemote, RemoteKept
  <2>9. MadeIsPrivate'
    <3>1. /\ remote'[c].st # "unused"
          /\ remote'[c].email = q.email /\ remote'[c].dest = q.dest
      BY <1>1, <1>2, <2>2 DEF TypeOK
    <3> QED
      BY <1>3, <1>6, <2>2, <2>3, <2>5, <2>6, <3>1 DEF MadeIsPrivate, RemoteKept
  <2>10. EnablesItsRow'
    BY <1>3, <2>2, <2>3 DEF EnablesItsRow
  <2>11. SeenIsOwn'
    BY <1>3, <1>6, <2>2, <2>3, <2>6 DEF SeenIsOwn, RemoteKept
  <2> QED
    BY <2>4, <2>7, <2>8, <2>9, <2>10, <2>11
<1> QED
  BY <1>1, <1>7, <1>8

(* Every call but the creation leaves rows alone, keeps what remote rules  *)
(* are for, and goes on with what the request loaded.                      *)
LEMMA CallEffect ==
  ASSUME TypeOK, NEW w \in Workers,
         \/ Verify(w) \/ Cache(w) \/ Reject(w)
         \/ \E a \in Answers : Drop(w, a) \/ \E r \in RuleIds : Remove(w, r, a)
  PROVE  /\ TypeOK' /\ RemoteKept /\ rule' = rule
         /\ \E q \in Request : /\ req' = [req EXCEPT ![w] = q]
                              /\ GoesOn(w, q) /\ q.made \in {req[w].made, None}
<1>0. req[w] \in Request
  BY DEF TypeOK
<1>1. /\ rule' = rule
      /\ mailboxes' = mailboxes /\ account' = account
      /\ listed' = listed \/ \E d \in Dests : listed' = listed \cup {d}
  <2>1. CASE Cache(w)
    <3>1. req[w].dest \in Dests
      BY <1>0, <2>1 DEF Cache, Request, RequestShape
    <3> QED
      BY <2>1, <3>1 DEF Cache
  <2> QED
    BY <2>1 DEF Verify, Reject, Drop, Remove
<1>2. cfDest' = cfDest \/ \E d \in Dests \cup {None} : cfDest' = [cfDest EXCEPT ![d] = "absent"]
  BY <1>0 DEF Verify, Cache, Reject, Drop, Remove, Request, RequestShape
<1>3. RemoteKept /\ remote' \in [CfIds -> RemoteRule]
  <2>1. CASE UNCHANGED remote
    BY <2>1 DEF RemoteKept, TypeOK
  <2>2. ASSUME NEW a \in Answers, Drop(w, a)
        PROVE  RemoteKept /\ remote' \in [CfIds -> RemoteRule]
    BY <2>2 DEF Drop, RemoteKept, TypeOK, RemoteRule
  <2>3. ASSUME NEW a \in Answers, NEW r \in RuleIds, Remove(w, r, a)
        PROVE  RemoteKept /\ remote' \in [CfIds -> RemoteRule]
    <3>1. PICK c \in CfIds \cup {None} : remote' = [remote EXCEPT ![c].st = "removed"]
      BY <1>0, <2>3 DEF Remove, Request, RequestShape
    <3> QED
      BY <3>1 DEF RemoteKept, TypeOK, RemoteRule
  <2> QED
    BY <2>1, <2>2, <2>3 DEF Verify, Cache, Reject
<1> DEFINE GoesOnAs(q) == /\ req' = [req EXCEPT ![w] = q]
                       /\ GoesOn(w, q) /\ q.made \in {req[w].made, None}
<1>4. \E q \in Request : GoesOnAs(q)
  <2>1. CASE End(w)
    BY <2>1, IdleIsRequest DEF End, GoesOn, Idle
  <2>2. ASSUME NEW pc \in {"cache", "post", "commit"}, [req[w] EXCEPT !.pc = pc] \in Request,
               req' = [req EXCEPT ![w].pc = pc]
        PROVE  \E q \in Request : GoesOnAs(q)
    <3> DEFINE q == [req[w] EXCEPT !.pc = pc]
    <3>1. GoesOn(w, q) /\ q.made = req[w].made
      BY <1>0 DEF GoesOn, Request, RequestShape
    <3> QED
      BY <2>2, <3>1
  <2>3. CASE Verify(w)
    BY <1>0, <2>1, <2>2, <2>3, VerifiedIsRequest DEF Verify
  <2>4. CASE Cache(w)
    BY <1>0, <2>2, <2>4, CachedIsRequest DEF Cache
  <2>5. CASE Reject(w)
    BY <2>1, <2>5 DEF Reject
  <2>6. ASSUME NEW a \in Answers, Drop(w, a)
        PROVE  \E q \in Request : GoesOnAs(q)
    BY <1>0, <2>1, <2>2, <2>6, DroppedIsRequest DEF Drop
  <2>7. ASSUME NEW a \in Answers, NEW r \in RuleIds, Remove(w, r, a)
        PROVE  \E q \in Request : GoesOnAs(q)
    <3> DEFINE left == req[w].todo \ {r}
               pc == IF left # {} THEN "remove"
                     ELSE IF req[w].op = "retire" THEN "drop" ELSE "commit"
               q == [req[w] EXCEPT !.todo = left, !.pc = pc]
    <3>1. q \in Request
      BY <1>0, RemovedIsRequest
    <3>2. GoesOn(w, q) /\ q.made = req[w].made
      BY <1>0 DEF GoesOn, Request, RequestShape
    <3>3. req' = [req EXCEPT ![w] = q] \/ End(w)
      BY <2>7 DEF Remove
    <3> QED
      BY <2>1, <3>1, <3>2, <3>3
  <2> QED
    BY <2>3, <2>4, <2>5, <2>6, <2>7
<1>5. TypeOK'
  BY <1>1, <1>2, <1>3, <1>4 DEF TypeOK
<1> QED
  BY <1>1, <1>3, <1>4, <1>5

(* The invariant survives every call but the creation.                     *)
LEMMA CallKeeps ==
  ASSUME IInv, NEW w \in Workers,
         \/ Verify(w) \/ Cache(w) \/ Reject(w)
         \/ \E a \in Answers : Drop(w, a) \/ \E r \in RuleIds : Remove(w, r, a)
  PROVE  IInv'
<1>1. TypeOK
  BY DEF IInv
<1> QED
  BY <1>1, CallEffect, GoingOnKeeps

(* A commit ends the request and rewrites rows.                            *)
LEMMA CommitTypes ==
  ASSUME TypeOK, NEW w \in Workers, End(w), rule' \in [RuleIds -> Row],
         UNCHANGED <<remote, cfDest, mailboxes, account>>, listed' \subseteq Dests
  PROVE  /\ TypeOK'
         /\ req'[w] = Idle /\ \A v \in Workers \ {w} : req'[v] = req[v]
  BY IdleIsRequest DEF TypeOK, End

(* The rows a request works on are rows.                                   *)
LEMMA MineAreRows ==
  ASSUME TypeOK, NEW w \in Workers
  PROVE  req[w].mine \subseteq RuleIds
  BY DEF TypeOK, Request, RequestShape

(* The invariant survives the insert of a row: the id it stores is known   *)
(* to this request alone (MadeIsPrivate).                                  *)
LEMMA CommitCreateKeeps ==
  ASSUME IInv, NEW w \in Workers, CommitCreate(w)
  PROVE  IInv'
<1> USE DEF IInv
<1>0. req[w] \in Request /\ req[w].pc = "commit" /\ req[w].op = "create"
  BY DEF TypeOK, CommitCreate
<1> DEFINE row == [st |-> "live", email |-> req[w].email, dest |-> req[w].dest,
                   cfid |-> req[w].made, active |-> TRUE]
<1>1. PICK r \in RuleIds : rule[r].st = "none" /\ rule' = [rule EXCEPT ![r] = row]
  BY DEF CommitCreate
<1>2. row \in Row
  BY <1>0 DEF Request, RequestShape, Row, RowShape
<1>3. /\ TypeOK'
      /\ req'[w] = Idle /\ \A v \in Workers \ {w} : req'[v] = req[v]
      /\ remote' = remote
  <2>1. rule' \in [RuleIds -> Row]
    BY <1>1, <1>2 DEF TypeOK
  <2> QED
    BY <2>1, CommitTypes DEF CommitCreate, TypeOK
<1>4. rule'[r] = row /\ \A s \in RuleIds \ {r} : rule'[s] = rule[s]
  BY <1>1 DEF TypeOK
<1>5. LoadedRowsExist'
  BY <1>3, <1>4, MineAreRows DEF LoadedRowsExist, Idle
<1>6. RowsNameTheirOwnRemote'
  BY <1>3, <1>4 DEF RowsNameTheirOwnRemote, MadeIsPrivate
<1>7. MadeIsPrivate'
  BY <1>3, <1>4 DEF MadeIsPrivate, Idle
<1>8. EnablesItsRow'
  BY <1>1, <1>3, <1>4, MineAreRows DEF EnablesItsRow, LoadedRowsExist, Idle
<1>9. SeenIsOwn'
  BY <1>3, <1>4 DEF SeenIsOwn, MadeIsPrivate, Idle
<1> QED
  BY <1>3, <1>5, <1>6, <1>7, <1>8, <1>9

(* The invariant survives the commit of an enabled rule: the id made is    *)
(* private and was made for what the row says (EnablesItsRow).             *)
LEMMA CommitEnableKeeps ==
  ASSUME IInv, NEW w \in Workers, CommitEnable(w)
  PROVE  IInv'
<1> USE DEF IInv
<1>0. req[w] \in Request /\ req[w].op = "enable" /\ req[w].made \in CfIds \cup {None}
  BY DEF TypeOK, CommitEnable, Request, RequestShape
<1>1. /\ \A r \in req[w].mine : rule'[r] = [rule[r] EXCEPT !.cfid = req[w].made, !.active = TRUE]
      /\ \A r \in RuleIds \ req[w].mine : rule'[r] = rule[r]
      /\ req[w].mine \subseteq RuleIds
  BY <1>0 DEF CommitEnable, Request, RequestShape
<1>2. \A r \in RuleIds : /\ rule'[r].st = rule[r].st
                         /\ rule'[r].email = rule[r].email /\ rule'[r].dest = rule[r].dest
                         /\ rule'[r].cfid = IF r \in req[w].mine THEN req[w].made
                                                                 ELSE rule[r].cfid
  <2>1. \A r \in RuleIds : rule[r] \in RowShape
    BY DEF TypeOK, Row
  <2>2. \A r \in RuleIds :
          LET x == [rule[r] EXCEPT !.cfid = req[w].made, !.active = TRUE] IN
            /\ x.st = rule[r].st /\ x.email = rule[r].email
            /\ x.dest = rule[r].dest /\ x.cfid = req[w].made
    BY <2>1 DEF RowShape
  <2> QED
    BY <1>1, <2>2
<1>3. /\ TypeOK'
      /\ req'[w] = Idle /\ \A v \in Workers \ {w} : req'[v] = req[v]
      /\ remote' = remote
  <2>1. \A r \in req[w].mine :
          [rule[r] EXCEPT !.cfid = req[w].made, !.active = TRUE] \in Row
    BY <1>1, RowUpdates DEF LoadedRowsExist
  <2>2. rule' \in [RuleIds -> Row]
    BY <2>1 DEF CommitEnable, TypeOK
  <2> QED
    BY <2>2, CommitTypes DEF CommitEnable, TypeOK
<1>5. LoadedRowsExist'
  BY <1>2, <1>3, MineAreRows DEF LoadedRowsExist, Idle
<1>6. RowsNameTheirOwnRemote'
  <2>1. ASSUME NEW r \in RuleIds, rule'[r].cfid # None, r \in req[w].mine
        PROVE  /\ remote[req[w].made].st # "unused"
               /\ remote[req[w].made].email = rule[r].email
               /\ remote[req[w].made].dest = rule[r].dest
               /\ \A s \in RuleIds \ {r} : rule'[s].cfid # req[w].made
    BY <1>0, <1>2, <2>1 DEF MadeIsPrivate, EnablesItsRow
  <2>2. ASSUME NEW r \in RuleIds, rule'[r].cfid # None, r \notin req[w].mine
        PROVE  \A s \in RuleIds \ {r} : rule'[s].cfid # rule[r].cfid
    BY <1>0, <1>2, <2>2 DEF MadeIsPrivate, RowsNameTheirOwnRemote
  <2> QED
    BY <1>2, <1>3, <2>1, <2>2 DEF RowsNameTheirOwnRemote
<1>7. MadeIsPrivate'
  BY <1>2, <1>3 DEF MadeIsPrivate, Idle
<1>8. EnablesItsRow'
  BY <1>2, <1>3, MineAreRows DEF EnablesItsRow, Idle
<1>9. SeenIsOwn'
  BY <1>2, <1>3 DEF SeenIsOwn, MadeIsPrivate, Idle
<1> QED
  BY <1>3, <1>5, <1>6, <1>7, <1>8, <1>9

(* The invariant survives the commit of disable, delete and retire: a      *)
(* cf_rule_id is cleared or left as it is.                                 *)
LEMMA CommitClearKeeps ==
  ASSUME IInv, NEW w \in Workers, CommitClear(w)
  PROVE  IInv'
<1> USE DEF IInv
<1>1. \A r \in RuleIds :
        /\ r \in req[w].mine => rule'[r] \in {Cleared(w, r), [Cleared(w, r) EXCEPT !.st = "deleted"]}
        /\ r \notin req[w].mine => rule'[r] = rule[r]
  BY DEF CommitClear
<1>2. \A r \in RuleIds : /\ rule'[r].st # "none" \/ rule'[r].st = rule[r].st
                         /\ rule'[r].email = rule[r].email /\ rule'[r].dest = rule[r].dest
                         /\ rule'[r].cfid \in {rule[r].cfid, None}
  <2>1. \A r \in RuleIds : rule[r] \in RowShape
    BY DEF TypeOK, Row
  <2>2. \A r \in RuleIds : LET c == Cleared(w, r) IN
          /\ c \in RowShape /\ c.st = rule[r].st
          /\ c.email = rule[r].email /\ c.dest = rule[r].dest
          /\ c.cfid \in {rule[r].cfid, None}
    BY <2>1 DEF Cleared, RowShape
  <2>3. \A r \in RuleIds : LET c == [Cleared(w, r) EXCEPT !.st = "deleted"] IN
          /\ c.st = "deleted"
          /\ c.email = rule[r].email /\ c.dest = rule[r].dest
          /\ c.cfid \in {rule[r].cfid, None}
    BY <2>2 DEF RowShape
  <2> QED
    BY <1>1, <2>2, <2>3
<1>3. /\ TypeOK'
      /\ req'[w] = Idle /\ \A v \in Workers \ {w} : req'[v] = req[v]
      /\ remote' = remote
  <2>1. \A r \in req[w].mine : r \in RuleIds =>
          Cleared(w, r) \in Row /\ [Cleared(w, r) EXCEPT !.st = "deleted"] \in Row
    BY RowUpdates DEF LoadedRowsExist
  <2>2. rule' \in [RuleIds -> Row]
    BY <2>1 DEF CommitClear, TypeOK
  <2> QED
    BY <2>2, CommitTypes DEF CommitClear, TypeOK
<1>5. LoadedRowsExist'
  BY <1>2, <1>3, MineAreRows DEF LoadedRowsExist, Idle
<1>6. RowsNameTheirOwnRemote'
  BY <1>2, <1>3 DEF RowsNameTheirOwnRemote
<1>7. MadeIsPrivate'
  BY <1>2, <1>3 DEF MadeIsPrivate, Idle
<1>8. EnablesItsRow'
  BY <1>2, <1>3, MineAreRows DEF EnablesItsRow, Idle
<1>9. SeenIsOwn'
  BY <1>2, <1>3 DEF SeenIsOwn, Idle
<1> QED
  BY <1>3, <1>5, <1>6, <1>7, <1>8, <1>9

(* The invariant survives what happens around the requests, crashes        *)
(* included.                                                               *)
LEMMA AroundKeeps ==
  ASSUME IInv, Around \/ UNCHANGED vars
  PROVE  IInv'
<1> USE DEF IInv
<1>1. UNCHANGED <<rule, remote>>
  BY DEF Around, AddDestination, OwnerVerifies, DeleteMailbox, ReviveMailbox,
         SyncDestinations, SwitchAccount, UnbindAccount, Crash, vars
<1>2. UNCHANGED req \/ req' = [w \in Workers |-> Idle]
  BY DEF Around, AddDestination, OwnerVerifies, DeleteMailbox, ReviveMailbox,
         SyncDestinations, SwitchAccount, UnbindAccount, Crash, vars
<1>3. TypeOK'
  BY IdleIsRequest
     DEF Around, AddDestination, OwnerVerifies, DeleteMailbox, ReviveMailbox,
         SyncDestinations, SwitchAccount, UnbindAccount, Crash, vars, TypeOK
<1>4. RowsNameTheirOwnRemote'
  BY <1>1 DEF RowsNameTheirOwnRemote
<1>5. CASE UNCHANGED req
  BY <1>1, <1>3, <1>4, <1>5
     DEF LoadedRowsExist, MadeIsPrivate, EnablesItsRow, SeenIsOwn
<1>6. CASE req' = [w \in Workers |-> Idle]
  BY <1>1, <1>3, <1>4, <1>6
     DEF LoadedRowsExist, MadeIsPrivate, EnablesItsRow, SeenIsOwn, Idle
<1> QED
  BY <1>2, <1>5, <1>6

(* Every step keeps the invariant.                                         *)
LEMMA NextKeeps == IInv /\ [Next]_vars => IInv'
<1> SUFFICES ASSUME IInv, [Next]_vars PROVE IInv'
  OBVIOUS
<1>1. ASSUME NEW w \in Workers, Continue(w) PROVE IInv'
  BY <1>1, CallKeeps, PostKeeps, CommitCreateKeeps, CommitEnableKeeps, CommitClearKeeps
     DEF Continue
<1> QED
  BY <1>1, StartKeeps, AroundKeeps DEF Next

(* An empty database satisfies the invariant.                              *)
LEMMA InitHolds == Init => IInv
  BY IdleIsRequest
     DEF Init, IInv, TypeOK, NoRow, NoRemote, Row, RowShape, RemoteRule, LoadedRowsExist,
         RowsNameTheirOwnRemote, MadeIsPrivate, EnablesItsRow, SeenIsOwn, Idle

(* The inductive invariant holds in every reachable state, for any number  *)
(* of concurrent requests and any faults.                                  *)
THEOREM Invariance == Spec => []IInv
  BY InitHolds, NextKeeps, PTL DEF Spec

(* In every reachable state every variable has its type, rows in use are   *)
(* complete, and each request carries what the steps ahead of it need.     *)
THEOREM TypeCorrect == Spec => []TypeOK
<1>1. IInv => TypeOK
  BY DEF IInv
<1> QED
  BY <1>1, Invariance, PTL

(* Whatever the number of concurrent requests and the failures, a row's    *)
(* cf_rule_id names a remote rule made for the row's own mailbox and       *)
(* destination, and no two rows share one.                                 *)
THEOREM RowsOwnTheirRemote == Spec => []RowsNameTheirOwnRemote
<1>1. IInv => RowsNameTheirOwnRemote
  BY DEF IInv
<1> QED
  BY <1>1, Invariance, PTL

(* Whatever the interleaving, the remote rule a row holds is removed only  *)
(* by a request that loaded the id from that row.                          *)
THEOREM RemovedByItsOwn == Spec => OnlyItsOwnRequestsRemove
<1> DEFINE Owned == \A r \in RuleIds : \A c \in CfIds :
       rule[r].cfid = c /\ remote[c].st # "removed" /\ remote'[c].st = "removed" =>
         \E w \in Workers : r \in req[w].todo /\ req[w].seen[r] = c
<1>1. IInv /\ [Next]_vars => [Owned]_vars
  <2> SUFFICES ASSUME IInv, [Next]_vars, NEW r \in RuleIds, NEW c \in CfIds,
                      rule[r].cfid = c, remote[c].st # "removed", remote'[c].st = "removed"
               PROVE  \E w \in Workers : r \in req[w].todo /\ req[w].seen[r] = c
    OBVIOUS
  <2>1. PICK w \in Workers : Start(w) \/ Continue(w)
    <3>1. CASE Around \/ UNCHANGED vars
      BY <3>1 DEF Around, AddDestination, OwnerVerifies, DeleteMailbox, ReviveMailbox,
         SyncDestinations, SwitchAccount, UnbindAccount, Crash, vars
    <3> QED
      BY <3>1 DEF Next
  <2>2. TypeOK /\ SeenIsOwn
    BY DEF IInv
  <2>3. ~Start(w)
    BY <2>2, StartEffect
  <2>4. ASSUME NEW a \in Answers, Post(w, a) PROVE FALSE
    BY <2>2, <2>4 DEF Post, Unused, TypeOK
  <2>5. ASSUME NEW a \in Answers, Drop(w, a) PROVE FALSE
    BY <2>2, <2>5 DEF Drop, TypeOK, RemoteRule
  <2>6. PICK a \in Answers, s \in RuleIds : Remove(w, s, a)
    BY <2>1, <2>3, <2>4, <2>5
       DEF Continue, Verify, Cache, Reject, CommitCreate, CommitEnable, CommitClear
  <2>7. req[w].seen[s] = c /\ s \in req[w].todo
    BY <2>2, <2>6 DEF Remove, TypeOK
  <2> QED
    BY <2>2, <2>7, NoneIsNoValue DEF SeenIsOwn
<1>2. Spec => [][Owned]_vars
  BY <1>1, Invariance, PTL DEF Spec
<1> QED
  BY <1>2 DEF OnlyItsOwnRequestsRemove

-----------------------------------------------------------------------------
(* Requests that keep apart: what the checks ahead of the calls achieve    *)
(* while overlapping requests are about different mailboxes, whatever      *)
(* Cloudflare or the process does.                                         *)
USE DEF Live

(* A request in flight still sees the rows as it loaded them.              *)
SeenIsCurrent ==
  \A w \in Workers :
    /\ req[w].op = "create" => ~AlreadyBound(req[w].email)
    /\ \A r \in req[w].mine : /\ Live(r)
                              /\ req[w].seen[r] = rule[r].cfid
                              /\ r \in req[w].wasOn <=> rule[r].active

ApartInv ==
  IInv /\ Apart /\ SeenIsCurrent /\ SourceBoundOnce /\ DeletedRuleForwardsNothing

(* A step of one request leaves what the others remember alone.            *)
LEMMA ActsAlone ==
  ASSUME TypeOK, NEW w \in Workers, Start(w) \/ Continue(w), NEW v \in Workers \ {w}
  PROVE  req'[v] = req[v]
<1>1. CASE Start(w)
  BY <1>1, StartEffect DEF TypeOK
<1>2. CASE \/ Verify(w) \/ Cache(w) \/ Reject(w)
           \/ \E a \in Answers : Drop(w, a) \/ \E r \in RuleIds : Remove(w, r, a)
  BY <1>2, CallEffect DEF TypeOK
<1>3. ASSUME NEW a \in Answers, Post(w, a) PROVE req'[v] = req[v]
  BY <1>3 DEF Post, End, TypeOK
<1>4. CASE CommitCreate(w) \/ CommitEnable(w) \/ CommitClear(w)
  BY <1>4 DEF CommitCreate, CommitEnable, CommitClear, End, TypeOK
<1> QED
  BY <1>1, <1>2, <1>3, <1>4 DEF Continue

(* Requests that keep apart go on keeping apart: in flight, a request      *)
(* stays with the mailboxes and the destination it started with.           *)
LEMMA GoingOnStaysApart ==
  ASSUME IInv, Apart, NEW w \in Workers, Continue(w)
  PROVE  Apart'
<1>0. TypeOK /\ LoadedRowsExist
  BY DEF IInv
<1>1. \A v \in Workers \ {w} : req'[v] = req[v]
  BY <1>0, ActsAlone
<1>2. GoesOn(w, req'[w])
  <2>1. CASE \/ Verify(w) \/ Cache(w) \/ Reject(w)
             \/ \E a \in Answers : Drop(w, a) \/ \E r \in RuleIds : Remove(w, r, a)
    BY <1>0, <2>1, CallEffect DEF TypeOK
  <2>2. ASSUME NEW a \in Answers, Post(w, a) PROVE GoesOn(w, req'[w])
    <3>1. req[w] \in RequestShape
      BY <1>0 DEF TypeOK, Request
    <3> QED
      BY <1>0, <2>2, <3>1 DEF Post, End, GoesOn, TypeOK, RequestShape
  <2>3. CASE CommitCreate(w) \/ CommitEnable(w) \/ CommitClear(w)
    BY <1>0, <2>3 DEF CommitCreate, CommitEnable, CommitClear, End, GoesOn, TypeOK
  <2> QED
    BY <2>1, <2>2, <2>3 DEF Continue
<1>3. \A r \in RuleIds : rule[r].st # "none" => rule'[r].email = rule[r].email
  <2>1. \A r \in RuleIds : rule[r] \in RowShape
    BY <1>0 DEF TypeOK, Row
  <2>2. CASE CommitCreate(w)
    BY <1>0, <2>2 DEF CommitCreate, TypeOK
  <2>3. CASE CommitEnable(w)
    BY <2>1, <2>3 DEF CommitEnable, RowShape
  <2>4. CASE CommitClear(w)
    BY <2>1, <2>4 DEF CommitClear, Cleared, RowShape
  <2>5. CASE ~(CommitCreate(w) \/ CommitEnable(w) \/ CommitClear(w))
    BY <2>5 DEF Continue, Verify, Cache, Reject, Post, Drop, Remove
  <2> QED
    BY <2>2, <2>3, <2>4, <2>5
<1>4. ASSUME NEW v \in Workers
      PROVE  /\ MailboxesOf(v)' \subseteq MailboxesOf(v)
             /\ req'[v].op \in {req[v].op, "none"} /\ req'[v].dest \in {req[v].dest, None}
  <2>1. \A r \in req[v].mine : r \in RuleIds /\ rule[r].st # "none"
    BY <1>0, MineAreRows DEF LoadedRowsExist
  <2>2. \/ req'[v].mine = req[v].mine /\ req'[v].email = req[v].email
        \/ req'[v].mine = {} /\ req'[v].email = None
    BY <1>1, <1>2 DEF GoesOn, Idle
  <2>3. /\ req'[v].op \in {req[v].op, "none"}
        /\ req'[v].dest \in {req[v].dest, None}
    BY <1>1, <1>2 DEF GoesOn, Idle
  <2> QED
    BY <1>3, <2>1, <2>2, <2>3 DEF MailboxesOf
<1>5. ASSUME NEW v \in Workers, NEW u \in Workers, v # u, req'[v].op = "retire"
      PROVE  req'[u].dest # req'[v].dest
  <2>1. req[v].op = "retire" /\ req[v].dest # None
    BY <1>0, <1>4, <1>5 DEF TypeOK, Request
  <2>2. req[u].dest # req[v].dest /\ req'[v].dest = req[v].dest
    BY <1>1, <1>2, <1>5, <2>1 DEF Apart, GoesOn, Idle
  <2> QED
    BY <1>4, <2>1, <2>2
<1> QED
  BY <1>4, <1>5 DEF Apart

(* Only the start of a request could bring it close to another one.        *)
LEMMA ApartStays ==
  ASSUME IInv, Apart, [ApartNext]_vars
  PROVE  [Next /\ Apart']_vars
<1>1. ASSUME Around PROVE Apart'
  <2>1. rule' = rule /\ (req' = req \/ req' = [w \in Workers |-> Idle])
    BY <1>1 DEF Around, AddDestination, OwnerVerifies, DeleteMailbox, ReviveMailbox,
       SyncDestinations, SwitchAccount, UnbindAccount, Crash
  <2> QED
    BY <2>1 DEF Apart, MailboxesOf, Idle
<1> QED
  BY <1>1, GoingOnStaysApart DEF ApartNext, Next

(* Requests that keep apart share no row, and none is about the mailbox or *)
(* the destination another one creates a rule for.                         *)
LEMMA NothingShared ==
  ASSUME Apart, TypeOK, NEW v \in Workers, NEW w \in Workers, v # w
  PROVE  /\ req[v].mine \cap req[w].mine = {}
         /\ req[w].email # None =>
              /\ req[v].email # req[w].email
              /\ \A r \in req[v].mine : rule[r].email # req[w].email
         /\ req[v].op = "retire" => req[w].dest # req[v].dest
<1>1. /\ MailboxesOf(v) \cap MailboxesOf(w) = {}
      /\ req[v].op = "retire" => req[w].dest # req[v].dest
  BY DEF Apart
<1>2. /\ \A u \in Workers : \A r \in req[u].mine : rule[r].email \in MailboxesOf(u)
      /\ \A u \in Workers : req[u].email # None => req[u].email \in MailboxesOf(u)
  BY DEF MailboxesOf
<1> QED
  BY <1>1, <1>2

(* A step that leaves the rows alone keeps what is known of them.          *)
LEMMA RowsUntouched ==
  ASSUME ApartInv, rule' = rule, NEW w \in Workers, NEW q \in Request,
         req' = [req EXCEPT ![w] = q], LoadedNow(q) \/ GoesOn(w, q)
  PROVE  SeenIsCurrent' /\ SourceBoundOnce' /\ DeletedRuleForwardsNothing'
<1>1. req'[w] = q /\ \A v \in Workers \ {w} : req'[v] = req[v]
  BY DEF ApartInv, IInv, TypeOK
<1>2. SourceBoundOnce' /\ DeletedRuleForwardsNothing'
  BY DEF ApartInv, SourceBoundOnce, DeletedRuleForwardsNothing
<1>3. q.mine \subseteq RuleIds
  BY DEF Request, RequestShape
<1> DEFINE Current(x) == /\ x.op = "create" => ~AlreadyBound(x.email)
                         /\ \A r \in x.mine : /\ Live(r)
                                              /\ x.seen[r] = rule[r].cfid
                                              /\ r \in x.wasOn <=> rule[r].active
<1>4. Current(q)
  <2>1. CASE LoadedNow(q)
    BY <1>3, <2>1 DEF LoadedNow
  <2>2. CASE GoesOn(w, q)
    <3>1. Current(req[w])
      BY DEF ApartInv, SeenIsCurrent
    <3> QED
      BY <2>2, <3>1 DEF GoesOn, Idle
  <2> QED
    BY <2>1, <2>2
<1>5. ASSUME NEW v \in Workers PROVE Current(req'[v])
  BY <1>1, <1>4, <1>5 DEF ApartInv, SeenIsCurrent
<1>6. ASSUME NEW v \in Workers
      PROVE  /\ req'[v].op = "create" =>
                  ~\E r \in RuleIds : rule'[r].st = "live" /\ rule'[r].email = req'[v].email
             /\ \A r \in req'[v].mine : /\ rule'[r].st = "live"
                                        /\ req'[v].seen[r] = rule'[r].cfid
                                        /\ r \in req'[v].wasOn <=> rule'[r].active
  <2>1. Current(req'[v])
    BY <1>5
  <2> QED
    BY <2>1 DEF AlreadyBound
<1>7. SeenIsCurrent'
  BY <1>6 DEF SeenIsCurrent, AlreadyBound
<1> QED
  BY <1>2, <1>7

(* The commit of disable, delete and retire clears both columns of every   *)
(* row the request loaded: nothing it did not see stands in them.          *)
LEMMA ClearEffect ==
  ASSUME ApartInv, NEW w \in Workers, CommitClear(w)
  PROVE  \A r \in req[w].mine :
           /\ r \in RuleIds
           /\ rule'[r].email = rule[r].email /\ rule'[r].dest = rule[r].dest
           /\ rule'[r].cfid = None /\ ~rule'[r].active
           /\ rule'[r].st = IF req[w].op = "delete" THEN "deleted" ELSE "live"
<1> SUFFICES ASSUME NEW r \in req[w].mine
             PROVE  /\ r \in RuleIds
                    /\ rule'[r].email = rule[r].email /\ rule'[r].dest = rule[r].dest
                    /\ rule'[r].cfid = None /\ ~rule'[r].active
                    /\ rule'[r].st = IF req[w].op = "delete" THEN "deleted" ELSE "live"
  OBVIOUS
<1>1. r \in RuleIds /\ rule[r] \in RowShape /\ Live(r)
  BY MineAreRows DEF ApartInv, IInv, TypeOK, Row, SeenIsCurrent
<1>2. req[w].seen[r] = rule[r].cfid /\ (r \in req[w].wasOn <=> rule[r].active)
  BY DEF ApartInv, SeenIsCurrent
<1>3. /\ Cleared(w, r).cfid = None /\ ~Cleared(w, r).active
      /\ Cleared(w, r).email = rule[r].email /\ Cleared(w, r).dest = rule[r].dest
      /\ Cleared(w, r).st = "live"
  BY <1>1, <1>2 DEF Cleared, RowShape
<1>4. Cleared(w, r) \in [st : {"none", "live", "deleted"}, email : Emails \cup {None},
                         dest : Dests \cup {None}, cfid : {None}, active : {FALSE}]
  BY <1>1, <1>3 DEF Cleared, RowShape
<1> QED
  BY <1>1, <1>3, <1>4 DEF CommitClear

(* A commit finds the rows as they were loaded, and the rows of other      *)
(* requests are none of its own: the checks made at the start still hold.  *)
LEMMA CommitsKeepApart ==
  ASSUME ApartInv, NEW w \in Workers,
         CommitCreate(w) \/ CommitEnable(w) \/ CommitClear(w)
  PROVE  SeenIsCurrent' /\ SourceBoundOnce' /\ DeletedRuleForwardsNothing'
<1> USE DEF ApartInv
<1>0. /\ TypeOK /\ req'[w] = Idle
      /\ \A v \in Workers \ {w} : req'[v] = req[v]
  BY IdleIsRequest
     DEF IInv, TypeOK, CommitCreate, CommitEnable, CommitClear, End
<1>a. \A v \in Workers \ {w} : \A r \in req[v].mine : rule'[r] = rule[r]
  <2> SUFFICES ASSUME NEW v \in Workers \ {w}, NEW r \in req[v].mine PROVE rule'[r] = rule[r]
    OBVIOUS
  <2>1. r \in RuleIds /\ Live(r) /\ r \notin req[w].mine
    BY <1>0, NothingShared, MineAreRows DEF SeenIsCurrent
  <2> QED
    BY <1>0, <2>1 DEF CommitCreate, CommitEnable, CommitClear, TypeOK
<1>b. ASSUME NEW v \in Workers \ {w}, req[v].op = "create", NEW r \in RuleIds,
             rule'[r].st = "live", rule'[r].email = req[v].email
      PROVE  FALSE
  <2>1. ~(Live(r) /\ rule[r].email = req[v].email) /\ req[v].email # None
    BY <1>0, <1>b DEF SeenIsCurrent, AlreadyBound, TypeOK, Request
  <2>2. CASE CommitCreate(w)
    <3>1. rule'[r] = rule[r] \/ rule'[r].email = req[w].email
      BY <1>0, <2>2 DEF CommitCreate, TypeOK
    <3> QED
      BY <1>0, <1>b, <2>1, <3>1, NothingShared
  <2>3. CASE CommitEnable(w) \/ CommitClear(w)
    <3>1. rule[r] \in RowShape
      BY <1>0 DEF TypeOK, Row
    <3>2. r \in req[w].mine => Live(r)
      BY DEF SeenIsCurrent
    <3>3. r \notin req[w].mine => rule'[r] = rule[r]
      BY <2>3 DEF CommitEnable, CommitClear
    <3>4. r \in req[w].mine => rule'[r].email = rule[r].email
      BY <2>3, <3>1, ClearEffect DEF CommitEnable, RowShape
    <3> QED
      BY <1>b, <2>1, <3>2, <3>3, <3>4
  <2> QED
    BY <2>2, <2>3
<1>1. SeenIsCurrent'
  <2> SUFFICES ASSUME NEW v \in Workers
               PROVE  /\ req'[v].op = "create" => ~AlreadyBound(req[v].email)'
                      /\ \A r \in req'[v].mine : /\ rule'[r].st = "live"
                                                 /\ req'[v].seen[r] = rule'[r].cfid
                                                 /\ r \in req'[v].wasOn <=> rule'[r].active
    BY DEF SeenIsCurrent
  <2>1. CASE v = w
    BY <1>0, <2>1 DEF Idle
  <2>2. CASE v # w
    <3>1. req'[v] = req[v]
      BY <1>0, <2>2
    <3>2. req'[v].op = "create" => ~AlreadyBound(req[v].email)'
      BY <1>b, <2>2, <3>1 DEF AlreadyBound
    <3> QED
      BY <1>a, <2>2, <3>1, <3>2 DEF SeenIsCurrent
  <2> QED
    BY <2>1, <2>2
<1>2. \A r \in RuleIds : rule[r] \in RowShape
  BY <1>0 DEF TypeOK, Row
<1>3. CASE CommitCreate(w)
  <2>1. PICK r \in RuleIds : /\ rule[r].st = "none" /\ rule'[r].st = "live"
                             /\ rule'[r].email = req[w].email
                             /\ \A s \in RuleIds \ {r} : rule'[s] = rule[s]
    BY <1>0, <1>3 DEF CommitCreate, TypeOK
  <2>2. ~AlreadyBound(req[w].email)
    BY <1>3 DEF SeenIsCurrent, CommitCreate
  <2>3. SourceBoundOnce'
    BY <2>1, <2>2 DEF SourceBoundOnce, AlreadyBound
  <2>4. DeletedRuleForwardsNothing'
    BY <2>1 DEF DeletedRuleForwardsNothing
  <2> QED
    BY <1>1, <2>3, <2>4
<1>4. CASE CommitEnable(w)
  <2>1. \A r \in RuleIds :
          /\ r \notin req[w].mine => rule'[r] = rule[r]
          /\ rule'[r].st = rule[r].st /\ rule'[r].email = rule[r].email
    BY <1>2, <1>4 DEF CommitEnable, RowShape
  <2>2. \A r \in req[w].mine : Live(r)
    BY DEF SeenIsCurrent
  <2>3. SourceBoundOnce'
    BY <2>1 DEF SourceBoundOnce
  <2>4. DeletedRuleForwardsNothing'
    BY <2>1, <2>2 DEF DeletedRuleForwardsNothing
  <2> QED
    BY <1>1, <2>3, <2>4
<1>5. CASE CommitClear(w)
  <2>1. \A r \in RuleIds \ req[w].mine : rule'[r] = rule[r]
    BY <1>5 DEF CommitClear
  <2>3. \A r \in req[w].mine :
          /\ rule'[r].cfid = None /\ ~rule'[r].active /\ rule'[r].email = rule[r].email
    BY <1>5, ClearEffect
  <2>4. \A r \in RuleIds : rule'[r].st = "live" => Live(r)
    BY <1>0, <2>1, MineAreRows DEF SeenIsCurrent
  <2>5. SourceBoundOnce'
    BY <2>1, <2>3, <2>4 DEF SourceBoundOnce
  <2>6. DeletedRuleForwardsNothing'
    BY <2>1, <2>3 DEF DeletedRuleForwardsNothing
  <2> QED
    BY <1>1, <2>5, <2>6
<1> QED
  BY <1>3, <1>4, <1>5

(* Every step that keeps requests apart keeps the invariant.               *)
LEMMA ApartKeeps ==
  ASSUME ApartInv, [Next /\ Apart']_vars
  PROVE  ApartInv'
<1>0. IInv /\ TypeOK
  BY DEF ApartInv, IInv
<1>1. IInv' /\ Apart'
  <2>1. UNCHANGED vars => Apart'
    BY DEF ApartInv, Apart, MailboxesOf, vars
  <2> QED
    BY <1>0, <2>1, NextKeeps
<1>2. ASSUME NEW w \in Workers, Start(w) PROVE ApartInv'
  <2>1. \E q \in Request : req' = [req EXCEPT ![w] = q] /\ LoadedNow(q)
    BY <1>0, <1>2, StartEffect
  <2>2. rule' = rule
    BY <1>0, <1>2, StartEffect
  <2> QED
    BY <1>1, <2>1, <2>2, RowsUntouched DEF ApartInv
<1>3. ASSUME NEW w \in Workers, Continue(w) PROVE ApartInv'
  <2>1. CASE CommitCreate(w) \/ CommitEnable(w) \/ CommitClear(w)
    BY <1>1, <2>1, CommitsKeepApart DEF ApartInv
  <2>2. ASSUME NEW a \in Answers, Post(w, a) PROVE ApartInv'
    <3>1. PICK c \in CfIds : req' = [req EXCEPT ![w].pc = "commit", ![w].made = c] \/ End(w)
      BY <2>2 DEF Post, Unused
    <3>2. req[w] \in Request
      BY <1>0 DEF TypeOK
    <3>3. CASE End(w)
      BY <1>1, <2>2, <3>3, IdleIsRequest, RowsUntouched DEF ApartInv, End, GoesOn, Post
    <3>4. CASE req' = [req EXCEPT ![w].pc = "commit", ![w].made = c]
      <4> DEFINE q == [req[w] EXCEPT !.pc = "commit", !.made = c]
      <4>1. q \in Request /\ GoesOn(w, q)
        BY <3>2, PostedIsRequest DEF GoesOn, Request, RequestShape
      <4> QED
        BY <1>1, <2>2, <3>4, <4>1, RowsUntouched DEF ApartInv, Post
    <3> QED
      BY <3>1, <3>3, <3>4
  <2>3. CASE \/ Verify(w) \/ Cache(w) \/ Reject(w)
             \/ \E a \in Answers : Drop(w, a) \/ \E r \in RuleIds : Remove(w, r, a)
    BY <1>0, <1>1, <2>3, CallEffect, RowsUntouched DEF ApartInv
  <2> QED
    BY <1>3, <2>1, <2>2, <2>3 DEF Continue
<1>4. CASE Around \/ UNCHANGED vars
  <2>1. rule' = rule /\ (req' = req \/ req' = [w \in Workers |-> Idle])
    BY <1>4 DEF Around, AddDestination, OwnerVerifies, DeleteMailbox, ReviveMailbox,
       SyncDestinations, SwitchAccount, UnbindAccount, Crash, vars
  <2> QED
    BY <1>1, <2>1 DEF ApartInv, SeenIsCurrent, SourceBoundOnce, DeletedRuleForwardsNothing,
       AlreadyBound, Idle
<1> QED
  BY <1>2, <1>3, <1>4 DEF Next

(* The invariant holds in every reachable state, and every step keeps      *)
(* requests apart.                                                         *)
LEMMA ApartInvariance == ApartSpec => []ApartInv /\ [][Next /\ Apart']_vars
<1>1. Init => ApartInv
  BY InitHolds DEF Init, ApartInv, Apart, MailboxesOf, SeenIsCurrent, SourceBoundOnce,
     DeletedRuleForwardsNothing, Idle, NoRow
<1>2. ApartInv /\ [ApartNext]_vars => [Next /\ Apart']_vars
  BY ApartStays DEF ApartInv
<1>3. ApartInv /\ [ApartNext]_vars => ApartInv'
  BY <1>2, ApartKeeps
<1> QED
  BY <1>1, <1>2, <1>3, PTL DEF ApartSpec

(* With one worker, as when requests come one at a time, there is nothing  *)
(* to keep apart.                                                          *)
THEOREM OneWorkerIsApart ==
  ASSUME \A v, w \in Workers : v = w
  PROVE  Spec => ApartSpec
<1>1. Apart'
  BY DEF Apart
<1>2. [Next]_vars => [ApartNext]_vars
  BY <1>1 DEF Next, ApartNext
<1> QED
  BY <1>2, PTL DEF Spec, ApartSpec

(* While requests keep apart a mailbox never has two undeleted rules, even *)
(* if calls are refused, answers are lost or the process dies.             *)
THEOREM ApartSourceBoundOnce == ApartSpec => []SourceBoundOnce
<1>1. ApartInv => SourceBoundOnce
  BY DEF ApartInv
<1> QED
  BY <1>1, ApartInvariance, PTL

(* While requests keep apart a deleted rule is off and points at no remote *)
(* rule.                                                                   *)
THEOREM ApartDeletedForwardsNothing == ApartSpec => []DeletedRuleForwardsNothing
<1>1. ApartInv => DeletedRuleForwardsNothing
  BY DEF ApartInv
<1> QED
  BY <1>1, ApartInvariance, PTL

-----------------------------------------------------------------------------
(* What a request in flight is doing, while requests keep apart.           *)

(* The rows a request works on, by what it was asked.                      *)
WorksOn(q) ==
  /\ q.op = "create" => q.mine = {}
  /\ q.op = "enable" => \E r \in RuleIds : q.mine = {r} /\ q.wasOn = {}
  /\ q.op = "disable" => \E r \in RuleIds : q.mine = {r} /\ q.wasOn = {r}
  /\ q.op = "delete" => \E r \in RuleIds : q.mine = {r}
  /\ q.op = "retire" =>
       \A r \in RuleIds : r \in q.mine <=> Live(r) /\ rule[r].dest = q.dest

(* What ensure_verified found stays so until the rule is created.          *)
VerifiedNow(q) == q.pc \in {"cache", "post"} => cfDest[q.dest] = "verified"

FlightInv == \A w \in Workers : WorksOn(req[w]) /\ VerifiedNow(req[w])

(* Where a handler stands after its load.                                  *)
Outset(q) ==
  /\ WorksOn(q)
  /\ q.op # "none" /\ q.made = None
  /\ q.op \in {"create", "enable"} => q.pc = "verify" /\ q.todo = {}
  /\ q.op \notin {"create", "enable"} =>
       /\ \A r \in q.mine : r \in q.todo <=> q.seen[r] # None
       /\ q.todo \subseteq q.mine
       /\ q.pc = IF q.todo # {} THEN "remove"
                 ELSE IF q.op = "retire" THEN "drop" ELSE "commit"
  /\ q.op = "retire" => q.dest \in listed

(* Every handler starts with the rows its request is about.                *)
LEMMA StartsAtOutset ==
  ASSUME TypeOK, NEW w \in Workers, Start(w)
  PROVE  Outset(req'[w])
<1>1. ASSUME NEW q, req' = [req EXCEPT ![w] = q] PROVE req'[w] = q
  BY <1>1 DEF TypeOK
<1>2. ASSUME NEW e \in Emails, NEW d \in Dests, StartCreate(w, e, d)
      PROVE  Outset(req'[w])
  <2> DEFINE q == [Idle EXCEPT !.op = "create", !.pc = "verify", !.email = e, !.dest = d]
  <2>1. /\ q.op = "create" /\ q.pc = "verify" /\ q.mine = {} /\ q.todo = {}
        /\ q.made = None
    BY DEF Idle
  <2>2. req'[w] = q
    BY <1>1, <1>2 DEF StartCreate
  <2> QED
    BY <2>1, <2>2 DEF Outset, WorksOn
<1>3. ASSUME NEW r \in RuleIds, StartEnable(w, r)
      PROVE  Outset(req'[w])
  <2>1. {s \in {r} : rule[s].active} = {}
    BY <1>3 DEF StartEnable
  <2> DEFINE q == [Loaded("enable", "verify", {r}) EXCEPT !.email = rule[r].email,
                                                          !.dest = rule[r].dest]
  <2>2. /\ q.op = "enable" /\ q.pc = "verify" /\ q.mine = {r} /\ q.wasOn = {}
        /\ q.todo = {} /\ q.made = None
    BY <2>1 DEF Loaded, Idle
  <2>3. req'[w] = q
    BY <1>1, <1>3 DEF StartEnable
  <2> QED
    BY <2>2, <2>3 DEF Outset, WorksOn
<1>4. ASSUME NEW op \in {"disable", "delete", "retire"}, NEW R \in SUBSET RuleIds,
             NEW q, q.op = op, q.mine = R, q.todo = {r \in R : rule[r].cfid # None},
             q.made = None, q.wasOn = {r \in R : rule[r].active},
             q.seen = [r \in RuleIds |-> IF r \in R THEN rule[r].cfid ELSE None],
             q.pc = IF q.todo # {} THEN "remove" ELSE IF op = "retire" THEN "drop" ELSE "commit",
             \/ op = "disable" /\ \E r \in RuleIds : R = {r} /\ rule[r].active
             \/ op = "delete" /\ \E r \in RuleIds : R = {r}
             \/ /\ op = "retire" /\ R = {r \in RuleIds : Live(r) /\ rule[r].dest = q.dest}
                /\ q.dest \in listed
      PROVE  Outset(q)
  <2>1. WorksOn(q)
    BY <1>4 DEF WorksOn
  <2>2. \A r \in q.mine : r \in q.todo <=> q.seen[r] # None
    BY <1>4
  <2> QED
    BY <1>4, <2>1, <2>2 DEF Outset
<1>5. ASSUME NEW r \in RuleIds, StartDisable(w, r) PROVE Outset(req'[w])
  <2> DEFINE q == StartClearing(w, "disable", {r}, "commit")
  <2>1. req'[w] = q /\ rule[r].active
    BY <1>1, <1>5 DEF StartDisable
  <2>2. /\ q.op = "disable" /\ q.mine = {r} /\ q.made = None
        /\ q.todo = {s \in {r} : rule[s].cfid # None}
        /\ q.wasOn = {s \in {r} : rule[s].active}
        /\ q.seen = [s \in RuleIds |-> IF s \in {r} THEN rule[s].cfid ELSE None]
        /\ q.pc = IF q.todo # {} THEN "remove" ELSE "commit"
    BY DEF StartClearing, Loaded, Idle
  <2> HIDE DEF q
  <2>3. Outset(q)
    BY <1>4, <2>1, <2>2
  <2> QED
    BY <2>1, <2>3
<1>6. ASSUME NEW r \in RuleIds, StartDelete(w, r) PROVE Outset(req'[w])
  <2> DEFINE q == StartClearing(w, "delete", {r}, "commit")
  <2>1. req'[w] = q
    BY <1>1, <1>6 DEF StartDelete
  <2>2. /\ q.op = "delete" /\ q.mine = {r} /\ q.made = None
        /\ q.todo = {s \in {r} : rule[s].cfid # None}
        /\ q.wasOn = {s \in {r} : rule[s].active}
        /\ q.seen = [s \in RuleIds |-> IF s \in {r} THEN rule[s].cfid ELSE None]
        /\ q.pc = IF q.todo # {} THEN "remove" ELSE "commit"
    BY DEF StartClearing, Loaded, Idle
  <2> HIDE DEF q
  <2>3. Outset(q)
    BY <1>4, <2>1, <2>2
  <2> QED
    BY <2>1, <2>3
<1>7. ASSUME NEW d \in Dests, StartRetire(w, d) PROVE Outset(req'[w])
  <2> DEFINE R == {r \in RuleIds : Live(r) /\ rule[r].dest = d}
             q == [StartClearing(w, "retire", R, "drop") EXCEPT !.dest = d]
  <2>1. req'[w] = q /\ d \in listed
    BY <1>1, <1>7 DEF StartRetire
  <2>2. /\ q.op = "retire" /\ q.mine = R /\ q.made = None /\ q.dest = d
        /\ q.todo = {s \in R : rule[s].cfid # None}
        /\ q.wasOn = {s \in R : rule[s].active}
        /\ q.seen = [s \in RuleIds |-> IF s \in R THEN rule[s].cfid ELSE None]
        /\ q.pc = IF q.todo # {} THEN "remove" ELSE "drop"
    BY DEF StartClearing, Loaded, Idle
  <2> HIDE DEF q
  <2>3. R = {r \in RuleIds : Live(r) /\ rule[r].dest = q.dest} /\ R \in SUBSET RuleIds
    BY <2>2
  <2> HIDE DEF R
  <2>4. Outset(q)
    BY <1>4, <2>1, <2>2, <2>3
  <2> QED
    BY <2>1, <2>4
<1> QED
  BY <1>2, <1>3, <1>5, <1>6, <1>7 DEF Start

(* Of the steps of requests only a commit changes rows, and only dropping  *)
(* a destination changes what Cloudflare says of one.                      *)
LEMMA WhoWrites ==
  ASSUME TypeOK, NEW w \in Workers, Start(w) \/ Continue(w)
  PROVE  /\ rule' = rule \/ CommitCreate(w) \/ CommitEnable(w) \/ CommitClear(w)
         /\ \/ cfDest' = cfDest
            \/ /\ req[w].op = "retire"
               /\ \A d \in Dests : d # req[w].dest => cfDest'[d] = cfDest[d]
<1>1. CASE Start(w)
  BY <1>1, StartEffect
<1>2. ASSUME NEW a \in Answers, Drop(w, a)
      PROVE  /\ req[w].op = "retire" /\ rule' = rule
             /\ \A d \in Dests : d # req[w].dest => cfDest'[d] = cfDest[d]
  BY <1>2 DEF Drop, TypeOK, Request
<1>3. CASE Continue(w)
  <2>1. CASE \E a \in Answers : Drop(w, a)
    BY <1>2, <2>1
  <2>2. CASE ~\E a \in Answers : Drop(w, a)
    BY <1>3, <2>2 DEF Continue, Verify, Cache, Reject, Post, Remove, CommitCreate,
       CommitEnable, CommitClear
  <2> QED
    BY <2>1, <2>2
<1> QED
  BY <1>1, <1>3

(* What one request does leaves alone what another one, which keeps apart, *)
(* works on and has found out.                                             *)
LEMMA OthersFlight ==
  ASSUME ApartInv, FlightInv, NEW w \in Workers, Start(w) \/ Continue(w),
         NEW v \in Workers \ {w}
  PROVE  WorksOn(req[v])' /\ VerifiedNow(req[v])'
<1>0. /\ TypeOK /\ Apart /\ req'[v] = req[v] /\ req[v] \in Request
      /\ WorksOn(req[v]) /\ VerifiedNow(req[v])
  BY ActsAlone DEF ApartInv, IInv, FlightInv, TypeOK
<1>1. /\ req[v].mine \cap req[w].mine = {}
      /\ req[w].op = "retire" => req[v].dest # req[w].dest
      /\ req[v].op = "retire" => req[w].dest # req[v].dest
  BY <1>0, NothingShared
<1>2. VerifiedNow(req[v])'
  <2>1. req[v].pc \in {"cache", "post"} => req[v].dest \in Dests
    BY <1>0 DEF Request, RequestShape
  <2> QED
    BY <1>0, <1>1, <2>1, WhoWrites DEF VerifiedNow
<1>3. ASSUME req[v].op = "retire", NEW r \in RuleIds
      PROVE  r \in req[v].mine <=> rule'[r].st = "live" /\ rule'[r].dest = req[v].dest
  <2>1. r \in req[v].mine <=> Live(r) /\ rule[r].dest = req[v].dest
    BY <1>0, <1>3 DEF WorksOn
  <2>2. rule[r] \in RowShape
    BY <1>0 DEF TypeOK, Row
  <2>3. CASE rule'[r] = rule[r]
    BY <2>1, <2>3
  <2>4. CASE CommitCreate(w) /\ rule'[r] # rule[r]
    BY <1>0, <1>1, <1>3, <2>1, <2>4 DEF CommitCreate, TypeOK
  <2>5. CASE CommitEnable(w) /\ rule'[r] # rule[r]
    <3>1. rule'[r].st = rule[r].st /\ rule'[r].dest = rule[r].dest
      BY <2>2, <2>5 DEF CommitEnable, RowShape
    <3> QED
      BY <2>1, <3>1
  <2>6. CASE CommitClear(w) /\ rule'[r] # rule[r]
    <3>1. r \in req[w].mine
      BY <2>6 DEF CommitClear
    <3>2. Live(r) /\ rule'[r].dest = rule[r].dest /\ r \notin req[v].mine
      BY <1>1, <2>6, <3>1, ClearEffect DEF ApartInv, SeenIsCurrent
    <3> QED
      BY <2>1, <3>2
  <2> QED
    BY <1>0, <2>3, <2>4, <2>5, <2>6, WhoWrites
<1>4. WorksOn(req[v])'
  BY <1>0, <1>3 DEF WorksOn
<1> QED
  BY <1>2, <1>4

(* What a request is doing survives every step: its own calls change       *)
(* neither the rows nor the status of the destination it found verified.   *)
LEMMA FlightKeeps ==
  ASSUME ApartInv, FlightInv, [Next]_vars
  PROVE  FlightInv'
<1>0. TypeOK
  BY DEF ApartInv, IInv
<1> SUFFICES ASSUME NEW w \in Workers
             PROVE  WorksOn(req[w])' /\ VerifiedNow(req[w])'
  BY DEF FlightInv, WorksOn, VerifiedNow
<1>1. WorksOn(req[w]) /\ VerifiedNow(req[w]) /\ req[w] \in Request
  BY <1>0 DEF FlightInv, TypeOK
<1>2. CASE req'[w] = Idle
  BY <1>2 DEF WorksOn, VerifiedNow, Idle
<1>3. CASE Start(w)
  <2>1. Outset(req'[w]) /\ UNCHANGED <<rule, cfDest>>
    BY <1>0, <1>3, StartsAtOutset, StartEffect
  <2>2. WorksOn(req[w])'
    BY <2>1 DEF Outset, WorksOn
  <2>3. req'[w].pc \notin {"cache", "post"}
    BY <2>1 DEF Outset
  <2> QED
    BY <2>2, <2>3 DEF VerifiedNow
<1>4. CASE \/ Verify(w) \/ Cache(w) \/ Reject(w)
           \/ \E a \in Answers : Post(w, a) \/ Drop(w, a) \/ \E r \in RuleIds : Remove(w, r, a)
  <2>1. rule' = rule /\ (req'[w] = Idle \/
          /\ req'[w].op = req[w].op /\ req'[w].mine = req[w].mine
          /\ req'[w].wasOn = req[w].wasOn /\ req'[w].dest = req[w].dest)
    <3>1. ASSUME NEW a \in Answers, Post(w, a)
          PROVE  req'[w] = Idle \/ /\ req'[w].op = req[w].op /\ req'[w].mine = req[w].mine
                                   /\ req'[w].wasOn = req[w].wasOn
                                   /\ req'[w].dest = req[w].dest
      <4>1. PICK c \in CfIds : req' = [req EXCEPT ![w].pc = "commit", ![w].made = c] \/ End(w)
        BY <3>1 DEF Post, Unused
      <4>2. req'[w] \in {[req[w] EXCEPT !.pc = "commit", !.made = c], Idle}
        BY <1>0, <4>1 DEF TypeOK, End
      <4> QED
        BY <1>1, <4>2 DEF Request, RequestShape
    <3>2. CASE \/ Verify(w) \/ Cache(w) \/ Reject(w)
               \/ \E a \in Answers : Drop(w, a) \/ \E r \in RuleIds : Remove(w, r, a)
      <4>1. rule' = rule /\ \E q \in Request : req' = [req EXCEPT ![w] = q] /\ GoesOn(w, q)
        BY <1>0, <3>2, CallEffect
      <4> QED
        BY <1>0, <4>1 DEF GoesOn, TypeOK
    <3> QED
      BY <1>4, <3>1, <3>2 DEF Post
  <2>2. WorksOn(req[w])'
    BY <1>1, <2>1 DEF WorksOn, Idle
  <2>3. CASE Verify(w)
    <3>1. /\ cfDest' = cfDest
          /\ req'[w] = Idle \/ (cfDest[req[w].dest] = "verified" /\ req'[w].dest = req[w].dest)
      BY <1>0, <1>1, <2>3 DEF Verify, End, TypeOK, Request, RequestShape
    <3> QED
      BY <2>2, <3>1 DEF VerifiedNow, Idle
  <2>4. CASE Cache(w)
    BY <1>1, <2>1, <2>2, <2>4 DEF Cache, VerifiedNow, Idle
  <2>5. CASE Reject(w)
    BY <1>0, <1>2, <2>5 DEF Reject, End, TypeOK
  <2>6. ASSUME NEW a \in Answers, Post(w, a) \/ Drop(w, a) \/ \E r \in RuleIds : Remove(w, r, a)
        PROVE  req'[w] = Idle \/ req'[w].pc \in {"commit", "remove", "drop"}
    <3>1. \/ End(w) \/ \E c \in CfIds : req' = [req EXCEPT ![w].pc = "commit", ![w].made = c]
          \/ req' = [req EXCEPT ![w].pc = "commit"]
          \/ \E pc \in {"remove", "drop", "commit"} : \E R :
               req' = [req EXCEPT ![w].todo = R, ![w].pc = pc]
      <4>1. ASSUME NEW r \in RuleIds, Remove(w, r, a)
            PROVE  \/ End(w)
                   \/ \E pc \in {"remove", "drop", "commit"} : \E R :
                        req' = [req EXCEPT ![w].todo = R, ![w].pc = pc]
        BY <4>1 DEF Remove
      <4>2. CASE Post(w, a)
        BY <4>2 DEF Post, Unused
      <4>3. CASE Drop(w, a)
        BY <4>3 DEF Drop
      <4> QED
        BY <2>6, <4>1, <4>2, <4>3
    <3>2. CASE End(w)
      BY <1>0, <3>2 DEF End, TypeOK
    <3>3. CASE ~End(w)
      <4>1. \/ \E c \in CfIds : req'[w] = [req[w] EXCEPT !.pc = "commit", !.made = c]
            \/ req'[w] = [req[w] EXCEPT !.pc = "commit"]
            \/ \E pc \in {"remove", "drop", "commit"} : \E R :
                 req'[w] = [req[w] EXCEPT !.todo = R, !.pc = pc]
        BY <1>0, <3>1, <3>3 DEF TypeOK
      <4> QED
        BY <1>1, <4>1 DEF Request, RequestShape
    <3> QED
      BY <3>2, <3>3
  <2> QED
    BY <1>2, <1>4, <2>2, <2>3, <2>4, <2>5, <2>6 DEF VerifiedNow
<1>5. CASE CommitCreate(w) \/ CommitEnable(w) \/ CommitClear(w)
  BY <1>0, <1>2, <1>5 DEF CommitCreate, CommitEnable, CommitClear, End, TypeOK
<1>6. CASE Around \/ UNCHANGED vars
  <2>1. CASE Crash
    BY <1>2, <2>1 DEF Crash
  <2>2. CASE ~Crash
    <3>1. UNCHANGED <<rule, req>>
      BY <1>6, <2>2 DEF Around, AddDestination, OwnerVerifies, DeleteMailbox, ReviveMailbox,
         SyncDestinations, SwitchAccount, UnbindAccount, vars
    <3>2. \A d \in Dests : cfDest[d] = "verified" => cfDest'[d] = "verified"
      <4>1. ASSUME NEW d \in Dests, AddDestination(d) \/ OwnerVerifies(d), NEW x \in Dests,
                   cfDest[x] = "verified"
            PROVE  cfDest'[x] = "verified"
        <5>1. cfDest \in [Dests -> {"absent", "pending", "verified"}]
          BY <1>0 DEF TypeOK
        <5>2. \/ cfDest' = [cfDest EXCEPT ![d] = IF @ = "absent" THEN "pending" ELSE @]
              \/ cfDest[d] = "pending" /\ cfDest' = [cfDest EXCEPT ![d] = "verified"]
          BY <4>1 DEF AddDestination, OwnerVerifies
        <5> QED
          BY ONLY <4>1, <5>1, <5>2
      <4> QED
        BY <1>6, <2>2, <4>1 DEF Around, DeleteMailbox, ReviveMailbox,
           SyncDestinations, SwitchAccount, UnbindAccount, vars
    <3>3. req[w].pc \in {"cache", "post"} => req[w].dest \in Dests
      BY <1>1 DEF Request, RequestShape
    <3> QED
      BY <1>1, <3>1, <3>2, <3>3 DEF WorksOn, VerifiedNow
  <2> QED
    BY <2>1, <2>2
<1>7. ASSUME NEW v \in Workers \ {w}, Start(v) \/ Continue(v)
      PROVE  WorksOn(req[w])' /\ VerifiedNow(req[w])'
  BY <1>7, OthersFlight
<1> QED
  BY <1>3, <1>4, <1>5, <1>6, <1>7 DEF Next, Continue

(* While requests keep apart, every reachable state satisfies both.        *)
LEMMA FlightInvariance ==
  ApartSpec => [](ApartInv /\ FlightInv) /\ [][Next /\ Apart']_vars
<1>1. Init => FlightInv
  <2> SUFFICES ASSUME Init, NEW w \in Workers PROVE WorksOn(req[w]) /\ VerifiedNow(req[w])
    BY DEF FlightInv
  <2>1. req[w] = Idle
    BY DEF Init
  <2> QED
    BY <2>1 DEF WorksOn, VerifiedNow, Idle
<1>2. ApartInv /\ FlightInv /\ [Next /\ Apart']_vars => FlightInv'
  BY FlightKeeps
<1> QED
  BY <1>1, <1>2, ApartInvariance, PTL DEF ApartSpec

(* While requests keep apart, whatever fails, no remote rule is created to *)
(* destination Cloudflare does not report as verified at that moment: the  *)
(* check in ensure_verified is not outlived by what it checked.            *)
THEOREM ApartCreatedOnlyWhenVerified == ApartSpec => CreatedOnlyWhenVerified
<1> DEFINE Verified == \A c \in CfIds :
       remote[c].st = "unused" /\ remote'[c].st # "unused" =>
         cfDest[remote'[c].dest] = "verified"
<1>1. ApartInv /\ FlightInv /\ [Next]_vars => [Verified]_vars
  <2> SUFFICES ASSUME ApartInv, FlightInv, [Next]_vars, NEW c \in CfIds,
                      remote[c].st = "unused", remote'[c].st # "unused"
               PROVE  cfDest[remote'[c].dest] = "verified"
    OBVIOUS
  <2>1. TypeOK
    BY DEF ApartInv, IInv
  <2>2. PICK w \in Workers, a \in Answers :
          Post(w, a) \/ Drop(w, a) \/ \E r \in RuleIds : Remove(w, r, a)
    <3>1. ASSUME NEW w \in Workers PROVE ~Start(w)
      BY <2>1, <3>1, StartEffect
    <3> QED
      BY <3>1 DEF Next, Continue, Verify, Cache, Reject, CommitCreate, CommitEnable,
         CommitClear, Around, AddDestination, OwnerVerifies, DeleteMailbox, ReviveMailbox,
         SyncDestinations, SwitchAccount, UnbindAccount, Crash, vars
  <2>3. ~Drop(w, a)
    BY <2>1 DEF Drop, TypeOK, RemoteRule
  <2>4. ~\E r \in RuleIds : Remove(w, r, a)
    BY <2>1 DEF Remove, TypeOK, RemoteRule
  <2>5. PICK b \in Unused :
          remote' = [remote EXCEPT ![b] = [st |-> "present", email |-> req[w].email,
                                           dest |-> req[w].dest]]
    BY <2>2, <2>3, <2>4 DEF Post
  <2>6. remote'[c].dest = req[w].dest
    BY <2>1, <2>5 DEF TypeOK, Unused
  <2> QED
    BY <2>2, <2>3, <2>4, <2>6 DEF FlightInv, VerifiedNow, Post
<1>2. ApartSpec => [][Verified]_vars
  BY <1>1, FlightInvariance, PTL DEF ApartSpec
<1> QED
  BY <1>2 DEF CreatedOnlyWhenVerified

-----------------------------------------------------------------------------
(* The contract.  With at most one undeleted row per mailbox the mapping   *)
(* of rows to bindings is a function of the rows.                          *)
BoundBy(t, r, e) == t[r].st = "live" /\ t[r].email = e
OnceIn(t) ==
  \A r, s \in RuleIds : t[r].st = "live" /\ t[s].st = "live" /\ t[r].email = t[s].email => r = s

TargetIn(t) ==
  [e \in Emails |->
     IF \E r \in RuleIds : BoundBy(t, r, e)
       THEN LET r == CHOOSE s \in RuleIds : BoundBy(t, s, e)
            IN  [dest |-> t[r].dest, on |-> t[r].active]
       ELSE [dest |-> None, on |-> FALSE]]

LEMMA TargetOfRows == Target = TargetIn(rule) /\ Target' = TargetIn(rule')
  BY DEF Target, TargetIn, BoundBy, AlreadyBound

(* The binding of a mailbox is what its one undeleted row says;            *)
LEMMA BoundTarget ==
  ASSUME NEW t, OnceIn(t), NEW r \in RuleIds, NEW e \in Emails, BoundBy(t, r, e)
  PROVE  TargetIn(t)[e] = [dest |-> t[r].dest, on |-> t[r].active]
<1>1. \A s \in RuleIds : BoundBy(t, s, e) => s = r
  BY DEF OnceIn, BoundBy
<1>2. r = CHOOSE s \in RuleIds : BoundBy(t, s, e)
  BY <1>1
<1> QED
  BY <1>2 DEF TargetIn

(* a mailbox without one is unbound;                                       *)
LEMMA UnboundTarget ==
  ASSUME NEW t, NEW e \in Emails, \A r \in RuleIds : ~BoundBy(t, r, e)
  PROVE  TargetIn(t)[e] = [dest |-> None, on |-> FALSE]
  BY DEF TargetIn

(* and a mailbox whose rows do not change keeps its binding.               *)
LEMMA SameTarget ==
  ASSUME NEW t, NEW u, OnceIn(t), OnceIn(u), NEW e \in Emails,
         \A r \in RuleIds : BoundBy(t, r, e) \/ BoundBy(u, r, e) => t[r] = u[r]
  PROVE  TargetIn(u)[e] = TargetIn(t)[e]
<1>1. CASE \E r \in RuleIds : BoundBy(t, r, e)
  <2>1. PICK r \in RuleIds : BoundBy(t, r, e) /\ BoundBy(u, r, e) /\ t[r] = u[r]
    BY <1>1 DEF BoundBy
  <2> QED
    BY <2>1, BoundTarget
<1>2. CASE ~\E r \in RuleIds : BoundBy(t, r, e)
  <2>1. \A r \in RuleIds : ~BoundBy(u, r, e)
    BY <1>2 DEF BoundBy
  <2> QED
    BY <1>2, <2>1, UnboundTarget
<1> QED
  BY <1>1, <1>2

(* What every step of the proof needs of the state.                        *)
LEMMA RowsBindOnce ==
  ASSUME ApartInv
  PROVE  /\ OnceIn(rule)
         /\ \A r \in RuleIds : Live(r) => rule[r].email \in Emails /\ rule[r].dest \in Dests
         /\ None \notin Dests
  BY NoneIsNoValue DEF ApartInv, IInv, SourceBoundOnce, OnceIn, TypeOK, Row, RowShape

(* The insert of a rule binds its mailbox, which was not bound.            *)
LEMMA CreateBinds ==
  ASSUME ApartInv, ApartInv', NEW w \in Workers, CommitCreate(w)
  PROVE  Contract!Next
<1> DEFINE e == req[w].email
           d == req[w].dest
<1>1. e \in Emails /\ d \in Dests
  BY DEF ApartInv, IInv, TypeOK, Request, RequestShape, CommitCreate
<1>2. PICK r \in RuleIds :
        /\ rule'[r].st = "live" /\ rule'[r].email = e
        /\ rule'[r].dest = d /\ rule'[r].active = TRUE
        /\ rule[r].st = "none"
        /\ \A s \in RuleIds \ {r} : rule'[s] = rule[s]
  BY DEF ApartInv, IInv, TypeOK, CommitCreate
<1>3. OnceIn(rule) /\ OnceIn(rule')
  BY RowsBindOnce DEF ApartInv, SourceBoundOnce, OnceIn
<1> HIDE DEF e, d
<1>4. \A s \in RuleIds : ~BoundBy(rule, s, e)
  BY DEF ApartInv, SeenIsCurrent, AlreadyBound, BoundBy, CommitCreate, e
<1>5. TargetIn(rule)[e] = [dest |-> None, on |-> FALSE]
  BY <1>1, <1>4, UnboundTarget
<1>6. TargetIn(rule')[e] = [dest |-> d, on |-> TRUE]
  <2>1. BoundBy(rule', r, e)
    BY <1>2 DEF BoundBy
  <2>2. TargetIn(rule')[e] = [dest |-> rule'[r].dest, on |-> rule'[r].active]
    BY <1>1, <1>3, <2>1, BoundTarget
  <2> QED
    BY <1>2, <2>2
<1>7. ASSUME NEW x \in Emails, x # e PROVE TargetIn(rule')[x] = TargetIn(rule)[x]
  <2>1. \A s \in RuleIds : BoundBy(rule, s, x) \/ BoundBy(rule', s, x) => rule[s] = rule'[s]
    BY <1>2, <1>7 DEF BoundBy
  <2> QED
    BY <1>3, <2>1, SameTarget
<1>8. Target[e] = Contract!Unbound
      /\ Target' = [Target EXCEPT ![e] = [dest |-> d, on |-> TRUE]]
  <2>1. TargetIn(rule') = [TargetIn(rule) EXCEPT ![e] = [dest |-> d, on |-> TRUE]]
    BY <1>1, <1>6, <1>7 DEF TargetIn
  <2> QED
    BY <1>5, <2>1, TargetOfRows DEF Contract!Unbound
<1> QED
  BY <1>1, <1>8 DEF Contract!Next, Contract!Bind

(* A step that changes one row of a bound mailbox, and leaves it undeleted *)
(* with the flag turned over, is a switch; one that leaves it deleted ends *)
(* the binding.                                                            *)
LEMMA OneRowChanges ==
  ASSUME ApartInv, ApartInv', NEW r \in RuleIds, Live(r),
         \A s \in RuleIds \ {r} : rule'[s] = rule[s],
         \/ /\ rule'[r].st = "live" /\ rule'[r].email = rule[r].email
            /\ rule'[r].dest = rule[r].dest /\ rule'[r].active = ~rule[r].active
         \/ rule'[r].st = "deleted" /\ rule'[r].email = rule[r].email
  PROVE  Contract!Next
<1>1. PICK e \in Emails : e = rule[r].email
  BY RowsBindOnce
<1>2. OnceIn(rule) /\ OnceIn(rule') /\ rule[r].dest # None
  BY RowsBindOnce DEF ApartInv, SourceBoundOnce, OnceIn
<1>3. TargetIn(rule)[e] = [dest |-> rule[r].dest, on |-> rule[r].active]
  BY <1>1, <1>2, BoundTarget DEF BoundBy
<1>4. ASSUME NEW x \in Emails, x # e PROVE TargetIn(rule')[x] = TargetIn(rule)[x]
  <2>1. \A s \in RuleIds : BoundBy(rule, s, x) \/ BoundBy(rule', s, x) => rule[s] = rule'[s]
    BY <1>1, <1>4 DEF BoundBy
  <2> QED
    BY <1>2, <2>1, SameTarget
<1>5. Target[e] # Contract!Unbound
  BY <1>2, <1>3, TargetOfRows DEF Contract!Unbound
<1>6. CASE rule'[r].st = "live"
  <2>1. TargetIn(rule')[e] = [dest |-> rule'[r].dest, on |-> rule'[r].active]
    BY <1>1, <1>2, <1>6, BoundTarget DEF BoundBy
  <2>2. TargetIn(rule')[e] = [dest |-> rule[r].dest, on |-> ~rule[r].active]
    BY <1>6, <2>1
  <2>3. TargetIn(rule')[e] = [TargetIn(rule)[e] EXCEPT !.on = ~@]
    BY <1>3, <2>2
  <2> DEFINE T == TargetIn(rule)
             U == TargetIn(rule')
  <2>4. T = [x \in Emails |-> T[x]] /\ U = [x \in Emails |-> U[x]]
    BY DEF TargetIn
  <2>5. /\ U[e] = [T[e] EXCEPT !.on = ~@]
        /\ \A x \in Emails : x # e => U[x] = T[x]
    BY <1>4, <2>3
  <2> HIDE DEF T, U
  <2>6. U = [T EXCEPT ![e] = [T[e] EXCEPT !.on = ~@]]
    BY <1>1, <2>4, <2>5
  <2>7. U = [T EXCEPT ![e].on = ~@]
    BY <2>6
  <2> QED
    BY <1>5, <2>7, TargetOfRows DEF Contract!Next, Contract!Switch, T, U
<1>7. CASE rule'[r].st = "deleted"
  <2>1. \A s \in RuleIds : ~BoundBy(rule', s, e)
    BY <1>1, <1>2, <1>7 DEF BoundBy, OnceIn
  <2>2. TargetIn(rule')[e] = [dest |-> None, on |-> FALSE]
    BY <2>1, UnboundTarget
  <2>3. TargetIn(rule') = [TargetIn(rule) EXCEPT ![e] = [dest |-> None, on |-> FALSE]]
    BY <1>4, <2>2 DEF TargetIn
  <2> QED
    BY <1>5, <2>3, TargetOfRows DEF Contract!Next, Contract!Unbind, Contract!Unbound
<1> QED
  BY <1>6, <1>7

(* delete_destination_address loaded every undeleted row that forwards to  *)
(* the destination, and switches off all of them in one commit.            *)
LEMMA RetireRetires ==
  ASSUME ApartInv, ApartInv', NEW w \in Workers, WorksOn(req[w]), CommitClear(w), req[w].op = "retire"
  PROVE  Contract!Next
<1>1. PICK d \in Dests : d = req[w].dest
  BY DEF ApartInv, IInv, TypeOK, Request, RequestShape
<1>2. \A r \in RuleIds : IF Live(r) /\ rule[r].dest = d
        THEN /\ rule'[r].st = "live" /\ rule'[r].email = rule[r].email
             /\ rule'[r].dest = d /\ rule'[r].active = FALSE
        ELSE rule'[r] = rule[r]
  <2>1. ASSUME NEW r \in RuleIds, r \in req[w].mine
        PROVE  /\ rule'[r].st = "live" /\ rule'[r].email = rule[r].email
               /\ rule'[r].dest = rule[r].dest /\ ~rule'[r].active
    BY <2>1, ClearEffect
  <2>2. \A r \in RuleIds : rule'[r].active \in BOOLEAN
    BY DEF ApartInv, IInv, TypeOK, Row, RowShape
  <2>3. \A r \in RuleIds : r \notin req[w].mine => rule'[r] = rule[r]
    BY DEF CommitClear
  <2>4. \A r \in RuleIds : r \in req[w].mine <=> Live(r) /\ rule[r].dest = d
    BY <1>1 DEF WorksOn
  <2> QED
    BY <2>1, <2>2, <2>3, <2>4
<1>3. OnceIn(rule) /\ OnceIn(rule') /\ d # None
  BY RowsBindOnce DEF ApartInv, SourceBoundOnce, OnceIn
<1>4. ASSUME NEW x \in Emails
      PROVE  TargetIn(rule')[x] = IF TargetIn(rule)[x].dest = d
                                    THEN [dest |-> d, on |-> FALSE] ELSE TargetIn(rule)[x]
  <2>1. CASE \E r \in RuleIds : BoundBy(rule, r, x)
    <3>1. PICK r \in RuleIds : BoundBy(rule, r, x)
      BY <2>1
    <3>2. BoundBy(rule', r, x)
      BY <1>2, <3>1 DEF BoundBy
    <3>3. /\ TargetIn(rule)[x] = [dest |-> rule[r].dest, on |-> rule[r].active]
          /\ TargetIn(rule')[x] = [dest |-> rule'[r].dest, on |-> rule'[r].active]
      BY <1>3, <3>1, <3>2, BoundTarget
    <3>4. CASE rule[r].dest = d
      <4>1. rule'[r].dest = d /\ rule'[r].active = FALSE
        BY <1>2, <3>1, <3>4 DEF BoundBy
      <4>2. TargetIn(rule)[x].dest = d
        BY <3>3, <3>4
      <4>3. TargetIn(rule')[x] = [dest |-> d, on |-> FALSE]
        BY <3>3, <4>1
      <4> QED
        BY <4>2, <4>3
    <3>5. CASE rule[r].dest # d
      BY <1>2, <3>3, <3>5
    <3> QED
      BY <3>4, <3>5
  <2>2. CASE ~\E r \in RuleIds : BoundBy(rule, r, x)
    <3>1. \A r \in RuleIds : ~BoundBy(rule', r, x)
      BY <1>2, <2>2 DEF BoundBy
    <3>2. /\ TargetIn(rule)[x] = [dest |-> None, on |-> FALSE]
          /\ TargetIn(rule')[x] = [dest |-> None, on |-> FALSE]
      BY <2>2, <3>1, UnboundTarget
    <3> QED
      BY <1>3, <3>2
  <2> QED
    BY <2>1, <2>2
<1>5. TargetIn(rule') = [x \in Emails |-> IF TargetIn(rule)[x].dest = d
                                            THEN [dest |-> d, on |-> FALSE]
                                            ELSE TargetIn(rule)[x]]
  BY <1>4 DEF TargetIn
<1> QED
  BY <1>5, TargetOfRows DEF Contract!Next, Contract!Retire

(* Every step of the service is one step of the contract, or changes no    *)
(* binding.                                                                *)
LEMMA StepsAreContractSteps ==
  ASSUME ApartInv, ApartInv', FlightInv, [Next]_vars
  PROVE  [Contract!Next]_Target
<1>0. TypeOK
  BY DEF ApartInv, IInv
<1>1. CASE rule' = rule
  BY <1>1, TargetOfRows
<1>2. ASSUME NEW w \in Workers, CommitEnable(w) \/ CommitClear(w) PROVE Contract!Next
  <2>1. WorksOn(req[w])
    BY DEF FlightInv
  <2>2. CASE req[w].op = "retire"
    BY <1>2, <2>1, <2>2, RetireRetires DEF CommitEnable
  <2>3. CASE req[w].op # "retire"
    <3>1. PICK r \in RuleIds :
            /\ req[w].mine = {r}
            /\ req[w].op = "enable" => req[w].wasOn = {}
            /\ req[w].op = "disable" => req[w].wasOn = {r}
      BY <1>2, <2>1, <2>3 DEF WorksOn, CommitEnable, CommitClear
    <3>2. Live(r) /\ (r \in req[w].wasOn <=> rule[r].active)
      BY <3>1 DEF ApartInv, SeenIsCurrent
    <3>3. \A s \in RuleIds \ {r} : rule'[s] = rule[s]
      BY <1>2, <3>1 DEF CommitEnable, CommitClear
    <3>4. rule[r] \in RowShape /\ rule[r].active \in BOOLEAN /\ rule'[r].active \in BOOLEAN
      BY DEF ApartInv, IInv, TypeOK, Row, RowShape
    <3>5. CASE CommitEnable(w)
      <4>1. rule'[r] = [rule[r] EXCEPT !.cfid = req[w].made, !.active = TRUE]
        BY <3>1, <3>5 DEF CommitEnable
      <4>2. /\ rule'[r].st = "live" /\ rule'[r].email = rule[r].email
            /\ rule'[r].dest = rule[r].dest /\ rule'[r].active = TRUE
        BY <3>2, <3>4, <4>1 DEF RowShape
      <4>3. rule[r].active = FALSE
        BY <3>1, <3>2, <3>4, <3>5 DEF CommitEnable
      <4> QED
        BY <3>2, <3>3, <4>2, <4>3, OneRowChanges
    <3>6. CASE CommitClear(w)
      <4>1. /\ rule'[r].email = rule[r].email /\ rule'[r].dest = rule[r].dest
            /\ ~rule'[r].active
            /\ rule'[r].st = IF req[w].op = "delete" THEN "deleted" ELSE "live"
        BY <3>1, <3>6, ClearEffect
      <4>2. req[w].op = "disable" => rule[r].active
        BY <3>1, <3>2
      <4>3. req[w].op = "disable" => rule'[r].active = ~rule[r].active
        BY <3>4, <4>1, <4>2
      <4>4. req[w].op \in {"disable", "delete"}
        BY <2>3, <3>6 DEF CommitClear
      <4> QED
        BY <3>2, <3>3, <4>1, <4>3, <4>4, OneRowChanges
    <3> QED
      BY <1>2, <3>5, <3>6
  <2> QED
    BY <2>2, <2>3
<1>3. ASSUME rule' # rule
      PROVE  \E w \in Workers : CommitCreate(w) \/ CommitEnable(w) \/ CommitClear(w)
  <2>1. \A w \in Workers : ~Start(w)
    BY <1>0, <1>3, StartEffect
  <2> QED
    BY <1>3, <2>1 DEF Next, Continue, Verify, Cache, Reject, Post, Drop, Remove,
       Around, AddDestination, OwnerVerifies, DeleteMailbox, ReviveMailbox,
       SyncDestinations, SwitchAccount, UnbindAccount, Crash, vars
<1> QED
  BY <1>1, <1>2, <1>3, CreateBinds

(* While requests keep apart, whatever fails, the rows implement the       *)
(* contract:                                                               *)
(* a mailbox is bound once, and requests that are refused, lost or cut     *)
(* short change no binding.                                                *)
THEOREM ApartImplementsContract == ApartSpec => ContractSpec
<1>1. Init => Contract!Init
  <2> SUFFICES ASSUME Init PROVE Target = [e \in Emails |-> Contract!Unbound]
    BY DEF Contract!Init
  <2>1. \A e \in Emails : ~AlreadyBound(e)
    BY DEF Init, NoRow, AlreadyBound
  <2> QED
    BY <2>1 DEF Target, Contract!Unbound
<1>2. (ApartInv /\ FlightInv) /\ (ApartInv /\ FlightInv)' /\ [Next]_vars => [Contract!Next]_Target
  BY StepsAreContractSteps
<1> QED
  BY <1>1, <1>2, FlightInvariance, PTL DEF ApartSpec, ContractSpec, Contract!Spec

-----------------------------------------------------------------------------
(* Requests that keep apart and nothing lost: platform and Cloudflare      *)
(* agree.  The invariant says what is true of the rows and their remote    *)
(* rules while requests are under way.                                     *)

(* A row holds an id exactly while it is undeleted and on.                 *)
HeldWhileOn == \A r \in RuleIds : rule[r].cfid # None <=> Live(r) /\ rule[r].active

(* The rows whose remote rule some request has removed already.            *)
BeingCleared(r) == \E w \in Workers : r \in req[w].mine \ req[w].todo

(* What a rule that is on names at Cloudflare is enabled, until the        *)
(* request that clears it has removed it.                                  *)
ForwardsUntilCleared ==
  \A r \in RuleIds : Live(r) /\ rule[r].active =>
    IF BeingCleared(r)
      THEN remote[rule[r].cfid].st = "removed"
      ELSE remote[rule[r].cfid].st = "present" /\ cfDest[rule[r].dest] = "verified"

(* How far a request is: what is left to remove, and what it made.         *)
Underway(q) ==
  /\ q.todo \subseteq q.mine
  /\ q.pc \in {"drop", "commit"} \/ q.op \in {"create", "enable"} => q.todo = {}
  /\ q.pc = "remove" => q.op \in {"disable", "delete", "retire"}
  /\ q.pc = "remove" /\ q.op \in {"disable", "delete"} => q.todo = q.mine
  /\ q.pc \in {"remove", "drop"} /\ q.op = "retire" => cfDest[q.dest] # "absent"
  /\ q.made # None <=> q.pc = "commit" /\ q.op \in {"create", "enable"}
  /\ q.made # None => remote[q.made].st = "present" /\ cfDest[q.dest] = "verified"

NeverDisabled == \A c \in CfIds : remote[c].st # "disabled"

(* A destination with a row exists at Cloudflare, but for the one that is  *)
(* being retired.                                                          *)
Retiring(d) == \E w \in Workers : req[w].pc = "commit" /\ req[w].op = "retire" /\ req[w].dest = d

ListedExists == \A d \in listed : cfDest[d] = "absent" => Retiring(d)

Accounted ==
  \A c \in CfIds : remote[c].st = "present" =>
    \/ \E w \in Workers : req[w].made = c
    \/ \E r \in RuleIds : Live(r) /\ rule[r].active /\ rule[r].cfid = c

Reliable ==
  /\ HeldWhileOn
  /\ ForwardsUntilCleared
  /\ \A w \in Workers : Underway(req[w])
  /\ NeverDisabled
  /\ ListedExists
  /\ Accounted

(* A row that one request works on no other one clears.                    *)
LEMMA ClearedByItsOwn ==
  ASSUME ApartInv, NEW w \in Workers, NEW r \in req[w].mine
  PROVE  BeingCleared(r) <=> r \notin req[w].todo
<1>1. TypeOK /\ Apart
  BY DEF ApartInv, IInv
<1>2. \A v \in Workers \ {w} : r \notin req[v].mine
  BY <1>1, NothingShared
<1> QED
  BY <1>2 DEF BeingCleared

(* How far the others are does not change: what one request removes,       *)
(* creates or drops is not what another one made, nor its destination.     *)
LEMMA OthersUnderway ==
  ASSUME ApartInv, Reliable, NEW w \in Workers, Start(w) \/ Continue(w),
         NEW v \in Workers \ {w}
  PROVE  Underway(req[v])'
<1> DEFINE q == req[v]
<1>0. TypeOK /\ Apart /\ req'[v] = q /\ q \in Request /\ Underway(q)
  BY ActsAlone DEF ApartInv, IInv, TypeOK, Reliable
<1>1. ASSUME q.op \in {"create", "enable", "retire"}
      PROVE  cfDest'[q.dest] = cfDest[q.dest]
  <2>1. q.dest \in Dests
    BY <1>0, <1>1 DEF Request, RequestShape
  <2>2. req[w].op = "retire" => q.dest # req[w].dest
    BY <1>0, NothingShared
  <2> QED
    BY <1>0, <2>1, <2>2, WhoWrites
<1>2. ASSUME q.made # None PROVE remote'[q.made].st = "present"
  <2>1. /\ remote[q.made].st = "present" /\ q.made \in CfIds
        /\ remote[q.made].dest = q.dest
        /\ \A r \in RuleIds : req[w].seen[r] # q.made
    BY <1>0, <1>2 DEF Underway, Request, RequestShape, ApartInv, IInv, MadeIsPrivate
  <2>2. remote[q.made] \in RemoteRule
    BY <1>0, <2>1 DEF TypeOK
  <2>3. CASE remote' = remote
    BY <2>1, <2>3
  <2>4. ASSUME NEW a \in Answers, Post(w, a) PROVE remote'[q.made].st = "present"
    BY <1>0, <2>1, <2>4 DEF Post, Unused, TypeOK
  <2>5. ASSUME NEW a \in Answers, NEW r \in RuleIds, Remove(w, r, a)
        PROVE  remote'[q.made].st = "present"
    <3>1. remote' = [remote EXCEPT ![req[w].seen[r]].st = "removed"]
      BY <2>5 DEF Remove
    <3> QED
      BY <1>0, <2>1, <3>1 DEF TypeOK
  <2>6. ASSUME NEW a \in Answers, Drop(w, a) PROVE remote'[q.made].st = "present"
    <3>1. req[w].op = "retire"
      BY <1>0, <2>6 DEF Drop, TypeOK, Request
    <3>2. q.dest # req[w].dest
      BY <1>0, <3>1, NothingShared
    <3> QED
      BY <2>1, <2>6, <3>2 DEF Drop
  <2> QED
    BY <1>0, <2>3, <2>4, <2>5, <2>6, StartEffect
       DEF Continue, Verify, Cache, Reject, CommitCreate, CommitEnable, CommitClear
<1> QED
  BY <1>0, <1>1, <1>2 DEF Underway

(* So it is enough to see to the request that acts.                        *)
LEMMA ReliableIfActs ==
  ASSUME ApartInv, Reliable, NEW w \in Workers, Start(w) \/ Continue(w),
         HeldWhileOn', ForwardsUntilCleared', Underway(req[w])', NeverDisabled',
         ListedExists', Accounted'
  PROVE  Reliable'
<1>1. ASSUME NEW v \in Workers PROVE Underway(req[v])'
  BY OthersUnderway
<1> QED
  BY <1>1 DEF Reliable

(* A request that changes nothing at Cloudflare and in the rows, and has   *)
(* neither cleared a row that is on nor made a rule, then or before,       *)
(* carries Reliable over.                                                  *)
LEMMA OnlyTheRequest ==
  ASSUME ApartInv, Reliable, NEW w \in Workers, Start(w) \/ Continue(w),
         UNCHANGED <<rule, remote, cfDest, listed>>,
         req[w].pc # "commit", req'[w].made = None,
         \A r \in req[w].mine \ req[w].todo : ~rule[r].active,
         \A r \in req'[w].mine \ req'[w].todo : ~rule[r].active,
         Underway(req[w])'
  PROVE  Reliable'
<1>0. TypeOK /\ \A v \in Workers \ {w} : req'[v] = req[v]
  BY ActsAlone DEF ApartInv, IInv
<1>1. HeldWhileOn' /\ NeverDisabled'
  BY DEF Reliable, HeldWhileOn, NeverDisabled
<1>2. \A r \in RuleIds : rule[r].active => (BeingCleared(r)' <=> BeingCleared(r))
  BY <1>0 DEF BeingCleared
<1>3. ForwardsUntilCleared'
  BY <1>2 DEF Reliable, ForwardsUntilCleared
<1>4. \A d \in Dests : Retiring(d) => Retiring(d)'
  BY <1>0 DEF Retiring
<1>5. ListedExists'
  BY <1>0, <1>4 DEF Reliable, ListedExists, TypeOK
<1>6. Accounted'
  <2>1. req[w].made = None
    BY DEF Reliable, Underway
  <2> QED
    BY <1>0, <2>1, NoneIsNoValue DEF Reliable, Accounted
<1> QED
  BY <1>1, <1>3, <1>5, <1>6, ReliableIfActs

(* A request that starts has cleared nothing yet: what it will clear it    *)
(* has on its list.                                                        *)
LEMMA StartReliable ==
  ASSUME ApartInv, Apart', NEW w \in Workers, Reliable, Start(w)
  PROVE  Reliable'
<1>0. TypeOK
  BY DEF ApartInv, IInv
<1>1. /\ UNCHANGED <<rule, remote, cfDest, listed>>
      /\ Outset(req'[w]) /\ LoadedNow(req'[w]) /\ req'[w] \in Request
  <2>1. \E q \in Request : req' = [req EXCEPT ![w] = q] /\ LoadedNow(q)
    BY <1>0, StartEffect
  <2>2. LoadedNow(req'[w]) /\ req'[w] \in Request
    BY <1>0, <2>1 DEF TypeOK
  <2> QED
    BY <1>0, <2>2, StartEffect, StartsAtOutset
<1>2. req[w] = Idle
  BY DEF Start, StartCreate, StartEnable, StartDisable, StartDelete, StartRetire
<1>3. PICK q : q = req'[w]
  OBVIOUS
<1>4. Outset(q) /\ LoadedNow(q) /\ q \in Request
  BY <1>1, <1>3
<1>5. \A r \in q.mine \ q.todo : ~rule[r].active
  <2> SUFFICES ASSUME NEW r \in q.mine, rule[r].active PROVE r \in q.todo
    OBVIOUS
  <2>1. r \in RuleIds /\ Live(r)
    BY <1>4 DEF LoadedNow, Request, RequestShape
  <2>2. rule[r].cfid # None
    BY <2>1 DEF Reliable, HeldWhileOn
  <2>3. r \in q.wasOn /\ q.seen[r] # None
    BY <1>4, <2>1, <2>2 DEF LoadedNow
  <2>4. q.op \in {"create", "enable"} => r \notin q.wasOn
    BY <1>4 DEF Outset, WorksOn
  <2> QED
    BY <1>4, <2>3, <2>4 DEF Outset
<1>6. Underway(q)
  <2>1. q.op = "retire" => cfDest[q.dest] # "absent"
    <3> SUFFICES ASSUME q.op = "retire", cfDest[q.dest] = "absent" PROVE FALSE
      OBVIOUS
    <3>1. PICK v \in Workers : req[v].op = "retire" /\ req[v].dest = q.dest
      BY <1>4 DEF Outset, Reliable, ListedExists, Retiring
    <3>2. v # w
      BY <1>2, <3>1 DEF Idle
    <3>3. req'[v] = req[v]
      BY <1>0, <3>2, ActsAlone
    <3> QED
      BY <1>3, <3>1, <3>2, <3>3 DEF Apart
  <2>2. q.op \in {"create", "enable", "disable", "delete", "retire"}
    BY <1>4 DEF Request, RequestShape, Outset
  <2>3. CASE q.op \in {"create", "enable"}
    BY <1>4, <2>3 DEF Outset, Underway
  <2>4. CASE q.op \in {"disable", "delete", "retire"}
    <3>1. /\ q.todo \subseteq q.mine /\ q.made = None
          /\ q.pc = IF q.todo # {} THEN "remove"
                    ELSE IF q.op = "retire" THEN "drop" ELSE "commit"
      BY <1>4, <2>4 DEF Outset
    <3>2. q.op # "retire" => \E r \in RuleIds : q.mine = {r}
      BY <1>4, <2>4 DEF Outset, WorksOn
    <3>3. q.op # "retire" /\ q.pc = "remove" => q.todo = q.mine
      BY <3>1, <3>2
    <3> QED
      BY <2>1, <2>4, <3>1, <3>3 DEF Underway
  <2> QED
    BY <2>2, <2>3, <2>4
<1>7. q.made = None
  BY <1>4 DEF Outset
<1>8. Underway(req[w])'
  BY <1>1, <1>3, <1>6 DEF Underway
<1>9. req[w].pc # "commit" /\ req[w].mine = {}
  BY <1>2 DEF Idle
<1> QED
  BY <1>1, <1>3, <1>5, <1>7, <1>8, <1>9, OnlyTheRequest

(* A request that ends without a commit leaves nothing half done, if it    *)
(* had cleared no rule and made none.                                      *)
LEMMA EndReliable ==
  ASSUME ApartInv, NEW w \in Workers, Reliable, Continue(w), End(w),
         UNCHANGED <<rule, remote, cfDest, listed>>,
         req[w].pc # "commit",
         \A r \in req[w].mine \ req[w].todo : ~rule[r].active
  PROVE  Reliable'
<1>1. req'[w] = Idle
  BY DEF ApartInv, IInv, TypeOK, End
<1>2. Underway(req[w])' /\ req'[w].made = None /\ req'[w].mine = {}
  BY <1>1 DEF Underway, Idle
<1> QED
  BY <1>2, OnlyTheRequest

(* Only calls that can fail without a fault are refused, and none of them  *)
(* comes after the first removal.                                          *)
LEMMA RejectReliable ==
  ASSUME ApartInv, FlightInv, Faults = {}, NEW w \in Workers, Reliable, Reject(w)
  PROVE  Reliable'
<1> DEFINE q == req[w]
<1>0. TypeOK /\ q \in Request /\ WorksOn(q) /\ Underway(q) /\ Continue(w)
  BY DEF ApartInv, IInv, TypeOK, FlightInv, Reliable, Continue
<1>1. \A r \in q.mine : /\ r \in RuleIds /\ Live(r) /\ q.seen[r] = rule[r].cfid
                        /\ r \in q.wasOn <=> rule[r].active
  BY <1>0, MineAreRows DEF ApartInv, SeenIsCurrent
<1>2. CASE q.op \in {"create", "enable"}
  <2>1. \A r \in q.mine : ~rule[r].active
    BY <1>0, <1>1, <1>2 DEF WorksOn
  <2>2. q.pc # "commit"
    BY DEF Reject, Rejected
  <2> QED
    BY <1>0, <2>1, <2>2, EndReliable DEF Reject
<1>3. CASE q.pc = "remove" /\ q.op \in {"disable", "delete"}
  <2>1. q.mine \ q.todo = {}
    BY <1>0, <1>3 DEF Underway
  <2> QED
    BY <1>0, <1>3, <2>1, EndReliable DEF Reject
<1>4. q.pc = "remove" => \A r \in q.todo : remote[q.seen[r]].st = "present"
  <2> SUFFICES ASSUME q.pc = "remove", NEW r \in q.todo PROVE remote[q.seen[r]].st = "present"
    OBVIOUS
  <2>1. r \in q.mine /\ rule[r].cfid # None
    BY <1>0, <1>1 DEF Underway, Request
  <2>2. ~BeingCleared(r)
    BY <2>1, ClearedByItsOwn
  <2> QED
    BY <1>1, <2>1, <2>2 DEF Reliable, HeldWhileOn, ForwardsUntilCleared
<1>5. CASE q.pc = "remove" /\ q.op = "retire"
  BY <1>4, <1>5 DEF Reject, Rejected, ClientUsable
<1>6. CASE q.pc = "drop"
  BY <1>0, <1>6 DEF Reject, Rejected, ClientUsable, Underway, Request
<1> QED
  BY <1>0, <1>2, <1>3, <1>5, <1>6 DEF Reject, Rejected, Underway, Request

(* ensure_verified: a destination that is listed again is verified.        *)
LEMMA CheckReliable ==
  ASSUME ApartInv, FlightInv, NEW w \in Workers, Reliable, Verify(w) \/ Cache(w)
  PROVE  Reliable'
<1> DEFINE q == req[w]
<1>0. TypeOK /\ q \in Request /\ WorksOn(q) /\ Underway(q) /\ VerifiedNow(q) /\ Continue(w)
  BY DEF ApartInv, IInv, TypeOK, FlightInv, Reliable, Continue
<1>1. q.op \in {"create", "enable"} /\ q.pc \in {"verify", "cache"}
  BY <1>0 DEF Verify, Cache, Request
<1>2. CASE End(w) /\ Verify(w)
  <2>1. \A r \in q.mine : ~rule[r].active
    BY <1>0, <1>1 DEF WorksOn, ApartInv, SeenIsCurrent
  <2> QED
    BY <1>0, <1>1, <1>2, <2>1, EndReliable DEF Verify
<1>3. ASSUME NEW pc \in {"cache", "post"}, req' = [req EXCEPT ![w].pc = pc],
             UNCHANGED <<rule, remote, cfDest>>,
             \A d \in listed' : d \in listed \/ cfDest[d] # "absent"
      PROVE  Reliable'
  <2>1. req'[w] = [q EXCEPT !.pc = pc] /\ \A v \in Workers \ {w} : req'[v] = req[v]
    BY <1>0, <1>3 DEF TypeOK
  <2>2. /\ req'[w].pc = pc /\ req'[w].op = q.op /\ req'[w].mine = q.mine
        /\ req'[w].todo = q.todo /\ req'[w].made = q.made /\ req'[w].dest = q.dest
    BY <1>0, <2>1 DEF Request, RequestShape
  <2>3. HeldWhileOn' /\ NeverDisabled'
    BY <1>3 DEF Reliable, HeldWhileOn, NeverDisabled
  <2>4. \A r \in RuleIds : BeingCleared(r)' <=> BeingCleared(r)
    BY <2>1, <2>2 DEF BeingCleared
  <2>5. ForwardsUntilCleared'
    BY <1>3, <2>4 DEF Reliable, ForwardsUntilCleared
  <2>6. Accounted'
    BY <1>3, <2>1, <2>2 DEF Reliable, Accounted
  <2>7. Underway(req[w])'
    BY <1>0, <1>1, <1>3, <2>2 DEF Underway
  <2>8. \A d \in Dests : Retiring(d) => Retiring(d)'
    BY <1>1, <2>1 DEF Retiring
  <2>9. ListedExists'
    BY <1>0, <1>3, <2>8 DEF Reliable, ListedExists, TypeOK
  <2> QED
    BY <1>0, <2>3, <2>5, <2>6, <2>7, <2>9, ReliableIfActs
<1>4. CASE Verify(w)
  BY <1>2, <1>3, <1>4 DEF Verify
<1>5. CASE Cache(w)
  BY <1>0, <1>3, <1>5 DEF Cache, VerifiedNow
<1> QED
  BY <1>4, <1>5

(* The remote rule created is the request's own until its commit.          *)
LEMMA PostReliable ==
  ASSUME ApartInv, FlightInv, Faults = {}, NEW w \in Workers, Reliable,
         NEW a \in Answers, Post(w, a)
  PROVE  Reliable'
<1> DEFINE q == req[w]
<1>0. TypeOK /\ q \in Request /\ WorksOn(q) /\ Underway(q) /\ VerifiedNow(q) /\ Continue(w)
  BY DEF ApartInv, IInv, TypeOK, FlightInv, Reliable, Continue
<1>1. q.op \in {"create", "enable"} /\ q.pc = "post" /\ a = "ok"
  BY <1>0 DEF Post, Request, Answers
<1>2. PICK c \in Unused :
        /\ remote' = [remote EXCEPT ![c] = [st |-> "present", email |-> q.email,
                                            dest |-> q.dest]]
        /\ req' = [req EXCEPT ![w].pc = "commit", ![w].made = c]
  BY <1>1 DEF Post
<1>3. UNCHANGED <<rule, cfDest, listed>>
  BY DEF Post
<1>4. c \in CfIds /\ remote[c].st = "unused" /\ c # None
  BY NoneIsNoValue DEF Unused
<1>5. remote'[c].st = "present" /\ \A b \in CfIds \ {c} : remote'[b] = remote[b]
  BY <1>0, <1>2, <1>4 DEF TypeOK
<1>6. /\ req'[w].pc = "commit" /\ req'[w].made = c /\ req'[w].op = q.op
      /\ req'[w].mine = q.mine /\ req'[w].todo = q.todo /\ req'[w].dest = q.dest
      /\ \A v \in Workers \ {w} : req'[v] = req[v]
  <2>1. req'[w] = [q EXCEPT !.pc = "commit", !.made = c]
        /\ \A v \in Workers \ {w} : req'[v] = req[v]
    BY <1>0, <1>2 DEF TypeOK
  <2> QED
    BY <1>0, <2>1 DEF Request, RequestShape
<1>8. HeldWhileOn' /\ NeverDisabled'
  BY <1>3, <1>5 DEF Reliable, HeldWhileOn, NeverDisabled
<1>9. ForwardsUntilCleared'
  <2>1. \A r \in RuleIds : rule[r].cfid \in CfIds \cup {None} /\ rule[r].cfid # c
    BY <1>0, <1>4 DEF TypeOK, Row, RowShape, ApartInv, IInv, RowsNameTheirOwnRemote
  <2>2. \A r \in RuleIds : Live(r) /\ rule[r].active => rule[r].cfid \in CfIds \ {c}
    BY <2>1 DEF Reliable, HeldWhileOn
  <2>3. \A r \in RuleIds : BeingCleared(r)' <=> BeingCleared(r)
    BY <1>6 DEF BeingCleared
  <2> QED
    BY <1>3, <1>5, <2>2, <2>3 DEF Reliable, ForwardsUntilCleared
<1>10. Underway(req[w])'
  <2>1. q.todo = {}
    BY <1>0, <1>1 DEF Underway
  <2> QED
    BY <1>0, <1>1, <1>3, <1>4, <1>5, <1>6, <2>1 DEF Underway, VerifiedNow
<1>11. ListedExists'
  <2>1. \A d \in Dests : Retiring(d) => Retiring(d)'
    BY <1>1, <1>6 DEF Retiring
  <2> QED
    BY <1>0, <1>3, <2>1 DEF Reliable, ListedExists, TypeOK
<1>12. Accounted'
  <2>1. \A b \in CfIds : q.made # b
    BY <1>0, <1>1, NoneIsNoValue DEF Underway
  <2> QED
    BY <1>3, <1>5, <1>6, <2>1 DEF Reliable, Accounted
<1> QED
  BY <1>0, <1>8, <1>9, <1>10, <1>11, <1>12, ReliableIfActs

(* A removal moves one row from what is left to what is cleared.           *)
LEMMA RemoveReliable ==
  ASSUME ApartInv, FlightInv, Faults = {}, NEW w \in Workers, Reliable,
         NEW r \in RuleIds, NEW a \in Answers, Remove(w, r, a)
  PROVE  Reliable'
<1> DEFINE q == req[w]
           c == q.seen[r]
           left == q.todo \ {r}
<1>0. TypeOK /\ q \in Request /\ WorksOn(q) /\ Underway(q) /\ Continue(w)
  BY DEF ApartInv, IInv, TypeOK, FlightInv, Reliable, Continue
<1>1. q.pc = "remove" /\ r \in q.todo /\ r \in q.mine /\ a = "ok"
  BY <1>0 DEF Remove, Underway, Answers
<1>2. Live(r) /\ rule[r].cfid = c /\ c \in CfIds /\ rule[r].active
  <2>1. Live(r) /\ rule[r].cfid = c
    BY <1>1 DEF ApartInv, SeenIsCurrent
  <2>2. c # None /\ rule[r].cfid \in CfIds \cup {None}
    BY <1>0, <1>1 DEF Request, TypeOK, Row, RowShape
  <2> QED
    BY <2>1, <2>2 DEF Reliable, HeldWhileOn
<1>3. remote'[c].st = "removed" /\ \A b \in CfIds \ {c} : remote'[b] = remote[b]
  <2>1. remote' = [remote EXCEPT ![c].st = "removed"] /\ remote[c] \in RemoteRule
    BY <1>0, <1>2 DEF Remove, TypeOK
  <2> QED
    BY <1>0, <1>2, <2>1 DEF TypeOK, RemoteRule
<1>4. UNCHANGED <<rule, cfDest, listed>>
  BY DEF Remove
<1>5. PICK pc \in {"remove", "drop", "commit"} :
        /\ pc = IF left # {} THEN "remove" ELSE IF q.op = "retire" THEN "drop" ELSE "commit"
        /\ req' = [req EXCEPT ![w].todo = left, ![w].pc = pc]
  BY <1>1 DEF Remove
<1>6. /\ req'[w].pc = pc /\ req'[w].todo = left /\ req'[w].made = q.made
      /\ req'[w].op = q.op /\ req'[w].mine = q.mine /\ req'[w].dest = q.dest
      /\ \A v \in Workers \ {w} : req'[v] = req[v]
  <2> HIDE DEF left
  <2>1. req'[w] = [q EXCEPT !.todo = left, !.pc = pc]
        /\ \A v \in Workers \ {w} : req'[v] = req[v]
    BY <1>0, <1>5 DEF TypeOK
  <2> QED
    BY <1>0, <2>1 DEF Request, RequestShape
<1>7. HeldWhileOn' /\ NeverDisabled'
  BY <1>3, <1>4 DEF Reliable, HeldWhileOn, NeverDisabled
<1>8. ForwardsUntilCleared'
  <2> SUFFICES ASSUME NEW s \in RuleIds, Live(s), rule[s].active
               PROVE  IF BeingCleared(s)'
                        THEN remote'[rule[s].cfid].st = "removed"
                        ELSE /\ remote'[rule[s].cfid].st = "present"
                             /\ cfDest[rule[s].dest] = "verified"
    BY <1>4 DEF ForwardsUntilCleared
  <2>1. CASE s = r
    <3>1. BeingCleared(r)'
      BY <1>1, <1>6 DEF BeingCleared
    <3> QED
      BY <1>2, <1>3, <2>1, <3>1
  <2>2. CASE s # r
    <3>1. rule[s].cfid \in CfIds \ {c}
      <4>1. rule[s].cfid # None /\ rule[s].cfid \in CfIds \cup {None}
        BY <1>0 DEF Reliable, HeldWhileOn, TypeOK, Row, RowShape
      <4>2. rule[s].cfid # c
        BY <1>2, <2>2, <4>1 DEF ApartInv, IInv, RowsNameTheirOwnRemote
      <4> QED
        BY <4>1, <4>2
    <3>2. BeingCleared(s)' <=> BeingCleared(s)
      BY <1>6, <2>2 DEF BeingCleared
    <3>3. IF BeingCleared(s)
            THEN remote[rule[s].cfid].st = "removed"
            ELSE /\ remote[rule[s].cfid].st = "present"
                 /\ cfDest[rule[s].dest] = "verified"
      BY DEF Reliable, ForwardsUntilCleared
    <3> QED
      BY <1>3, <3>1, <3>2, <3>3
  <2> QED
    BY <2>1, <2>2
<1>9. Underway(req[w])'
  <2>1. q.op \in {"disable", "delete"} => left = {}
    BY <1>0, <1>1 DEF WorksOn, Underway
  <2>2. q.op \in {"disable", "delete", "retire"} /\ q.made = None /\ left \subseteq q.mine
    BY <1>0, <1>1 DEF Underway
  <2>3. q.op = "retire" => cfDest'[q.dest] # "absent"
    BY <1>0, <1>1, <1>4 DEF Underway
  <2>4. pc \in {"drop", "commit"} => left = {}
    BY <1>5
  <2>5. pc = "remove" => q.op = "retire"
    BY <1>5, <2>1, <2>2
  <2> HIDE DEF left
  <2> QED
    BY <1>6, <2>2, <2>3, <2>4, <2>5 DEF Underway
<1>10. ListedExists'
  <2>1. \A d \in Dests : Retiring(d) => Retiring(d)'
    BY <1>1, <1>6 DEF Retiring
  <2> QED
    BY <1>0, <1>4, <2>1 DEF Reliable, ListedExists, TypeOK
<1>11. Accounted'
  BY <1>3, <1>4, <1>6 DEF Reliable, Accounted
<1> QED
  BY <1>0, <1>7, <1>8, <1>9, <1>10, <1>11, ReliableIfActs

(* When Cloudflare drops a destination no rule is left to switch off: what *)
(* forwarded to it belonged to a row, and was removed before.              *)
LEMMA DropReliable ==
  ASSUME ApartInv, FlightInv, Faults = {}, NEW w \in Workers, Reliable,
         NEW a \in Answers, Drop(w, a)
  PROVE  Reliable'
<1> DEFINE q == req[w]
           d == q.dest
<1>0. TypeOK /\ Apart /\ q \in Request /\ WorksOn(q) /\ Underway(q) /\ Continue(w)
  BY DEF ApartInv, IInv, TypeOK, FlightInv, Reliable, Continue
<1>1. /\ q.pc = "drop" /\ q.op = "retire" /\ q.todo = {} /\ q.made = None /\ d \in Dests
  BY <1>0 DEF Drop, Underway, Request, RequestShape
<1>2. ASSUME NEW c \in CfIds, remote[c].st = "present" PROVE remote[c].dest # d
  <2>1. CASE \E v \in Workers : req[v].made = c
    <3>1. PICK v \in Workers : req[v].made = c
      BY <2>1
    <3>2. c # None /\ v # w
      BY <1>1, <3>1, NoneIsNoValue
    <3>3. remote[c].dest = req[v].dest
      BY <3>1, <3>2 DEF ApartInv, IInv, MadeIsPrivate
    <3> QED
      BY <1>0, <1>1, <3>2, <3>3, NothingShared
  <2>2. CASE ~\E v \in Workers : req[v].made = c
    <3>1. PICK r \in RuleIds : Live(r) /\ rule[r].active /\ rule[r].cfid = c
      BY <1>2, <2>2 DEF Reliable, Accounted
    <3>2. ~BeingCleared(r)
      BY <1>2, <3>1 DEF Reliable, ForwardsUntilCleared
    <3>3. r \notin q.mine
      BY <1>1, <3>2 DEF BeingCleared
    <3>4. rule[r].dest # d
      BY <1>0, <1>1, <3>1, <3>3 DEF WorksOn
    <3> QED
      BY <3>1, <3>4, NoneIsNoValue DEF ApartInv, IInv, RowsNameTheirOwnRemote
  <2> QED
    BY <2>1, <2>2
<1>3. \A c \in CfIds : remote'[c] = remote[c]
  BY <1>2 DEF Drop
<1>4. UNCHANGED <<rule, listed>>
  BY DEF Drop
<1>5. cfDest'[d] = "absent" /\ \A x \in Dests \ {d} : cfDest'[x] = cfDest[x]
  BY <1>0, <1>1 DEF Drop, TypeOK
<1>6. /\ req'[w].pc = "commit" /\ req'[w].todo = {} /\ req'[w].made = None
      /\ req'[w].op = "retire" /\ req'[w].mine = q.mine /\ req'[w].dest = d
      /\ \A v \in Workers \ {w} : req'[v] = req[v]
  <2>1. req' = [req EXCEPT ![w].pc = "commit"]
    BY DEF Drop, Answers
  <2>2. req'[w] = [q EXCEPT !.pc = "commit"] /\ \A v \in Workers \ {w} : req'[v] = req[v]
    BY <1>0, <2>1 DEF TypeOK
  <2> QED
    BY <1>0, <1>1, <2>2 DEF Request, RequestShape
<1>7. \A r \in RuleIds : rule[r].cfid \in CfIds \cup {None}
                         /\ (Live(r) => rule[r].dest \in Dests)
  BY <1>0, RowsBindOnce DEF TypeOK, Row, RowShape
<1>8. HeldWhileOn' /\ NeverDisabled'
  BY <1>3, <1>4 DEF Reliable, HeldWhileOn, NeverDisabled
<1>9. ForwardsUntilCleared'
  <2> SUFFICES ASSUME NEW r \in RuleIds, Live(r), rule[r].active
               PROVE  IF BeingCleared(r)
                        THEN remote'[rule[r].cfid].st = "removed"
                        ELSE /\ remote'[rule[r].cfid].st = "present"
                             /\ cfDest'[rule[r].dest] = "verified"
    <3>1. \A r \in RuleIds : BeingCleared(r)' <=> BeingCleared(r)
      BY <1>1, <1>6 DEF BeingCleared
    <3> QED
      BY <1>4, <3>1 DEF ForwardsUntilCleared
  <2>1. IF BeingCleared(r)
          THEN remote[rule[r].cfid].st = "removed"
          ELSE remote[rule[r].cfid].st = "present" /\ cfDest[rule[r].dest] = "verified"
    BY DEF Reliable, ForwardsUntilCleared
  <2>2. rule[r].cfid \in CfIds
    BY <1>7 DEF Reliable, HeldWhileOn
  <2>3. ~BeingCleared(r) => rule[r].dest \in Dests \ {d}
    BY <1>0, <1>1, <1>7 DEF WorksOn, BeingCleared
  <2> QED
    BY <1>3, <1>5, <2>1, <2>2, <2>3
<1>10. Underway(req[w])'
  BY <1>6 DEF Underway
<1>11. ListedExists'
  <2>1. \A x \in Dests : x = d \/ Retiring(x) => Retiring(x)'
    BY <1>1, <1>6 DEF Retiring
  <2>2. \A x \in Dests : x # d => cfDest'[x] = cfDest[x]
    BY <1>5
  <2> HIDE DEF d
  <2> QED
    BY <1>0, <1>4, <2>1, <2>2 DEF Reliable, ListedExists, TypeOK
<1>12. Accounted'
  BY <1>1, <1>3, <1>4, <1>6, NoneIsNoValue DEF Reliable, Accounted
<1> QED
  BY <1>0, <1>8, <1>9, <1>10, <1>11, <1>12, ReliableIfActs

(* A commit shows in the rows what Cloudflare already does.                *)
LEMMA CommitReliable ==
  ASSUME ApartInv, FlightInv, NEW w \in Workers, Reliable,
         CommitCreate(w) \/ CommitEnable(w) \/ CommitClear(w)
  PROVE  Reliable'
<1> DEFINE q == req[w]
<1>0. TypeOK /\ q \in Request /\ WorksOn(q) /\ Underway(q) /\ Continue(w)
  BY DEF ApartInv, IInv, TypeOK, FlightInv, Reliable, Continue
<1>1. /\ q.pc = "commit" /\ q.todo = {} /\ UNCHANGED <<remote, cfDest>> /\ req'[w] = Idle
      /\ \A v \in Workers \ {w} : req'[v] = req[v]
  BY <1>0, ActsAlone DEF CommitCreate, CommitEnable, CommitClear, Underway, End, TypeOK
<1>2. \A r \in RuleIds : rule[r] \in RowShape
  BY <1>0 DEF TypeOK, Row
<1>3. Underway(req[w])' /\ NeverDisabled'
  BY <1>1 DEF Reliable, NeverDisabled, Underway, Idle
<1>4. \A r \in RuleIds : BeingCleared(r)' <=> \E v \in Workers \ {w} : r \in req[v].mine \ req[v].todo
  BY <1>1 DEF BeingCleared, Idle
<1>5. CASE CommitCreate(w) \/ CommitEnable(w)
  <2>1. /\ q.made \in CfIds /\ q.made # None
        /\ remote[q.made].st = "present" /\ cfDest[q.dest] = "verified"
    BY <1>0, <1>1, <1>5 DEF Underway, Request, RequestShape, CommitCreate, CommitEnable
  <2>2. PICK r \in RuleIds :
          /\ rule'[r].st = "live" /\ rule'[r].active /\ rule'[r].cfid = q.made
          /\ rule'[r].dest = q.dest /\ ~(Live(r) /\ rule[r].active)
          /\ \A s \in RuleIds \ {r} : rule'[s] = rule[s]
          /\ q.mine \subseteq {r} /\ (Live(r) => r \in q.mine)
    <3>1. CASE CommitCreate(w)
      BY <1>0, <3>1 DEF CommitCreate, WorksOn, TypeOK
    <3>2. CASE CommitEnable(w)
      <4>1. PICK r \in RuleIds : q.mine = {r} /\ q.wasOn = {}
        BY <1>0, <3>2 DEF CommitEnable, WorksOn
      <4>2. Live(r) /\ ~rule[r].active /\ rule[r].dest = q.dest
        <5>1. Live(r) /\ (r \in q.wasOn <=> rule[r].active)
          BY <4>1 DEF ApartInv, SeenIsCurrent
        <5>2. rule[r].dest = q.dest
          BY <3>2, <4>1 DEF ApartInv, IInv, EnablesItsRow, CommitEnable
        <5> QED
          BY <4>1, <5>1, <5>2
      <4>3. rule'[r] = [rule[r] EXCEPT !.cfid = q.made, !.active = TRUE]
            /\ \A s \in RuleIds \ {r} : rule'[s] = rule[s]
        BY <3>2, <4>1 DEF CommitEnable
      <4>4. /\ rule'[r].st = "live" /\ rule'[r].active /\ rule'[r].cfid = q.made
            /\ rule'[r].dest = q.dest
        BY <1>2, <4>2, <4>3 DEF RowShape
      <4> QED
        BY <4>1, <4>2, <4>3, <4>4
    <3> QED
      BY <1>5, <3>1, <3>2
  <2>3. HeldWhileOn'
    BY <2>1, <2>2 DEF Reliable, HeldWhileOn
  <2>4. ~BeingCleared(r)'
    <3>1. \A v \in Workers \ {w} : r \notin req[v].mine
      BY <1>0, <2>2, NothingShared DEF ApartInv, SeenIsCurrent
    <3> QED
      BY <1>4, <3>1
  <2>5. \A s \in RuleIds \ {r} : BeingCleared(s)' <=> BeingCleared(s)
    BY <1>4, <2>2 DEF BeingCleared
  <2>6. ForwardsUntilCleared'
    BY <1>1, <2>1, <2>2, <2>4, <2>5 DEF Reliable, ForwardsUntilCleared
  <2>7. ListedExists'
    <3>1. \A d \in Dests : Retiring(d) => Retiring(d)'
      BY <1>1, <1>5 DEF Retiring, CommitCreate, CommitEnable
    <3> QED
      BY <1>0, <1>1, <1>5, <3>1 DEF Reliable, ListedExists, CommitCreate, CommitEnable, TypeOK
  <2>8. Accounted'
    BY <1>1, <2>2 DEF Reliable, Accounted
  <2> QED
    BY <1>0, <1>3, <2>3, <2>6, <2>7, <2>8, ReliableIfActs
<1>6. CASE CommitClear(w)
  <2>1. \A r \in q.mine : rule'[r].cfid = None /\ ~rule'[r].active
    BY <1>6, ClearEffect
  <2>2. \A r \in RuleIds : r \notin q.mine => rule'[r] = rule[r]
    BY <1>6 DEF CommitClear
  <2>3. HeldWhileOn'
    BY <2>1, <2>2 DEF Reliable, HeldWhileOn
  <2>4. \A r \in RuleIds : r \notin q.mine => (BeingCleared(r)' <=> BeingCleared(r))
    BY <1>4 DEF BeingCleared
  <2>5. ForwardsUntilCleared'
    BY <1>1, <2>1, <2>2, <2>4 DEF Reliable, ForwardsUntilCleared
  <2>6. ListedExists'
    <3> SUFFICES ASSUME NEW d \in listed', cfDest[d] = "absent" PROVE Retiring(d)'
      BY <1>1 DEF ListedExists
    <3>1. d \in listed /\ (q.op = "retire" => d # q.dest)
      BY <1>6 DEF CommitClear
    <3>2. PICK v \in Workers : req[v].pc = "commit" /\ req[v].op = "retire" /\ req[v].dest = d
      BY <3>1 DEF Reliable, ListedExists, Retiring
    <3> QED
      BY <1>1, <3>1, <3>2 DEF Retiring
  <2>7. Accounted'
    <3>1. \A c \in CfIds : q.made # c
      BY <1>0, <1>1, <1>6, NoneIsNoValue DEF Underway, CommitClear
    <3>2. ASSUME NEW c \in CfIds, remote[c].st = "present"
          PROVE  \/ \E v \in Workers \ {w} : req[v].made = c
                 \/ \E r \in RuleIds \ q.mine : Live(r) /\ rule[r].active /\ rule[r].cfid = c
      <4>1. CASE \E v \in Workers : req[v].made = c
        BY <3>1, <4>1
      <4>2. CASE ~\E v \in Workers : req[v].made = c
        <5>1. PICK r \in RuleIds : Live(r) /\ rule[r].active /\ rule[r].cfid = c
          BY <3>2, <4>2 DEF Reliable, Accounted
        <5>2. ~BeingCleared(r)
          BY <3>2, <5>1 DEF Reliable, ForwardsUntilCleared
        <5>3. r \notin q.mine
          BY <1>1, <5>2 DEF BeingCleared
        <5> QED
          BY <5>1, <5>3
      <4> QED
        BY <4>1, <4>2
    <3> QED
      BY <1>1, <2>2, <3>2 DEF Accounted
  <2> QED
    BY <1>0, <1>3, <2>3, <2>5, <2>6, <2>7, ReliableIfActs
<1> QED
  BY <1>5, <1>6

(* What happens around the requests takes no destination away.             *)
LEMMA AroundReliable ==
  ASSUME ApartInv, Faults = {}, Reliable, Around \/ UNCHANGED vars
  PROVE  Reliable'
<1>0. TypeOK /\ ~Crash
  BY DEF ApartInv, IInv, Crash
<1>1. UNCHANGED <<rule, remote, req>>
  BY <1>0 DEF Around, AddDestination, OwnerVerifies, DeleteMailbox, ReviveMailbox,
     SyncDestinations, SwitchAccount, UnbindAccount, vars
<1>2. /\ \A x \in Dests : /\ cfDest[x] = "verified" => cfDest'[x] = "verified"
                          /\ cfDest[x] # "absent" => cfDest'[x] # "absent"
      /\ listed' \subseteq Dests
      /\ \A x \in listed' : x \in listed \/ cfDest'[x] # "absent"
  <2>1. cfDest \in [Dests -> {"absent", "pending", "verified"}] /\ listed \subseteq Dests
    BY <1>0 DEF TypeOK
  <2>2. ASSUME NEW d \in Dests, AddDestination(d) PROVE <1>2!:
    BY <2>1, <2>2 DEF AddDestination
  <2>3. ASSUME NEW d \in Dests, OwnerVerifies(d) PROVE <1>2!:
    BY <2>1, <2>3 DEF OwnerVerifies
  <2>4. CASE UNCHANGED <<cfDest, listed>>
    BY <2>1, <2>4
  <2>5. CASE SyncDestinations
    BY <2>1, <2>5 DEF SyncDestinations
  <2> QED
    BY <1>0, <2>2, <2>3, <2>4, <2>5 DEF Around, DeleteMailbox, ReviveMailbox,
       SwitchAccount, UnbindAccount, vars
<1>3. \A r \in RuleIds : Live(r) => rule[r].dest \in Dests
  BY RowsBindOnce
<1>5. HeldWhileOn' /\ NeverDisabled' /\ Accounted'
  BY <1>1 DEF Reliable, HeldWhileOn, NeverDisabled, Accounted
<1>6. ForwardsUntilCleared'
  BY <1>1, <1>2, <1>3 DEF Reliable, ForwardsUntilCleared, BeingCleared
<1>7. ASSUME NEW w \in Workers PROVE Underway(req[w])'
  <2>1. Underway(req[w])
    BY DEF Reliable
  <2>2. /\ req[w].dest \in Dests \cup {None}
        /\ req[w].op \in {"create", "enable", "retire"} => req[w].dest \in Dests
    BY <1>0 DEF TypeOK, Request, RequestShape
  <2> QED
    BY <1>1, <1>2, <2>1, <2>2 DEF Underway
<1>8. ListedExists'
  BY <1>1, <1>2 DEF Reliable, ListedExists, Retiring
<1> QED
  BY <1>5, <1>6, <1>7, <1>8 DEF Reliable

(* While requests keep apart and nothing is lost, in every reachable state *)
(* nothing forwards at Cloudflare behind the platform's back, and between  *)
(* requests whatever the platform shows as on forwards, to a destination   *)
(* that is verified.                                                       *)
THEOREM ApartRemoteMatchesRows ==
  ASSUME Faults = {}
  PROVE  ApartSpec => []RemoteMatchesRows
<1>1. Init => Reliable
  <2> SUFFICES ASSUME Init PROVE Reliable
    OBVIOUS
  <2>1. \A w \in Workers : req[w] = Idle
    BY DEF Init
  <2> QED
    BY <2>1 DEF Init, Reliable, HeldWhileOn, ForwardsUntilCleared, Underway, NeverDisabled,
       ListedExists, Accounted, Idle, NoRow, NoRemote
<1>2. ApartInv /\ FlightInv /\ Reliable /\ [Next /\ Apart']_vars => Reliable'
  <2> SUFFICES ASSUME ApartInv, FlightInv, Reliable, [Next /\ Apart']_vars PROVE Reliable'
    OBVIOUS
  <2>1. CASE Around \/ UNCHANGED vars
    BY <2>1, AroundReliable
  <2>2. ASSUME NEW w \in Workers, Start(w), Apart' PROVE Reliable'
    BY <2>2, StartReliable
  <2>3. ASSUME NEW w \in Workers, Continue(w) PROVE Reliable'
    BY <2>3, RejectReliable, CheckReliable, PostReliable, RemoveReliable, DropReliable,
       CommitReliable DEF Continue
  <2> QED
    BY <2>1, <2>2, <2>3 DEF Next
<1>3. ApartInv /\ Reliable => RemoteMatchesRows
  <2> SUFFICES ASSUME ApartInv, Reliable PROVE NoOrphanRemote /\ ActiveRulesForward
    BY DEF RemoteMatchesRows
  <2>1. NoOrphanRemote
    BY DEF Reliable, Accounted, NeverDisabled, NoOrphanRemote
  <2>2. ActiveRulesForward
    BY DEF Reliable, HeldWhileOn, ForwardsUntilCleared, BeingCleared, ActiveRulesForward, Idle
  <2> QED
    BY <2>1, <2>2
<1> QED
  BY <1>1, <1>2, <1>3, FlightInvariance, PTL DEF ApartSpec

=============================================================================
