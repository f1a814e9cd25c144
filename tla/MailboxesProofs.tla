---------------------------- MODULE MailboxesProofs ----------------------------
(***************************************************************************)
(* Theorems about Mailboxes, for any number of clients, users, domain rows *)
(* and tokens.                                                             *)
(***************************************************************************)
EXTENDS Mailboxes, TLAPS

(* Only a creation is asked for while there is no row.  Only an address    *)
(* someone could use the domain for is created.                            *)
ReqOK(c) ==
  LET q == req[c]
  IN  /\ q.op \notin {"idle", "create"} => box.st # "none"
      /\ q.op \in {"create", "revive"} => q.user \in Users /\ q.domain \in DomainIds /\ q.could

(* Until it commits, the only revival finds user and domain as it loaded   *)
(* them.                                                                   *)
AloneOK(c) ==
  Asked(c, "revive") =>
    /\ req[c].seen.user = box.user /\ req[c].seen.domain = box.domain
    /\ \A b \in Clients : Asked(b, "revive") => b = c

(* A row that exists, deleted or not, has a link that was never reset and  *)
(* is under a domain that is routed, and its user and domain are those of  *)
(* one request.                                                            *)
BoxOK ==
  box.st # "none" =>
    /\ box.link \in Tokens \ spent
    /\ box.domain \in routing
    /\ <<box.user, box.domain>> = vouched \/ raced

IInv ==
  /\ TypeOK
  /\ \A c \in Clients : ReqOK(c) /\ (~raced => AloneOK(c))
  /\ BoxOK
  /\ box.st = "none" => box.link \notin spent

LEMMA IdleOK == Idle \in Request /\ NoBox \in Box /\ Idle.op = "idle" /\ NoBox.link = None
  BY DEF Idle, Request, NoBox, Box

LEMMA Starts == Init => IInv
<1> SUFFICES ASSUME Init PROVE IInv
  OBVIOUS
<1>1. TypeOK
  BY IdleOK DEF Init, TypeOK
<1>2. \A c \in Clients : req[c].op = "idle"
  BY IdleOK DEF Init
<1> QED
  BY <1>1, <1>2 DEF Init, IInv, ReqOK, AloneOK, BoxOK, NoBox, Asked

(* What the request of a client may be replaced by.                        *)
LEMMA TypedReq ==
  ASSUME TypeOK, NEW c \in Clients, NEW q \in Request, req' = [req EXCEPT ![c] = q]
  PROVE  req' \in [Clients -> Request] /\ \A b \in Clients : req'[b] = IF b = c THEN q ELSE req[b]
  BY DEF TypeOK

-----------------------------------------------------------------------------
(* Requests begin.                                                         *)

LEMMA CreateStarts ==
  ASSUME IInv, NEW c \in Clients, NEW u \in Users, NEW d \in DomainIds, StartCreate(c, u, d)
  PROVE  IInv'
<1> DEFINE q == [op |-> IF box.st = "none" THEN "create" ELSE "revive",
                 user |-> u, domain |-> d, seen |-> box, could |-> Access(u, d)]
<1>1. /\ q \in Request /\ q.op \in {"create", "revive"} /\ q.user = u /\ q.domain = d
      /\ q.seen = box /\ q.could /\ (q.op = "revive" <=> box.st # "none")
  <2>1. Access(u, d) \in BOOLEAN /\ Access(u, d)
    BY DEF StartCreate, Access
  <2> QED
    BY <2>1 DEF IInv, TypeOK, Request
<1>2. req' = [req EXCEPT ![c] = q] /\ req[c] = Idle
  BY DEF StartCreate, Begin
<1> HIDE DEF q
<1>3. /\ UNCHANGED <<account, shared, routing, box, spent, vouched>>
      /\ raced' = (raced \/ \E b \in Clients : Asked(b, "revive"))
  BY DEF StartCreate
<1>4. req' \in [Clients -> Request] /\ \A b \in Clients : req'[b] = IF b = c THEN q ELSE req[b]
  BY <1>1, <1>2, TypedReq DEF IInv
<1>5. TypeOK'
  BY <1>3, <1>4 DEF IInv, TypeOK
<1>6. ASSUME NEW b \in Clients PROVE ReqOK(b)'
  BY <1>1, <1>3, <1>4 DEF IInv, ReqOK
<1>7. ASSUME NEW b \in Clients, ~raced' PROVE AloneOK(b)'
  <2>1. ~raced /\ \A a \in Clients : ~Asked(a, "revive")
    BY <1>3, <1>7 DEF IInv, TypeOK
  <2> QED
    BY <1>1, <1>3, <1>4, <2>1 DEF AloneOK, Asked
<1>8. BoxOK' /\ (box'.st = "none" => box'.link \notin spent')
  BY <1>3 DEF IInv, BoxOK
<1> QED
  BY <1>5, <1>6, <1>7, <1>8 DEF IInv

LEMMA OthersStart ==
  ASSUME IInv, NEW c \in Clients, NEW u \in Users, NEW op \in {"switch", "delete", "reset"},
         StartOn(c, u, op)
  PROVE  IInv'
<1> DEFINE q == [op |-> op, user |-> u, domain |-> None, seen |-> box, could |-> FALSE]
<1>1. q \in Request /\ q.op = op
  BY DEF IInv, TypeOK, Request
<1>2. /\ req' = [req EXCEPT ![c] = q] /\ box.st = "live"
      /\ UNCHANGED <<account, shared, routing, box, spent, vouched, raced>>
  BY DEF StartOn, Begin
<1> HIDE DEF q
<1>3. req' \in [Clients -> Request] /\ \A b \in Clients : req'[b] = IF b = c THEN q ELSE req[b]
  BY <1>1, <1>2, TypedReq DEF IInv
<1>4. TypeOK'
  BY <1>2, <1>3 DEF IInv, TypeOK
<1>5. \A b \in Clients : ReqOK(b)' /\ (~raced' => AloneOK(b)')
  BY <1>1, <1>2, <1>3 DEF IInv, ReqOK, AloneOK, Asked
<1> QED
  BY <1>2, <1>4, <1>5 DEF IInv, BoxOK

-----------------------------------------------------------------------------
(* Requests commit.                                                        *)

LEMMA EndTyped ==
  ASSUME TypeOK, NEW c \in Clients, End(c)
  PROVE  req' \in [Clients -> Request] /\ \A b \in Clients : req'[b] = IF b = c THEN Idle ELSE req[b]
  BY IdleOK, TypedReq DEF End

LEMMA CreateCommits ==
  ASSUME IInv, NEW c \in Clients, CommitCreate(c)
  PROVE  IInv'
<1>1. End(c) /\ UNCHANGED <<account, shared, spent, raced>>
  BY DEF CommitCreate
<1>2. req' \in [Clients -> Request] /\ \A b \in Clients : req'[b] = IF b = c THEN Idle ELSE req[b]
  BY <1>1, EndTyped DEF IInv
<1>3. CASE UNCHANGED <<box, routing, vouched>>
  <2>1. TypeOK'
    BY <1>1, <1>2, <1>3 DEF IInv, TypeOK
  <2>2. \A b \in Clients : ReqOK(b)' /\ (~raced' => AloneOK(b)')
    BY <1>1, <1>2, <1>3, IdleOK DEF IInv, ReqOK, AloneOK, Asked
  <2> QED
    BY <1>1, <1>3, <2>1, <2>2 DEF IInv, BoxOK
<1>4. CASE box.st = "none"
  <2>1. PICK t \in Spare : box' = [st |-> "live", active |-> TRUE, user |-> req[c].user,
                                   domain |-> req[c].domain, link |-> t]
    BY <1>4 DEF CommitCreate
  <2>2. /\ req[c].user \in Users /\ req[c].domain \in DomainIds /\ req[c].could
        /\ t \in Tokens \ spent
    BY <2>1 DEF IInv, ReqOK, CommitCreate, Asked, Spare
  <2>3. routing' = routing \cup {req[c].domain} /\ vouched' = <<req[c].user, req[c].domain>>
    BY <1>4, <2>2 DEF CommitCreate, Routed, Pair
  <2>4. box' \in Box
    BY <2>1, <2>2 DEF Box
  <2>5. TypeOK'
    BY <1>1, <1>2, <2>2, <2>3, <2>4 DEF IInv, TypeOK
  <2>6. \A b \in Clients : req'[b].op \in {"idle", "create"}
    BY <1>2, <1>4, IdleOK DEF IInv, ReqOK
  <2>7. \A b \in Clients : ReqOK(b)' /\ AloneOK(b)'
    BY <1>2, <2>6, IdleOK DEF IInv, ReqOK, AloneOK, Asked
  <2>8. BoxOK' /\ box'.st # "none"
    BY <1>1, <2>1, <2>2, <2>3 DEF BoxOK
  <2> QED
    BY <2>5, <2>7, <2>8 DEF IInv
<1> QED
  BY <1>3, <1>4 DEF CommitCreate

LEMMA ReviveCommits ==
  ASSUME IInv, NEW c \in Clients, CommitRevive(c)
  PROVE  IInv'
<1> DEFINE q == req[c]
           a == Written(TRUE, q.seen.active, box.active)
           u == Written(q.user, q.seen.user, box.user)
           d == Written(q.domain, q.seen.domain, box.domain)
<1>1. /\ q \in Request /\ q.op = "revive" /\ q.user \in Users /\ q.domain \in DomainIds
      /\ q.could /\ box.st # "none" /\ box \in Box
  BY DEF IInv, TypeOK, ReqOK, CommitRevive, Asked
<1>2. /\ box' = [box EXCEPT !.st = "live", !.active = a, !.user = u, !.domain = d]
      /\ routing' = routing \cup {q.domain} /\ vouched' = <<q.user, q.domain>>
      /\ End(c) /\ UNCHANGED <<account, shared, spent, raced>>
  BY <1>1 DEF CommitRevive, Routed, Pair
<1>3. /\ a \in BOOLEAN /\ u \in Users \cup {None} /\ d \in DomainIds
      /\ d = q.domain \/ d = box.domain
  <2>1. box.domain \in DomainIds
    BY <1>1 DEF IInv, BoxOK, TypeOK
  <2> QED
    BY <1>1, <2>1 DEF Written, Request, Box
<1>4. ~raced => u = q.user /\ d = q.domain
  BY <1>1 DEF IInv, AloneOK, Written, Asked
<1>5. req' \in [Clients -> Request] /\ \A b \in Clients : req'[b] = IF b = c THEN Idle ELSE req[b]
  BY <1>2, EndTyped DEF IInv
<1> HIDE DEF a, u, d
<1>6. /\ box' \in Box /\ box'.st = "live" /\ box'.link = box.link
      /\ box'.user = u /\ box'.domain = d
  BY <1>1, <1>2, <1>3 DEF Box
<1>7. TypeOK'
  BY <1>1, <1>2, <1>5, <1>6 DEF IInv, TypeOK
<1>8. ASSUME NEW b \in Clients PROVE ReqOK(b)'
  BY <1>5, <1>6, IdleOK DEF IInv, ReqOK
<1>9. ASSUME NEW b \in Clients, ~raced' PROVE AloneOK(b)'
  <2>1. ~raced /\ AloneOK(c) /\ Asked(c, "revive")
    BY <1>1, <1>2, <1>9 DEF IInv, Asked
  <2>2. req'[b].op # "revive"
    BY <1>5, <2>1, IdleOK DEF AloneOK, Asked
  <2> QED
    BY <2>2 DEF AloneOK, Asked
<1>10. BoxOK'
  <2>1. box'.link \in Tokens \ spent'
    BY <1>1, <1>2, <1>6 DEF IInv, BoxOK
  <2>2. box'.domain \in routing'
    BY <1>1, <1>2, <1>3, <1>6 DEF IInv, BoxOK
  <2>3. <<box'.user, box'.domain>> = vouched' \/ raced'
    BY <1>2, <1>4, <1>6
  <2> QED
    BY <2>1, <2>2, <2>3 DEF BoxOK
<1> QED
  BY <1>6, <1>7, <1>8, <1>9, <1>10 DEF IInv

(* A commit that leaves user, domain and routing alone, and may give the   *)
(* address another link.                                                   *)
LEMMA RowKeeps ==
  ASSUME IInv, NEW c \in Clients, ReqOK(c), ~Asked(c, "create"), ~Asked(c, "idle"), End(c),
         box' \in Box, box'.st # "none", box'.user = box.user, box'.domain = box.domain,
         box'.link \in Tokens \ spent', spent' \subseteq Tokens,
         UNCHANGED <<account, shared, routing, vouched, raced>>
  PROVE  IInv'
<1>1. req' \in [Clients -> Request] /\ \A b \in Clients : req'[b] = IF b = c THEN Idle ELSE req[b]
  BY EndTyped DEF IInv
<1>2. TypeOK'
  BY <1>1 DEF IInv, TypeOK
<1>3. \A b \in Clients : ReqOK(b)' /\ (~raced' => AloneOK(b)')
  BY <1>1, IdleOK DEF IInv, ReqOK, AloneOK, Asked
<1>4. box.st # "none"
  BY DEF ReqOK, Asked
<1>5. BoxOK'
  BY <1>4 DEF IInv, BoxOK
<1> QED
  BY <1>2, <1>3, <1>5 DEF IInv

LEMMA OthersCommit ==
  ASSUME IInv, NEW c \in Clients, CommitSwitch(c) \/ CommitDelete(c) \/ CommitReset(c)
  PROVE  IInv'
<1>1. /\ ReqOK(c) /\ ~Asked(c, "create") /\ ~Asked(c, "idle") /\ End(c)
      /\ box.st # "none" /\ box \in Box /\ box.link \in Tokens \ spent /\ spent \subseteq Tokens
      /\ req[c] \in Request
      /\ UNCHANGED <<account, shared, routing, vouched, raced>>
  BY DEF IInv, TypeOK, BoxOK, ReqOK, CommitSwitch, CommitDelete, CommitReset, Asked
<1>2. CASE CommitSwitch(c)
  <2>1. PICK on \in BOOLEAN :
          box' = [box EXCEPT !.active = Written(on, req[c].seen.active, @)]
    BY <1>2 DEF CommitSwitch
  <2>2. Written(on, req[c].seen.active, box.active) \in BOOLEAN
    BY <1>1 DEF Written, Box
  <2>3. /\ box' \in Box /\ box'.st = box.st /\ box'.user = box.user
        /\ box'.domain = box.domain /\ box'.link = box.link
    BY <1>1, <2>1, <2>2 DEF Box
  <2> QED
    BY <1>1, <1>2, <2>3, RowKeeps DEF CommitSwitch
<1>3. CASE CommitDelete(c)
  <2>1. Written(FALSE, req[c].seen.active, box.active) \in BOOLEAN
    BY <1>1 DEF Written, Box
  <2>2. /\ box' \in Box /\ box'.st = "deleted" /\ box'.user = box.user
        /\ box'.domain = box.domain /\ box'.link = box.link
    BY <1>1, <1>3, <2>1 DEF CommitDelete, Box
  <2> QED
    BY <1>1, <1>3, <2>2, RowKeeps DEF CommitDelete
<1>4. CASE CommitReset(c)
  <2>1. PICK t \in Spare : box' = [box EXCEPT !.link = t]
    BY <1>4 DEF CommitReset
  <2>2. t \in Tokens \ (spent \cup {box.link}) /\ spent' = spent \cup {box.link}
    BY <1>4, <2>1 DEF CommitReset, Spare
  <2>3. /\ box' \in Box /\ box'.st = box.st /\ box'.user = box.user
        /\ box'.domain = box.domain /\ box'.link = t
    BY <1>1, <2>1, <2>2 DEF Box
  <2>4. box'.link \in Tokens \ spent' /\ spent' \subseteq Tokens
    BY <1>1, <2>2, <2>3
  <2> QED
    BY <1>1, <2>3, <2>4, RowKeeps
<1> QED
  BY <1>2, <1>3, <1>4

-----------------------------------------------------------------------------
(* All steps, and the theorems.                                            *)

LEMMA Steps == IInv /\ [Next]_vars => IInv'
<1> SUFFICES ASSUME IInv, [Next]_vars PROVE IInv'
  OBVIOUS
<1>1. ASSUME NEW c \in Clients, Commit(c) PROVE IInv'
  BY <1>1, CreateCommits, ReviveCommits, OthersCommit DEF Commit
<1>2. ASSUME NEW u \in Users, NEW v \in Users, NEW d \in DomainIds,
             Assign(u, d, v) \/ Unassign(u, d, v)
      PROVE  IInv'
  <2>1. shared' \subseteq Users \X DomainIds
    BY <1>2 DEF Assign, Unassign, IInv, TypeOK
  <2> QED
    BY <1>2, <2>1 DEF Assign, Unassign, IInv, TypeOK, ReqOK, AloneOK, BoxOK, Asked
<1>3. ASSUME NEW d \in DomainIds, NEW state \in {"active", "inactive", "deleted"},
             SetAccount(d, state)
      PROVE  IInv'
  BY <1>3 DEF SetAccount, IInv, TypeOK, ReqOK, AloneOK, BoxOK, Asked
<1>4. CASE Crash
  <2>1. req' \in [Clients -> Request] /\ \A c \in Clients : req'[c].op = "idle"
    BY <1>4, IdleOK DEF Crash
  <2> QED
    BY <1>4, <2>1 DEF Crash, IInv, TypeOK, ReqOK, AloneOK, BoxOK, Asked
<1>5. CASE UNCHANGED vars
  BY <1>5 DEF vars, IInv, TypeOK, ReqOK, AloneOK, BoxOK, Asked
<1> QED
  BY <1>1, <1>2, <1>3, <1>4, <1>5, CreateStarts, OthersStart DEF Next

(* The row and every request keep their shape.                             *)
THEOREM TypeCorrect == Spec => []TypeOK
<1>1. IInv => TypeOK
  BY DEF IInv
<1> QED
  BY <1>1, Starts, Steps, PTL DEF Spec

(* A link that was reset opens nothing any more.                           *)
THEOREM LinksStayDead == Spec => []ResetLinksStayDead
<1>1. IInv => ResetLinksStayDead
  BY DEF IInv, BoxOK, ResetLinksStayDead, Opens
<1> QED
  BY <1>1, Starts, Steps, PTL DEF Spec

(* A mailbox belongs to a user who could use its domain, unless two users  *)
(* re-created it at once.                                                  *)
THEOREM UsersCould == Spec => []UserCouldUseDomain
<1>1. IInv => UserCouldUseDomain
  BY DEF IInv, BoxOK, UserCouldUseDomain
<1> QED
  BY <1>1, Starts, Steps, PTL DEF Spec

(* The domain row of a live mailbox is routed.                             *)
THEOREM AllReceive == Spec => []MailboxesReceive
<1>1. IInv => MailboxesReceive
  BY DEF IInv, BoxOK, MailboxesReceive
<1> QED
  BY <1>1, Starts, Steps, PTL DEF Spec
=============================================================================
