------------------------- MODULE DestinationsProofs -------------------------
(***************************************************************************)
(* Theorems about Destinations for every set of workers, rows, identifiers *)
(* and mailboxes and every choice of Faults: first those about requests    *)
(* that overlap in any way, then the one about requests that keep apart.   *)
(***************************************************************************)
EXTENDS Destinations, TLAPS

(* Address c is, or was, Cloudflare's address for mailbox e.               *)
AddressOf(c, e) == c \in CfIds /\ cf[c].st # "unused" /\ cf[c].email = e

SeenVerified(e) == \E c \in CfIds : cf[c].email = e /\ cf[c].verified

(* A row in use names an address of its mailbox; the others are empty.     *)
RowsComplete == \A r \in RowIds :
  IF row[r].st = "none" THEN row[r] = NoRow
  ELSE row[r].email \in Emails /\ AddressOf(row[r].cfid, row[r].email)

(* A loaded row still exists with the mailbox it was loaded with, and what *)
(* was loaded was complete.                                                *)
LoadOk(q) == \A r \in RowIds : q.load[r] # NoRow =>
  /\ q.load[r].st # "none" /\ q.load[r].email \in Emails
  /\ AddressOf(q.load[r].cfid, q.load[r].email)
  /\ q.load[r].verified => SeenVerified(q.load[r].email)
  /\ row[r].st # "none" /\ row[r].email = q.load[r].email

(* What a request goes on with is what Cloudflare has for its mailbox.     *)
AnswerOk(q) ==
  /\ \A c \in q.ids : cf[c].st # "unused"
  /\ \A c \in q.ok : cf[c].verified
  /\ q.pc = "create" => q.op = "add"
  /\ q.op = "ensure" /\ q.pc # "list" => \E c \in q.ids : c \in q.ok
  /\ q.op \in {"add", "ensure"} =>
       /\ q.email \in Emails
       /\ \A c \in q.ids : cf[c].email = q.email
  /\ q.op \in {"add", "ensure"} =>
       \A r \in RowIds : q.load[r] # NoRow => q.load[r].email = q.email

(* A fresh address is not verified.                                        *)
UnusedUnverified == \A c \in CfIds : cf[c].verified => cf[c].st # "unused"

RequestsOk == \A w \in Workers : LoadOk(req[w]) /\ AnswerOk(req[w])

(* The inductive invariant.                                                *)
IInv ==
  /\ TypeOK
  /\ RowsComplete
  /\ VerifiedByItsOwner
  /\ UnusedUnverified
  /\ RequestsOk

(* What every step keeps: rows and addresses in use stay in use, for the   *)
(* same mailbox, and a confirmation is never taken back.                   *)
RowsKept == \A r \in RowIds : row[r].st # "none" =>
  row'[r].st # "none" /\ row'[r].email = row[r].email

CfKept ==
  /\ cf' \in [CfIds -> CfAddress]
  /\ UnusedUnverified'
  /\ \A c \in CfIds : cf[c].st # "unused" =>
       /\ cf'[c].st # "unused" /\ cf'[c].email = cf[c].email
       /\ cf[c].verified => cf'[c].verified

-----------------------------------------------------------------------------
(* A worker that serves nothing meets every condition on requests.         *)
LEMMA IdleOk == Idle \in Request /\ LoadOk(Idle) /\ AnswerOk(Idle)
  BY DEF Idle, Request, Row, NoRow, LoadOk, AnswerOk

(* Loading any rows of a complete table gives a well-formed load.          *)
LEMMA LoadedOk ==
  ASSUME TypeOK, RowsComplete, VerifiedByItsOwner, NEW R \in SUBSET RowIds, NEW q, q.load = Loaded(R)
  PROVE  Loaded(R) \in [RowIds -> Row] /\ LoadOk(q)
<1>1. \A r \in RowIds : row[r] \in Row /\ NoRow \in Row
  BY DEF TypeOK, Row, NoRow
<1>2. Loaded(R) \in [RowIds -> Row]
  BY <1>1 DEF Loaded
<1>3. ASSUME NEW r \in RowIds, q.load[r] # NoRow
      PROVE  /\ q.load[r].st # "none" /\ q.load[r].email \in Emails
             /\ AddressOf(q.load[r].cfid, q.load[r].email)
             /\ q.load[r].verified => SeenVerified(q.load[r].email)
             /\ row[r].st # "none" /\ row[r].email = q.load[r].email
  <2>1. q.load[r] = row[r]
    BY <1>3 DEF Loaded
  <2> QED
    BY <1>3, <2>1 DEF RowsComplete, VerifiedByItsOwner, SeenVerified
<1> QED
  BY <1>2, <1>3 DEF LoadOk

(* Whatever a step does, conditions on a request that hold before it hold  *)
(* after it, if the step keeps rows and addresses.                         *)
LEMMA KeptOk ==
  ASSUME UnusedUnverified, NEW q \in Request, LoadOk(q), AnswerOk(q), RowsKept, CfKept
  PROVE  LoadOk(q)' /\ AnswerOk(q)'
<1>1. q.ids \subseteq CfIds /\ q.ok \subseteq CfIds
  BY DEF Request
<1>2. LoadOk(q)'
  BY DEF LoadOk, AddressOf, SeenVerified, RowsKept, CfKept, UnusedUnverified
<1>3. AnswerOk(q)'
  BY <1>1 DEF AnswerOk, CfKept, UnusedUnverified
<1> QED
  BY <1>2, <1>3

(* A step that leaves the rows alone and gives one worker a well-formed    *)
(* request keeps the invariant.                                            *)
LEMMA CallKeeps ==
  ASSUME IInv, UNCHANGED row, CfKept,
         NEW w \in Workers, NEW q \in Request, req' = [req EXCEPT ![w] = q],
         LoadOk(q)', AnswerOk(q)'
  PROVE  IInv'
<1> USE DEF IInv
<1>1. TypeOK'
  BY DEF TypeOK, CfKept
<1>2. RowsKept
  BY DEF RowsKept
<1>3. RowsComplete'
  BY DEF RowsComplete, AddressOf, CfKept
<1>4. VerifiedByItsOwner' /\ UnusedUnverified'
  BY DEF VerifiedByItsOwner, UnusedUnverified, CfKept
<1>5. ASSUME NEW v \in Workers PROVE (LoadOk(req[v]) /\ AnswerOk(req[v]))'
  <2>1. CASE v = w
    <3>1. req'[v] = q
      BY <2>1 DEF TypeOK
    <3> QED
      BY <3>1 DEF LoadOk, AnswerOk
  <2>2. CASE v # w
    <3>1. req'[v] = req[v] /\ req[v] \in Request
      BY <2>2 DEF TypeOK
    <3>2. LoadOk(req[v]) /\ AnswerOk(req[v])
      BY DEF RequestsOk
    <3> DEFINE x == req[v]
    <3>3. LoadOk(x) /\ AnswerOk(x) /\ x \in Request
      BY <3>1, <3>2
    <3> QED
      BY <3>1, <3>2, <1>2, KeptOk DEF LoadOk, AnswerOk
  <2> QED
    BY <2>1, <2>2
<1> QED
  BY <1>1, <1>3, <1>4, <1>5 DEF RequestsOk

(* The same, for a step that leaves the addresses alone too.               *)
LEMMA LoadKeeps ==
  ASSUME IInv, UNCHANGED <<row, cf>>, NEW w \in Workers, NEW q \in Request,
         req' = [req EXCEPT ![w] = q], LoadOk(q), AnswerOk(q)
  PROVE  IInv'
<1>1. CfKept
  BY DEF IInv, TypeOK, CfKept, UnusedUnverified
<1>2. LoadOk(q)' /\ AnswerOk(q)'
  BY DEF LoadOk, AnswerOk, AddressOf, SeenVerified
<1> QED
  BY <1>1, <1>2, CallKeeps

(* Ending a request keeps the invariant, whatever Cloudflare did.          *)
LEMMA EndKeeps ==
  ASSUME IInv, UNCHANGED row, CfKept,
         NEW w \in Workers, End(w)
  PROVE  IInv'
<1>1. RowsKept
  BY DEF RowsKept
<1>2. LoadOk(Idle)' /\ AnswerOk(Idle)'
  BY <1>1, IdleOk, KeptOk DEF IInv
<1> QED
  BY <1>2, IdleOk, CallKeeps DEF End

(* The start of a request keeps the invariant.                             *)
LEMMA StartKeeps ==
  ASSUME IInv, NEW w \in Workers, Start(w)
  PROVE  IInv'
<1> USE DEF IInv
<1>1. ASSUME NEW e \in Emails, StartAdd(w, e) PROVE IInv'
  <2> DEFINE q == [Idle EXCEPT !.op = "add", !.pc = "create", !.email = e,
                               !.load = Loaded(RowsOf(e))]
  <2>1. /\ q.op = "add" /\ q.email = e /\ q.ids = {} /\ q.ok = {}
        /\ q.load = Loaded(RowsOf(e))
    BY DEF Idle
  <2>2. RowsOf(e) \in SUBSET RowIds
    BY DEF RowsOf
  <2>3. Loaded(RowsOf(e)) \in [RowIds -> Row] /\ LoadOk(q)
    BY <2>1, <2>2, LoadedOk
  <2>4. q \in Request
    BY <2>3 DEF Idle, Request
  <2>5. AnswerOk(q)
    BY <2>1 DEF AnswerOk, Loaded, RowsOf
  <2> QED
    BY <1>1, <2>3, <2>4, <2>5, LoadKeeps DEF StartAdd, Begin
<1>2. ASSUME NEW e \in Emails, StartEnsure(w, e) PROVE IInv'
  <2> DEFINE q == [Idle EXCEPT !.op = "ensure", !.pc = "list", !.email = e]
  <2>1. q \in Request /\ LoadOk(q) /\ AnswerOk(q)
    BY IdleOk DEF Idle, Request, LoadOk, AnswerOk
  <2> QED
    BY <1>2, <2>1, LoadKeeps DEF StartEnsure, Begin
<1>3. ASSUME StartSync(w) PROVE IInv'
  <2> DEFINE q == [Idle EXCEPT !.op = "sync", !.pc = "list"]
  <2>1. q \in Request /\ LoadOk(q) /\ AnswerOk(q)
    BY IdleOk DEF Idle, Request, LoadOk, AnswerOk
  <2> QED
    BY <1>3, <2>1, LoadKeeps DEF StartSync, Begin
<1>4. ASSUME NEW r \in RowIds, StartRemove(w, r) PROVE IInv'
  <2> DEFINE q == [Idle EXCEPT !.op = "remove", !.pc = "drop", !.load = Loaded({r})]
  <2>1. q.op = "remove" /\ q.ids = {} /\ q.ok = {} /\ q.load = Loaded({r})
    BY DEF Idle
  <2>2. Loaded({r}) \in [RowIds -> Row] /\ LoadOk(q)
    BY <2>1, LoadedOk
  <2>3. q \in Request
    BY <2>2, NoneIsNoValue DEF Idle, Request
  <2>4. AnswerOk(q)
    BY <2>1 DEF AnswerOk
  <2> QED
    BY <1>4, <2>2, <2>3, <2>4, LoadKeeps DEF StartRemove, Begin
<1> QED
  BY <1>1, <1>2, <1>3, <1>4 DEF Start

(* Cloudflare's answer to a creation is an address of the mailbox asked    *)
(* for, new or not, and the others keep theirs.                            *)
LEMMA RegisteredOk ==
  ASSUME TypeOK, UnusedUnverified, NEW e \in Emails, NEW c \in CfIds, Registered(e, c)
  PROVE  CfKept /\ cf'[c].st # "unused" /\ cf'[c].email = e
<1>1. CASE c \in Present /\ cf[c].email = e /\ UNCHANGED cf
  BY <1>1 DEF TypeOK, CfKept, UnusedUnverified, Present
<1>2. CASE /\ cf[c].st = "unused"
           /\ cf' = [cf EXCEPT ![c] = [st |-> "present", email |-> e, verified |-> FALSE]]
  <2>1. cf' \in [CfIds -> CfAddress]
    BY <1>2 DEF TypeOK, CfAddress
  <2>2. cf'[c].st = "present" /\ cf'[c].email = e /\ ~cf'[c].verified
    BY <1>2 DEF TypeOK
  <2>3. \A b \in CfIds \ {c} : cf'[b] = cf[b]
    BY <1>2 DEF TypeOK
  <2> QED
    BY <1>2, <2>1, <2>2, <2>3 DEF CfKept, UnusedUnverified
<1> QED
  BY <1>1, <1>2 DEF Registered

(* Removing or confirming an address leaves it an address of its mailbox.  *)
LEMMA MarkedOk ==
  ASSUME TypeOK, UnusedUnverified, NEW c \in Present,
         \/ cf' = [cf EXCEPT ![c].st = "gone"]
         \/ cf' = [cf EXCEPT ![c].verified = TRUE]
  PROVE  CfKept
<1>1. c \in CfIds /\ cf[c].st = "present" /\ \A b \in CfIds : cf[b] \in CfAddress
  BY DEF Present, TypeOK
<1>2. \A b \in CfIds \ {c} : cf'[b] = cf[b]
  BY DEF TypeOK
<1>3. /\ cf'[c].st # "unused" /\ cf'[c].email = cf[c].email
      /\ cf[c].verified => cf'[c].verified
  BY <1>1 DEF TypeOK, CfAddress
<1>4. cf' \in [CfIds -> CfAddress]
  BY <1>1 DEF TypeOK, CfAddress
<1> QED
  BY <1>2, <1>3, <1>4 DEF CfKept, UnusedUnverified

(* Every call to Cloudflare, and every read of the rows after it, keeps    *)
(* the invariant.                                                          *)
LEMMA CallsKeep ==
  ASSUME IInv, NEW w \in Workers,
         \/ \E a \in Answers : CreateAddress(w, a) \/ DropAddress(w, a)
         \/ ListForSync(w) \/ ListForEnsure(w) \/ ReadForSync(w) \/ ReadForEnsure(w)
         \/ Reject(w)
  PROVE  IInv'
<1> USE DEF IInv
<1>0. req[w] \in Request /\ LoadOk(req[w]) /\ AnswerOk(req[w])
  BY DEF TypeOK, RequestsOk
<1>1. ASSUME UNCHANGED cf PROVE CfKept
  BY <1>1 DEF TypeOK, CfKept, UnusedUnverified
<1>2. ASSUME NEW a \in Answers, CreateAddress(w, a) PROVE IInv'
  <2>1. PICK c \in CfIds :
          /\ Registered(req[w].email, c)
          /\ IF a = "ok"
               THEN req' = [req EXCEPT ![w].pc = "commit", ![w].ids = {c},
                                       ![w].ok = {b \in {c} : cf[b].verified}]
               ELSE End(w)
    BY <1>2 DEF CreateAddress
  <2>2. UNCHANGED row /\ req[w].pc = "create"
    BY <1>2 DEF CreateAddress
  <2>3. req[w].op = "add" /\ req[w].email \in Emails
    BY <1>0, <2>2 DEF AnswerOk
  <2>4. CfKept /\ cf'[c].st # "unused" /\ cf'[c].email = req[w].email
    BY <2>1, <2>3, RegisteredOk
  <2>5. CASE End(w)
    BY <2>2, <2>4, <2>5, EndKeeps
  <2>6. CASE req' = [req EXCEPT ![w].pc = "commit", ![w].ids = {c},
                                ![w].ok = {b \in {c} : cf[b].verified}]
    <3>1. PICK ok \in SUBSET {c} : ok = {b \in {c} : cf[b].verified}
      OBVIOUS
    <3>2. PICK q \in Request : q = [req[w] EXCEPT !.pc = "commit", !.ids = {c}, !.ok = ok]
      BY <1>0 DEF Request
    <3>3. /\ q.ids = {c} /\ q.ok = ok /\ q.op = "add" /\ q.email = req[w].email
          /\ q.load = req[w].load /\ q.pc = "commit"
          /\ req' = [req EXCEPT ![w] = q]
      BY <1>0, <2>3, <2>6, <3>1, <3>2 DEF Request
    <3>4. \A b \in ok : cf'[b].verified
      BY <2>4, <3>1 DEF CfKept, UnusedUnverified
    <3>5. LoadOk(q)'
      <4>1. LoadOk(q)
        BY <1>0, <3>3 DEF LoadOk
      <4> QED
        BY <2>2, <2>4, <4>1 DEF LoadOk, AddressOf, SeenVerified, CfKept, UnusedUnverified
    <3>6. AnswerOk(q)'
      BY <1>0, <2>3, <2>4, <3>3, <3>4 DEF AnswerOk
    <3> QED
      BY <2>2, <2>4, <3>3, <3>5, <3>6, CallKeeps
  <2> QED
    BY <2>1, <2>5, <2>6
<1>3. ASSUME NEW a \in Answers, DropAddress(w, a) PROVE IInv'
  <2>1. UNCHANGED row /\ req[w].pc = "drop"
    BY <1>3 DEF DropAddress
  <2>2. CfKept
    BY <1>3, MarkedOk DEF DropAddress
  <2>3. CASE End(w)
    BY <2>1, <2>2, <2>3, EndKeeps
  <2>4. CASE req' = [req EXCEPT ![w].pc = "commit"]
    <3>1. PICK q \in Request : q = [req[w] EXCEPT !.pc = "commit"]
      BY <1>0 DEF Request
    <3>2. /\ q.load = req[w].load /\ q.ids = req[w].ids /\ q.ok = req[w].ok
          /\ q.op = req[w].op /\ q.email = req[w].email /\ q.pc = "commit"
          /\ req' = [req EXCEPT ![w] = q]
      BY <1>0, <2>4, <3>1 DEF Request
    <3>3. LoadOk(q) /\ AnswerOk(q)
      BY <1>0, <2>1, <3>2 DEF LoadOk, AnswerOk
    <3>4. RowsKept
      BY <2>1 DEF RowsKept
    <3>5. LoadOk(q)' /\ AnswerOk(q)'
      BY <2>2, <3>3, <3>4, KeptOk
    <3> QED
      BY <2>1, <2>2, <3>2, <3>5, CallKeeps
  <2> QED
    BY <1>3, <2>3, <2>4 DEF DropAddress
<1>4. CASE ListForSync(w) \/ ListForEnsure(w) \/ ReadForSync(w) \/ ReadForEnsure(w)
           \/ Reject(w)
  <2>1. UNCHANGED <<row, cf>>
    BY <1>4 DEF ListForSync, ListForEnsure, ReadForSync, ReadForEnsure, Reject
  <2>2. CASE End(w)
    BY <1>1, <2>1, <2>2, EndKeeps
  <2>3. ASSUME NEW ids \in SUBSET Present, NEW ok \in SUBSET Present,
               \A c \in ok : cf[c].verified,
               req[w].op = "ensure" => /\ \A c \in ids : cf[c].email = req[w].email
                                       /\ \E c \in ids : c \in ok,
               req[w].op \in {"sync", "ensure"},
               req' = [req EXCEPT ![w].pc = "read", ![w].ids = ids, ![w].ok = ok]
        PROVE  IInv'
    <3> DEFINE q == [req[w] EXCEPT !.pc = "read", !.ids = ids, !.ok = ok]
    <3>1. ids \in SUBSET CfIds /\ ok \in SUBSET CfIds
      BY DEF Present
    <3>2. req' = [req EXCEPT ![w] = q] /\ q \in Request
      BY <1>0, <2>3, <3>1 DEF Request
    <3>3. /\ q.load = req[w].load /\ q.ids = ids /\ q.ok = ok
          /\ q.op = req[w].op /\ q.email = req[w].email /\ q.pc = "read"
      BY <1>0 DEF Request
    <3> HIDE DEF q
    <3>4. LoadOk(q)
      BY <1>0, <3>3 DEF LoadOk
    <3>5. AnswerOk(q)
      BY <1>0, <2>3, <3>3 DEF AnswerOk, Present
    <3> QED
      BY <2>1, <3>2, <3>4, <3>5, LoadKeeps
  <2>4. CASE ListForSync(w)
    <3> DEFINE ok == {c \in Present : cf[c].verified}
    <3>1. ok \in SUBSET Present /\ \A c \in ok : cf[c].verified
      OBVIOUS
    <3> QED
      BY <2>3, <2>4, <3>1 DEF ListForSync
  <2>5. CASE ListForEnsure(w) /\ ~End(w)
    <3>1. PICK c \in Matched(req[w].email) :
            req' = [req EXCEPT ![w].pc = "read", ![w].ids = {c}, ![w].ok = {c}]
      BY <2>5 DEF ListForEnsure
    <3>2. {c} \in SUBSET Present /\ cf[c].verified /\ cf[c].email = req[w].email
      BY DEF Matched
    <3>3. req[w].op = "ensure"
      BY <2>5 DEF ListForEnsure
    <3> QED
      BY <2>3, <3>1, <3>2, <3>3
  <2>6. ASSUME NEW R \in SUBSET RowIds, req[w].op # "add", req[w].pc = "read",
               req[w].op = "ensure" => R = LiveOf(req[w].email),
               req' = [req EXCEPT ![w].pc = "commit", ![w].load = Loaded(R)]
        PROVE  IInv'
    <3> DEFINE q == [req[w] EXCEPT !.pc = "commit", !.load = Loaded(R)]
    <3>1. q.load = Loaded(R)
      BY <1>0 DEF Request
    <3>2. LoadOk(q) /\ Loaded(R) \in [RowIds -> Row]
      BY <3>1, LoadedOk
    <3>3. req' = [req EXCEPT ![w] = q] /\ q \in Request
      BY <1>0, <2>6, <3>2 DEF Request
    <3>4. /\ q.ids = req[w].ids /\ q.ok = req[w].ok /\ q.op = req[w].op
          /\ q.email = req[w].email /\ q.pc = "commit"
      BY <1>0 DEF Request
    <3> HIDE DEF q
    <3>5. AnswerOk(q)
      BY <1>0, <2>6, <3>1, <3>4 DEF AnswerOk, Loaded, LiveOf, RowsOf
    <3> QED
      BY <2>1, <3>2, <3>3, <3>5, LoadKeeps
  <2>7. CASE ReadForSync(w)
    <3>1. {r \in RowIds : Live(r)} \in SUBSET RowIds
      OBVIOUS
    <3> QED
      BY <2>6, <2>7, <3>1 DEF ReadForSync
  <2>8. CASE ReadForEnsure(w) /\ ~End(w)
    <3>1. LiveOf(req[w].email) \in SUBSET RowIds
      BY DEF LiveOf, RowsOf
    <3> QED
      BY <2>6, <2>8, <3>1 DEF ReadForEnsure
  <2> QED
    BY <1>4, <2>2, <2>4, <2>5, <2>7, <2>8 DEF Reject
<1> QED
  BY <1>2, <1>3, <1>4

-----------------------------------------------------------------------------
(* The commits.  x may be stored in row r: it is complete, and keeps the   *)
(* mailbox of a row in use.                                                *)
StoreOk(r, x) ==
  /\ x \in Row /\ x.st # "none" /\ x.email \in Emails
  /\ AddressOf(x.cfid, x.email)
  /\ x.verified => SeenVerified(x.email)
  /\ row[r].st # "none" => x.email = row[r].email

(* A commit that stores such rows and ends the request keeps the invariant.*)
LEMMA StoreKeeps ==
  ASSUME IInv, NEW w \in Workers, End(w), UNCHANGED cf, row' \in [RowIds -> Row],
         \A r \in RowIds : row'[r] = row[r] \/ StoreOk(r, row'[r])
  PROVE  IInv'
<1> USE DEF IInv
<1>1. TypeOK'
  BY IdleOk DEF TypeOK, End
<1>2. RowsKept
  BY DEF RowsKept, StoreOk
<1>3. CfKept
  BY DEF CfKept, TypeOK, UnusedUnverified
<1>4. RowsComplete'
  BY DEF RowsComplete, StoreOk, AddressOf
<1>5. VerifiedByItsOwner' /\ UnusedUnverified'
  BY DEF VerifiedByItsOwner, UnusedUnverified, StoreOk, SeenVerified
<1>6. ASSUME NEW v \in Workers PROVE (LoadOk(req[v]) /\ AnswerOk(req[v]))'
  <2>1. PICK q \in Request : q = req'[v]
    BY <1>1 DEF TypeOK
  <2>2. LoadOk(q) /\ AnswerOk(q)
    BY <2>1, IdleOk DEF RequestsOk, End, TypeOK
  <2>3. LoadOk(q)' /\ AnswerOk(q)'
    BY <1>2, <1>3, <2>2, KeptOk
  <2> QED
    BY <2>1, <2>3 DEF LoadOk, AnswerOk
<1> QED
  BY <1>1, <1>4, <1>5, <1>6 DEF RequestsOk

(* An UPDATE writes such a row, because the row kept its mailbox since it  *)
(* was loaded: columns of x and columns another request wrote mix well.    *)
LEMMA UpdatedOk ==
  ASSUME IInv, NEW w \in Workers, NEW r \in Mine(w), NEW x \in Row, x.st # "none",
         x.email = req[w].load[r].email, AddressOf(x.cfid, x.email),
         x.verified => SeenVerified(x.email)
  PROVE  StoreOk(r, Updated(w, r, x))
<1> USE DEF IInv
<1>1. r \in RowIds /\ req[w].load[r] # NoRow
  BY DEF Mine
<1>2. /\ row[r].st # "none" /\ row[r].email = x.email /\ x.email \in Emails
      /\ row[r] \in Row
  BY <1>1 DEF RequestsOk, LoadOk, TypeOK
<1>3. AddressOf(row[r].cfid, x.email) /\ (row[r].verified => SeenVerified(x.email))
  BY <1>1, <1>2 DEF RowsComplete, VerifiedByItsOwner, SeenVerified
<1> DEFINE y == Updated(w, r, x)
<1>4. /\ y.st \in {x.st, row[r].st} /\ y.email = x.email
      /\ y.cfid \in {x.cfid, row[r].cfid} /\ y.verified \in {x.verified, row[r].verified}
      /\ y \in Row
  BY <1>2 DEF Updated, Row
<1> HIDE DEF y
<1>5. StoreOk(r, y)
  BY <1>2, <1>3, <1>4 DEF StoreOk
<1> QED
  BY <1>5 DEF y

(* What a request stores for its mailbox is such a row.                    *)
LEMMA FreshOk ==
  ASSUME IInv, NEW w \in Workers, req[w].op \in {"add", "ensure"}, NEW c \in req[w].ids
  PROVE  /\ Fresh(w, c) \in Row /\ Fresh(w, c).st # "none"
         /\ Fresh(w, c).email = req[w].email /\ req[w].email \in Emails
         /\ AddressOf(Fresh(w, c).cfid, req[w].email)
         /\ Fresh(w, c).verified => SeenVerified(req[w].email)
<1>1. c \in CfIds /\ AnswerOk(req[w]) /\ req[w] \in Request
  BY DEF IInv, TypeOK, Request, RequestsOk
<1>2. req[w].email \in Emails /\ AddressOf(c, req[w].email)
  BY <1>1 DEF AddressOf, AnswerOk
<1>3. (c \in req[w].ok) \in BOOLEAN /\ (c \in req[w].ok => SeenVerified(req[w].email))
  BY <1>1 DEF SeenVerified, AnswerOk
<1> DEFINE v == c \in req[w].ok
<1>4. v \in BOOLEAN /\ (v => SeenVerified(req[w].email))
  BY <1>3
<1>5. Fresh(w, c) = [st |-> "live", email |-> req[w].email, cfid |-> c, verified |-> v]
  BY DEF Fresh
<1> HIDE DEF v
<1> QED
  BY <1>1, <1>2, <1>4, <1>5 DEF Row

(* An INSERT keeps the invariant.                                          *)
LEMMA InsertKeeps ==
  ASSUME IInv, NEW w \in Workers, req[w].op \in {"add", "ensure"}, Insert(w), End(w),
         UNCHANGED cf
  PROVE  IInv'
<1>1. PICK r \in RowIds, c \in req[w].ids :
        row[r].st = "none" /\ row' = [row EXCEPT ![r] = Fresh(w, c)]
  BY DEF Insert
<1>2. StoreOk(r, Fresh(w, c))
  BY <1>1, FreshOk DEF StoreOk
<1>3. row' \in [RowIds -> Row] /\ \A s \in RowIds : row'[s] = row[s] \/ StoreOk(s, row'[s])
  BY <1>1, <1>2, FreshOk DEF IInv, TypeOK
<1> QED
  BY <1>3, StoreKeeps

(* An UPDATE of one row keeps the invariant.                               *)
LEMMA UpdateKeeps ==
  ASSUME IInv, NEW w \in Workers, End(w), UNCHANGED cf, NEW r \in Mine(w), NEW x,
         StoreOk(r, x), row' = [row EXCEPT ![r] = x]
  PROVE  IInv'
<1>1. row' \in [RowIds -> Row] /\ \A s \in RowIds : row'[s] = row[s] \/ StoreOk(s, row'[s])
  BY DEF IInv, TypeOK, StoreOk, Mine
<1> QED
  BY <1>1, StoreKeeps

(* The four commits keep the invariant.                                    *)
LEMMA CommitsKeep ==
  ASSUME IInv, NEW w \in Workers,
         CommitAdd(w) \/ CommitEnsure(w) \/ CommitRemove(w) \/ CommitSync(w)
  PROVE  IInv'
<1>0. \A r \in Mine(w) : /\ r \in RowIds /\ req[w].load[r] \in Row
                         /\ req[w].load[r].st # "none"
                         /\ AddressOf(req[w].load[r].cfid, req[w].load[r].email)
  BY DEF IInv, RequestsOk, LoadOk, TypeOK, Request, Mine
<1>1. \A r \in Mine(w) : req[w].load[r].verified => SeenVerified(req[w].load[r].email)
  BY DEF IInv, RequestsOk, LoadOk, Mine
<1>2. CASE CommitAdd(w)
  <2>1. End(w) /\ UNCHANGED cf /\ req[w].op = "add"
    BY <1>2 DEF CommitAdd
  <2>2. CASE Insert(w)
    BY <2>1, <2>2, InsertKeeps
  <2>3. ASSUME NEW r \in Mine(w), NEW c \in req[w].ids,
               row' = [row EXCEPT ![r] = Updated(w, r, Fresh(w, c))]
        PROVE  IInv'
    <3>1. req[w].load[r].email = req[w].email
      BY <2>1, <1>0 DEF IInv, RequestsOk, AnswerOk, Mine
    <3>2. StoreOk(r, Updated(w, r, Fresh(w, c)))
      BY <2>1, <3>1, FreshOk, UpdatedOk
    <3> QED
      BY <2>1, <2>3, <3>2, UpdateKeeps
  <2> QED
    BY <1>2, <2>2, <2>3 DEF CommitAdd
<1>3. CASE CommitEnsure(w)
  <2>1. End(w) /\ UNCHANGED cf /\ req[w].op = "ensure"
    BY <1>3 DEF CommitEnsure
  <2>2. CASE Insert(w)
    BY <2>1, <2>2, InsertKeeps
  <2>3. ASSUME NEW r \in Mine(w), NEW x, x = [req[w].load[r] EXCEPT !.verified = TRUE],
               row' = [row EXCEPT ![r] = Updated(w, r, x)]
        PROVE  IInv'
    <3>1. PICK c \in CfIds : c \in req[w].ids /\ c \in req[w].ok
      BY <1>3 DEF CommitEnsure, IInv, RequestsOk, AnswerOk, TypeOK, Request
    <3>2. req[w].load[r].email = req[w].email
      BY <1>0, <2>1 DEF IInv, RequestsOk, AnswerOk, Mine
    <3>3. /\ x \in Row /\ x.st # "none" /\ x.email = req[w].load[r].email
          /\ x.cfid = req[w].load[r].cfid /\ x.verified
      BY <1>0, <2>3 DEF Row
    <3>4. SeenVerified(req[w].email)
      BY <2>1, <3>1 DEF IInv, RequestsOk, AnswerOk, SeenVerified
    <3>5. StoreOk(r, Updated(w, r, x))
      BY <1>0, <3>2, <3>3, <3>4, UpdatedOk
    <3> QED
      BY <2>1, <2>3, <3>5, UpdateKeeps
  <2> QED
    BY <1>3, <2>2, <2>3 DEF CommitEnsure
<1>4. CASE CommitRemove(w)
  <2>1. PICK r \in Mine(w) :
          row' = [row EXCEPT ![r] = Updated(w, r, [req[w].load[r] EXCEPT !.st = "deleted"])]
    BY <1>4 DEF CommitRemove
  <2> DEFINE x == [req[w].load[r] EXCEPT !.st = "deleted"]
  <2>2. /\ x \in Row /\ x.st = "deleted" /\ x.email = req[w].load[r].email
        /\ x.cfid = req[w].load[r].cfid /\ x.verified = req[w].load[r].verified
    BY <1>0 DEF Row
  <2>3. row' = [row EXCEPT ![r] = Updated(w, r, x)]
    BY <2>1
  <2> HIDE DEF x
  <2>4. StoreOk(r, Updated(w, r, x))
    BY <1>0, <1>1, <2>2, UpdatedOk
  <2> QED
    BY <1>4, <2>3, <2>4, UpdateKeeps DEF CommitRemove
<1>5. CASE CommitSync(w)
  <2>1. ASSUME NEW r \in Mine(w) PROVE StoreOk(r, Updated(w, r, Synced(w, r)))
    <3> DEFINE old == req[w].load[r]
               x == Synced(w, r)
    <3>1. /\ old \in Row /\ old.st # "none" /\ AddressOf(old.cfid, old.email)
          /\ old.verified => SeenVerified(old.email)
      BY <1>0, <1>1
    <3>2. old.cfid \in req[w].ok => SeenVerified(old.email)
      BY <3>1 DEF IInv, RequestsOk, AnswerOk, AddressOf, SeenVerified
    <3>3. /\ x \in Row /\ x.st # "none" /\ x.email = old.email /\ x.cfid = old.cfid
          /\ x.verified => SeenVerified(old.email)
      <4>1. CASE x = [old EXCEPT !.st = "deleted"]
        BY <3>1, <4>1 DEF Row
      <4>2. CASE x = old
        BY <3>1, <4>2
      <4>3. CASE x = [old EXCEPT !.email = cf[old.cfid].email,
                                 !.verified = old.cfid \in req[w].ok]
        <5> DEFINE v == old.cfid \in req[w].ok
        <5>1. v \in BOOLEAN /\ (v => SeenVerified(old.email))
          BY <3>2
        <5>2. x = [old EXCEPT !.email = old.email, !.verified = v]
          BY <3>1, <4>3 DEF AddressOf
        <5> HIDE DEF v, x
        <5> QED
          BY <3>1, <5>1, <5>2 DEF Row
      <4> QED
        BY <4>1, <4>2, <4>3 DEF Synced
    <3> HIDE DEF x
    <3>4. StoreOk(r, Updated(w, r, x))
      BY <3>1, <3>3, UpdatedOk
    <3> QED
      BY <3>4 DEF x
  <2>2. \A r \in RowIds : row'[r] = row[r] \/ StoreOk(r, row'[r])
    BY <1>5, <2>1 DEF CommitSync
  <2>3. row' \in [RowIds -> Row]
    BY <1>5, <2>1 DEF CommitSync, StoreOk, IInv, TypeOK
  <2> QED
    BY <1>5, <2>2, <2>3, StoreKeeps DEF CommitSync
<1> QED
  BY <1>2, <1>3, <1>4, <1>5

(* So does what happens around the requests.                               *)
LEMMA AroundKeeps ==
  ASSUME IInv, Around \/ UNCHANGED vars
  PROVE  IInv'
<1> USE DEF IInv
<1>1. UNCHANGED row
  BY DEF Around, OwnerVerifies, RemovedAtCloudflare, AddedAtCloudflare, Crash, vars
<1>2. CfKept
  <2>1. ASSUME NEW e \in Emails, AddedAtCloudflare(e) PROVE CfKept
    BY <2>1, RegisteredOk DEF AddedAtCloudflare
  <2>2. ASSUME UNCHANGED cf PROVE CfKept
    BY <2>2 DEF TypeOK, CfKept, UnusedUnverified
  <2>3. ASSUME NEW c \in CfIds, OwnerVerifies(c) \/ RemovedAtCloudflare(c) PROVE CfKept
    BY <2>3, MarkedOk DEF OwnerVerifies, RemovedAtCloudflare
  <2> QED
    BY <2>1, <2>2, <2>3 DEF Around, Crash, vars
<1>3. req' \in [Workers -> Request] /\ \A w \in Workers : req'[w] \in {req[w], Idle}
  BY IdleOk DEF TypeOK, Around, OwnerVerifies, RemovedAtCloudflare, AddedAtCloudflare,
                Crash, vars
<1>4. RowsKept
  BY <1>1 DEF RowsKept
<1>5. RowsComplete' /\ VerifiedByItsOwner' /\ UnusedUnverified' /\ TypeOK'
  BY <1>1, <1>2, <1>3
     DEF RowsComplete, AddressOf, VerifiedByItsOwner, UnusedUnverified, CfKept, TypeOK
<1>6. ASSUME NEW w \in Workers PROVE (LoadOk(req[w]) /\ AnswerOk(req[w]))'
  <2>1. PICK q \in Request : q = req'[w]
    BY <1>3
  <2>2. LoadOk(q) /\ AnswerOk(q)
    BY <1>3, <2>1, IdleOk DEF RequestsOk
  <2>3. LoadOk(q)' /\ AnswerOk(q)'
    BY <1>2, <1>4, <2>2, KeptOk
  <2> QED
    BY <2>1, <2>3 DEF LoadOk, AnswerOk
<1> QED
  BY <1>5, <1>6 DEF RequestsOk

(* The inductive invariant holds in every reachable state.                 *)
THEOREM Invariance == Spec => []IInv
<1>1. Init => IInv
  BY IdleOk DEF Init, IInv, TypeOK, Row, CfAddress, NoRow, NoAddr, RowsComplete,
     VerifiedByItsOwner, UnusedUnverified, RequestsOk
<1>2. IInv /\ [Next]_vars => IInv'
  BY StartKeeps, CallsKeep, CommitsKeep, AroundKeeps DEF Next, Continue
<1> QED
  BY <1>1, <1>2, PTL DEF Spec

(* In every reachable state every variable has its type.                   *)
THEOREM TypeCorrect == Spec => []TypeOK
<1>1. IInv => TypeOK
  BY DEF IInv
<1> QED
  BY <1>1, Invariance, PTL

(* For any number of concurrent requests and any faults, a row names an    *)
(* address Cloudflare made for the row's own mailbox.                      *)
THEOREM RowsOwnTheirAddress == Spec => []RowsNameTheirOwnAddress
<1>1. IInv => RowsNameTheirOwnAddress
  BY DEF IInv, RowsComplete, AddressOf, RowsNameTheirOwnAddress
<1> QED
  BY <1>1, Invariance, PTL

(* And it is marked verified only if the owner of that mailbox confirmed.  *)
THEOREM VerifiedIsConfirmed == Spec => []VerifiedByItsOwner
<1>1. IInv => VerifiedByItsOwner
  BY DEF IInv
<1> QED
  BY <1>1, Invariance, PTL

-----------------------------------------------------------------------------
(* Requests that keep apart: the rows mirror the addresses at Cloudflare,  *)
(* whatever fails and whatever is added or removed there meanwhile.        *)

(* What a request loaded is what stands in the rows, and what it concluded *)
(* from it and from Cloudflare's answer still holds:                       *)
(* add and ensure, that their mailbox has no live row where they insert or *)
(* revive one; sync, that a live row whose address the answer does not     *)
(* have names one that is gone; remove, that Cloudflare dropped the        *)
(* address of its one row.                                                 *)
Knows(q) ==
  /\ \A r \in RowIds : q.load[r] # NoRow =>
       /\ q.load[r] = row[r]
       /\ q.op # "add" => Live(r)
  /\ q.pc = "drop" => q.op = "remove"
  /\ \/ q.op = "add"
     \/ q.op = "ensure" /\ q.pc = "commit" /\ \A r \in RowIds : q.load[r] = NoRow
     => \A r \in RowIds : row[r].email = q.email => ~Live(r)
  /\ q.op = "sync" /\ q.pc \in {"read", "commit"} =>
       \A r \in RowIds : Live(r) => row[r].cfid \in q.ids \/ cf[row[r].cfid].st = "gone"
  /\ q.op = "remove" =>
       /\ \A r, s \in RowIds : q.load[r] # NoRow /\ q.load[s] # NoRow => r = s
       /\ q.pc = "commit" =>
            \A r \in RowIds : q.load[r] # NoRow => cf[row[r].cfid].st = "gone"

MirrorInv ==
  /\ IInv
  /\ Apart
  /\ \A w \in Workers : Knows(req[w])
  /\ RowsMirrorCloudflare

(* An address that is gone never comes back under its identifier.          *)
GoneKept == \A c \in CfIds : cf[c].st = "gone" => cf'[c].st = "gone"

LEMMA GoneStays ==
  ASSUME TypeOK, [Next]_vars
  PROVE  GoneKept
<1>1. cf' = cf \/ \E c \in CfIds :
        \/ cf' = [cf EXCEPT ![c].st = "gone"]
        \/ cf' = [cf EXCEPT ![c].verified = TRUE]
        \/ /\ cf[c].st = "unused"
           /\ \E e : cf' = [cf EXCEPT ![c] = [st |-> "present", email |-> e,
                                              verified |-> FALSE]]
  <2>1. ASSUME NEW e, NEW c \in CfIds, Registered(e, c) PROVE <1>1
    BY <2>1 DEF Registered
  <2>2. ASSUME NEW w \in Workers, NEW a \in Answers, DropAddress(w, a) PROVE <1>1
    BY <2>2 DEF DropAddress, Present
  <2>3. ASSUME NEW w \in Workers, NEW a \in Answers, CreateAddress(w, a) PROVE <1>1
    BY <2>1, <2>3 DEF CreateAddress
  <2>4. ASSUME NEW e \in Emails, AddedAtCloudflare(e) PROVE <1>1
    BY <2>1, <2>4 DEF AddedAtCloudflare
  <2>5. ASSUME NEW c \in CfIds, OwnerVerifies(c) \/ RemovedAtCloudflare(c) PROVE <1>1
    BY <2>5 DEF OwnerVerifies, RemovedAtCloudflare
  <2> QED
    BY <2>2, <2>3, <2>4, <2>5
       DEF Next, Start, StartAdd, StartSync, StartEnsure, StartRemove, Begin, Continue,
           ListForSync, ListForEnsure, ReadForSync, ReadForEnsure, Reject, CommitAdd,
           CommitEnsure, CommitRemove, CommitSync, Around, Crash, vars
<1>2. \A c \in CfIds : cf[c] \in CfAddress
  BY DEF TypeOK
<1> QED
  BY <1>1, <1>2 DEF GoneKept, TypeOK, CfAddress

(* A live row names an address, present or gone.                           *)
LEMMA LiveNames ==
  ASSUME IInv, NEW r \in RowIds, row[r].st # "none"
  PROVE  /\ row[r].cfid \in CfIds /\ row[r] \in Row /\ row[r] # NoRow
         /\ row[r].cfid \notin Present => cf[row[r].cfid].st = "gone"
<1>1. row[r] \in Row /\ AddressOf(row[r].cfid, row[r].email)
  BY DEF IInv, TypeOK, RowsComplete
<1> QED
  BY <1>1 DEF AddressOf, Present, IInv, TypeOK, CfAddress, NoRow

(* While the rows stay as they are, a request goes on knowing what it      *)
(* knew, and the mirror is kept.                                           *)
LEMMA KnowsKept ==
  ASSUME IInv, UNCHANGED row, GoneKept, NEW q, Knows(q)
  PROVE  Knows(q)'
<1>1. \A r \in RowIds : row[r].st # "none" => row[r].cfid \in CfIds
  BY LiveNames
<1>2. \A r \in RowIds : q.op # "add" /\ q.load[r] # NoRow => row[r].st = "live"
  BY DEF Knows, Live
<1>3. \A r \in RowIds : Live(r)' <=> Live(r)
  BY DEF Live
<1>4. /\ \A r \in RowIds : q.load[r] # NoRow =>
           /\ q.load[r] = row'[r]
           /\ q.op # "add" => Live(r)'
      /\ q.pc = "drop" => q.op = "remove"
      /\ \/ q.op = "add"
         \/ q.op = "ensure" /\ q.pc = "commit" /\ \A r \in RowIds : q.load[r] = NoRow
         => \A r \in RowIds : row'[r].email = q.email => ~Live(r)'
  BY <1>3 DEF Knows
<1>5. q.op = "sync" /\ q.pc \in {"read", "commit"} =>
        \A r \in RowIds : Live(r)' => row'[r].cfid \in q.ids \/ cf'[row'[r].cfid].st = "gone"
  BY <1>1, <1>3 DEF Knows, GoneKept, Live
<1>6. q.op = "remove" =>
        /\ \A r, s \in RowIds : q.load[r] # NoRow /\ q.load[s] # NoRow => r = s
        /\ q.pc = "commit" =>
             \A r \in RowIds : q.load[r] # NoRow => cf'[row'[r].cfid].st = "gone"
  BY <1>1, <1>2 DEF Knows, GoneKept
<1> QED
  BY <1>4, <1>5, <1>6 DEF Knows

LEMMA MirrorKept ==
  ASSUME IInv, UNCHANGED row, GoneKept, RowsMirrorCloudflare
  PROVE  RowsMirrorCloudflare'
<1>1. \A r \in RowIds : row[r].st = "deleted" => row[r].cfid \in CfIds
  BY LiveNames
<1> QED
  BY <1>1 DEF RowsMirrorCloudflare, LiveRowsDistinct, DeletedRowsAreGone, GoneKept, Live

(* A worker that serves nothing has nothing to know.                       *)
LEMMA IdleKnows == Knows(Idle)
  BY DEF Knows, Idle

(* What a request loads at its start it knows.                             *)
LEMMA StartKnows ==
  ASSUME IInv, NEW w \in Workers, Start(w)
  PROVE  Knows(req'[w]) /\ UNCHANGED <<row, cf>>
<1>0. TypeOK
  BY DEF IInv
<1>1. ASSUME NEW q, Begin(w, q), Knows(q) PROVE Knows(req'[w]) /\ UNCHANGED <<row, cf>>
  BY <1>0, <1>1 DEF Begin, TypeOK
<1>2. ASSUME NEW e \in Emails, StartAdd(w, e)
      PROVE  Knows(req'[w]) /\ UNCHANGED <<row, cf>>
  <2> DEFINE q == [Idle EXCEPT !.op = "add", !.pc = "create", !.email = e,
                               !.load = Loaded(RowsOf(e))]
  <2>1. q.op = "add" /\ q.pc = "create" /\ q.email = e /\ q.load = Loaded(RowsOf(e))
    BY DEF Idle
  <2>2. \A r \in RowIds : row[r].email = e => ~Live(r)
    BY <1>2 DEF StartAdd, LiveOf, RowsOf
  <2>3. Knows(q)
    BY <2>1, <2>2 DEF Knows, Loaded
  <2> HIDE DEF q
  <2>4. Begin(w, q)
    BY <1>2 DEF StartAdd, q
  <2> QED
    BY <1>1, <2>3, <2>4
<1>3. ASSUME NEW e \in Emails, StartEnsure(w, e)
      PROVE  Knows(req'[w]) /\ UNCHANGED <<row, cf>>
  <2> DEFINE q == [Idle EXCEPT !.op = "ensure", !.pc = "list", !.email = e]
  <2>1. Knows(q)
    BY DEF Knows, Idle
  <2> QED
    BY <1>1, <1>3, <2>1 DEF StartEnsure
<1>4. CASE StartSync(w)
  <2> DEFINE q == [Idle EXCEPT !.op = "sync", !.pc = "list"]
  <2>1. Knows(q)
    BY DEF Knows, Idle
  <2> QED
    BY <1>1, <1>4, <2>1 DEF StartSync
<1>5. ASSUME NEW r \in RowIds, StartRemove(w, r)
      PROVE  Knows(req'[w]) /\ UNCHANGED <<row, cf>>
  <2> DEFINE q == [Idle EXCEPT !.op = "remove", !.pc = "drop", !.load = Loaded({r})]
  <2>1. q.op = "remove" /\ q.pc = "drop" /\ q.load = Loaded({r}) /\ Live(r)
    BY <1>5 DEF Idle, StartRemove
  <2>2. Knows(q)
    BY <2>1 DEF Knows, Loaded
  <2> HIDE DEF q
  <2>3. Begin(w, q)
    BY <1>5 DEF StartRemove, q
  <2> QED
    BY <1>1, <2>2, <2>3
<1> QED
  BY <1>2, <1>3, <1>4, <1>5 DEF Start

(* What it reads later, and what Cloudflare answers, it knows too.         *)
LEMMA CallsKnow ==
  ASSUME IInv, NEW w \in Workers, Knows(req[w]), GoneKept,
         \/ \E a \in Answers : CreateAddress(w, a) \/ DropAddress(w, a)
         \/ ListForSync(w) \/ ListForEnsure(w) \/ ReadForSync(w) \/ ReadForEnsure(w)
         \/ Reject(w)
  PROVE  Knows(req[w])' /\ UNCHANGED row
<1> DEFINE q == req[w]
<1>0. TypeOK /\ q \in Request /\ AnswerOk(q)
  BY DEF IInv, TypeOK, RequestsOk
<1>1. UNCHANGED row
  BY DEF CreateAddress, DropAddress, ListForSync, ListForEnsure, ReadForSync, ReadForEnsure,
     Reject
<1>2. CASE End(w)
  <2>1. req'[w] = Idle
    BY <1>0, <1>2 DEF End, TypeOK
  <2> QED
    BY <1>1, <2>1 DEF Knows, Idle
<1>3. ASSUME NEW x, x = req'[w], Knows(x) PROVE Knows(req[w])'
  <2>1. Knows(x)'
    BY <1>1, <1>3, KnowsKept
  <2> QED
    BY <1>3, <2>1 DEF Knows
<1>4. ASSUME NEW a \in Answers, CreateAddress(w, a), ~End(w) PROVE Knows(req[w])'
  <2>1. PICK c, ok : req' = [req EXCEPT ![w].pc = "commit", ![w].ids = {c},
                                       ![w].ok = ok]
    BY <1>4 DEF CreateAddress
  <2>2. q.op = "add"
    BY <1>0, <1>4 DEF CreateAddress, AnswerOk
  <2>3. PICK x : x = [q EXCEPT !.pc = "commit", !.ids = {c}, !.ok = ok]
    OBVIOUS
  <2>4. /\ x.load = q.load /\ x.op = "add" /\ x.email = q.email /\ x.pc = "commit"
        /\ req'[w] = x
    BY <1>0, <2>1, <2>2, <2>3 DEF TypeOK, Request
  <2>5. Knows(x)
    BY <2>2, <2>4 DEF Knows
  <2> QED
    BY <1>3, <2>4, <2>5
<1>5. ASSUME NEW a \in Answers, DropAddress(w, a), ~End(w) PROVE Knows(req[w])'
  <2>1. req' = [req EXCEPT ![w].pc = "commit"] /\ q.pc = "drop"
    BY <1>5 DEF DropAddress
  <2>2. PICK x : x = [q EXCEPT !.pc = "commit"]
    OBVIOUS
  <2>3. /\ x.load = q.load /\ x.op = q.op /\ x.email = q.email /\ x.pc = "commit"
        /\ req'[w] = x
    BY <1>0, <2>1, <2>2 DEF TypeOK, Request
  <2>4. PICK r \in RowIds : /\ q.load[r] # NoRow /\ q.load[r].cfid \in Present
                            /\ cf' = [cf EXCEPT ![q.load[r].cfid].st = "gone"]
    BY <1>5 DEF DropAddress, Mine
  <2>5. q.op = "remove" /\ q.load[r] = row[r] /\ \A s \in RowIds : q.load[s] # NoRow => s = r
    BY <2>1, <2>4 DEF Knows
  <2>6. cf'[row[r].cfid].st = "gone"
    BY <1>0, <2>4, <2>5 DEF Present, TypeOK, CfAddress
  <2>7. /\ x.load[r] = row'[r] /\ (Live(r)' <=> Live(r))
        /\ \A s \in RowIds : x.load[s] # NoRow => s = r /\ cf'[row'[s].cfid].st = "gone"
    BY <1>1, <2>3, <2>5, <2>6 DEF Live
  <2>8. Live(r)
    BY <2>4, <2>5 DEF Knows
  <2> HIDE DEF q
  <2>9. Knows(x)'
    BY <2>3, <2>5, <2>7, <2>8 DEF Knows
  <2> QED
    BY <2>3, <2>9 DEF Knows
<1>6. ASSUME NEW pc, NEW ids, NEW ok, pc = "read",
             req' = [req EXCEPT ![w].pc = pc, ![w].ids = ids, ![w].ok = ok],
             \/ q.op = "ensure"
             \/ q.op = "sync" /\ ids = Present
      PROVE  Knows(req[w])'
  <2>1. PICK x : x = [q EXCEPT !.pc = pc, !.ids = ids, !.ok = ok]
    OBVIOUS
  <2>2. /\ x.load = q.load /\ x.op = q.op /\ x.email = q.email /\ x.pc = "read"
        /\ x.ids = ids /\ req'[w] = x
    BY <1>0, <1>6, <2>1 DEF TypeOK, Request
  <2>3. q.op = "sync" =>
          \A r \in RowIds : Live(r) => row[r].cfid \in ids \/ cf[row[r].cfid].st = "gone"
    BY <1>6, LiveNames DEF Live
  <2>4. Knows(x)
    BY <1>6, <2>2, <2>3 DEF Knows
  <2> QED
    BY <1>3, <2>2, <2>4
<1>7. ASSUME NEW R \in SUBSET RowIds, q.pc = "read",
             \/ q.op = "ensure" /\ R = LiveOf(q.email)
             \/ q.op = "sync" /\ R = {r \in RowIds : Live(r)},
             req' = [req EXCEPT ![w].pc = "commit", ![w].load = Loaded(R)]
      PROVE  Knows(req[w])'
  <2>1. PICK x : x = [q EXCEPT !.pc = "commit", !.load = Loaded(R)]
    OBVIOUS
  <2>2. /\ x.load = Loaded(R) /\ x.op = q.op /\ x.email = q.email /\ x.pc = "commit"
        /\ x.ids = q.ids /\ req'[w] = x
    BY <1>0, <1>7, <2>1 DEF TypeOK, Request
  <2>3. \A r \in RowIds : /\ x.load[r] # NoRow => x.load[r] = row[r] /\ r \in R
                          /\ r \in R => x.load[r] = row[r]
    BY <2>2 DEF Loaded
  <2>4. \A r \in R : Live(r) /\ row[r] # NoRow
    BY <1>7, LiveNames DEF LiveOf, Live
  <2>5. q.op = "ensure" /\ (\A r \in RowIds : x.load[r] = NoRow) =>
          \A r \in RowIds : row[r].email = q.email => ~Live(r)
    BY <1>7, <2>3, <2>4 DEF LiveOf, RowsOf
  <2>6. q.op = "sync" =>
          \A r \in RowIds : Live(r) => row[r].cfid \in q.ids \/ cf[row[r].cfid].st = "gone"
    BY <1>7 DEF Knows
  <2> HIDE DEF q
  <2>7. Knows(x)
    BY <1>7, <2>2, <2>3, <2>4, <2>5, <2>6 DEF Knows
  <2> QED
    BY <1>3, <2>2, <2>7
<1>8. CASE ListForSync(w) \/ ListForEnsure(w)
  <2>1. CASE ListForSync(w)
    <3> DEFINE ok == {c \in Present : cf[c].verified}
    <3>1. req' = [req EXCEPT ![w].pc = "read", ![w].ids = Present, ![w].ok = ok]
      BY <2>1 DEF ListForSync
    <3>2. q.op = "sync"
      BY <2>1 DEF ListForSync
    <3> HIDE DEF ok
    <3>3. Knows(req[w])'
      BY <1>6, <3>1, <3>2
    <3> QED
      BY <1>1, <3>3
  <2>2. CASE ListForEnsure(w) /\ ~End(w)
    <3>1. PICK c \in CfIds :
            req' = [req EXCEPT ![w].pc = "read", ![w].ids = {c}, ![w].ok = {c}]
      BY <2>2 DEF ListForEnsure, Matched, Present
    <3>2. q.op = "ensure"
      BY <2>2 DEF ListForEnsure
    <3>3. Knows(req[w])'
      BY <1>6, <3>1, <3>2
    <3> QED
      BY <1>1, <3>3
  <2> QED
    BY <1>1, <1>2, <1>8, <2>1, <2>2
<1>9. CASE ReadForSync(w)
  <2> DEFINE R == {r \in RowIds : Live(r)}
  <2>1. R \in SUBSET RowIds /\ R = {r \in RowIds : Live(r)}
    OBVIOUS
  <2>2. req' = [req EXCEPT ![w].pc = "commit", ![w].load = Loaded(R)]
    BY <1>9 DEF ReadForSync
  <2> HIDE DEF R
  <2> QED
    BY <1>7, <1>9, <2>1, <2>2 DEF ReadForSync
<1>10. CASE ReadForEnsure(w)
  <2>1. LiveOf(q.email) \in SUBSET RowIds
    BY DEF LiveOf, RowsOf
  <2> QED
    BY <1>2, <1>7, <1>10, <2>1 DEF ReadForEnsure
<1>11. CASE Reject(w)
  BY <1>2, <1>11 DEF Reject
<1>12. Knows(req[w])'
  BY <1>2, <1>4, <1>5, <1>8, <1>9, <1>10, <1>11
<1> QED
  BY <1>1, <1>12

(* An UPDATE of a row that is as it was loaded writes what the request     *)
(* computed, and nothing of another request's.                             *)
LEMMA UpdatedIsWritten ==
  ASSUME NEW w, NEW r, NEW x \in Row, row[r] \in Row, req[w].load[r] = row[r]
  PROVE  Updated(w, r, x) = x
  BY DEF Updated, Row

(* A commit that makes one row live keeps the mirror, if the mailbox had   *)
(* no other live row.                                                      *)
LEMMA OneMoreLive ==
  ASSUME IInv, RowsMirrorCloudflare, NEW r \in RowIds, NEW x,
         row' = [row EXCEPT ![r] = x], UNCHANGED cf, x.st = "live",
         \A s \in RowIds \ {r} : row[s].email = x.email => ~Live(s)
  PROVE  RowsMirrorCloudflare'
<1>1. row'[r] = x /\ \A s \in RowIds \ {r} : row'[s] = row[s]
  BY DEF IInv, TypeOK
<1>2. LiveRowsDistinct'
  BY <1>1 DEF RowsMirrorCloudflare, LiveRowsDistinct, Live
<1>3. DeletedRowsAreGone'
  BY <1>1 DEF RowsMirrorCloudflare, DeletedRowsAreGone
<1> QED
  BY <1>2, <1>3 DEF RowsMirrorCloudflare

(* A commit that changes no mailbox and revives no row keeps the mirror,   *)
(* if the address of every row it deletes is gone.                         *)
LEMMA NoMoreLive ==
  ASSUME IInv, RowsMirrorCloudflare, UNCHANGED cf,
         \A r \in RowIds :
           \/ row'[r] = row[r]
           \/ /\ Live(r) /\ row'[r].email = row[r].email /\ row'[r].cfid = row[r].cfid
              /\ row'[r].st = "deleted" => cf[row[r].cfid].st = "gone"
  PROVE  RowsMirrorCloudflare'
<1>1. LiveRowsDistinct'
  BY DEF RowsMirrorCloudflare, LiveRowsDistinct, Live
<1>2. DeletedRowsAreGone'
  BY DEF RowsMirrorCloudflare, DeletedRowsAreGone
<1> QED
  BY <1>1, <1>2 DEF RowsMirrorCloudflare

(* The commits keep the mirror: what was read before the calls is still    *)
(* so.                                                                     *)
LEMMA CommitsMirror ==
  ASSUME IInv, RowsMirrorCloudflare, NEW w \in Workers, Knows(req[w]),
         CommitAdd(w) \/ CommitEnsure(w) \/ CommitRemove(w) \/ CommitSync(w)
  PROVE  RowsMirrorCloudflare'
<1> DEFINE q == req[w]
<1>0. TypeOK /\ AnswerOk(q) /\ q \in Request
  BY DEF IInv, RequestsOk, TypeOK
<1>1. \A r \in Mine(w) : /\ r \in RowIds /\ q.load[r] = row[r] /\ row[r] \in Row
                         /\ row[r].st # "none" /\ q.load[r] # NoRow
                         /\ q.op # "add" => Live(r)
                         /\ AddressOf(row[r].cfid, row[r].email)
  <2>1. ASSUME NEW r \in RowIds, q.load[r] # NoRow
        PROVE  /\ q.load[r] = row[r] /\ row[r] \in Row /\ row[r].st # "none"
               /\ q.op # "add" => Live(r)
               /\ AddressOf(row[r].cfid, row[r].email)
    BY <1>0, <2>1 DEF Knows, IInv, TypeOK, RowsComplete
  <2> QED
    BY <2>1 DEF Mine
<1>2. ASSUME Insert(w), q.op = "add" \/ (q.op = "ensure" /\ q.pc = "commit"), UNCHANGED cf
      PROVE  RowsMirrorCloudflare'
  <2>1. PICK r \in RowIds, c \in q.ids : row' = [row EXCEPT ![r] = Fresh(w, c)]
    BY <1>2 DEF Insert
  <2>2. \A s \in RowIds : q.load[s] = NoRow
    BY <1>2 DEF Insert, Mine
  <2>3. \A s \in RowIds : row[s].email = q.email => ~Live(s)
    BY <1>2, <2>2 DEF Knows
  <2>4. Fresh(w, c).st = "live" /\ Fresh(w, c).email = q.email
    BY DEF Fresh
  <2> QED
    BY <1>2, <2>1, <2>3, <2>4, OneMoreLive
<1>3. CASE CommitAdd(w)
  <2>1. ASSUME NEW r \in Mine(w), NEW c \in q.ids,
               row' = [row EXCEPT ![r] = Updated(w, r, Fresh(w, c))]
        PROVE  RowsMirrorCloudflare'
    <3>1. q.op = "add" /\ UNCHANGED cf
      BY <1>3 DEF CommitAdd
    <3>2. Fresh(w, c) \in Row
      BY <3>1, FreshOk
    <3>3. Updated(w, r, Fresh(w, c)) = Fresh(w, c)
      BY <1>1, <3>2, UpdatedIsWritten
    <3>4. Fresh(w, c).st = "live" /\ Fresh(w, c).email = q.email
      BY DEF Fresh
    <3>5. \A s \in RowIds : row[s].email = q.email => ~Live(s)
      BY <3>1 DEF Knows
    <3>6. PICK x : x = Fresh(w, c)
      OBVIOUS
    <3>7. row' = [row EXCEPT ![r] = x] /\ x.st = "live" /\ x.email = q.email /\ r \in RowIds
      BY <1>1, <2>1, <3>3, <3>4, <3>6
    <3> QED
      BY <3>1, <3>5, <3>7, OneMoreLive
  <2>2. CASE Insert(w)
    BY <1>2, <1>3, <2>2 DEF CommitAdd
  <2> QED
    BY <1>3, <2>1, <2>2 DEF CommitAdd
<1>4. ASSUME NEW R \in SUBSET Mine(w), q.op # "add", UNCHANGED cf,
             \A r \in RowIds \ R : row'[r] = row[r],
             \A r \in R : \E x \in Row :
               /\ row'[r] = Updated(w, r, x)
               /\ x.email = row[r].email /\ x.cfid = row[r].cfid
               /\ x.st = "deleted" => cf[row[r].cfid].st = "gone"
      PROVE  RowsMirrorCloudflare'
  <2>1. ASSUME NEW r \in R
        PROVE  /\ Live(r) /\ row'[r].email = row[r].email /\ row'[r].cfid = row[r].cfid
               /\ row'[r].st = "deleted" => cf[row[r].cfid].st = "gone"
    <3>1. PICK x \in Row : /\ row'[r] = Updated(w, r, x)
                           /\ x.email = row[r].email /\ x.cfid = row[r].cfid
                           /\ x.st = "deleted" => cf[row[r].cfid].st = "gone"
      BY <1>4
    <3>2. Updated(w, r, x) = x
      BY <1>1, UpdatedIsWritten
    <3> QED
      BY <1>1, <1>4, <3>1, <3>2
  <2> QED
    BY <1>4, <2>1, NoMoreLive
<1>5. CASE CommitEnsure(w) /\ ~Insert(w)
  <2>1. PICK r \in Mine(w) :
          row' = [row EXCEPT ![r] = Updated(w, r, [q.load[r] EXCEPT !.verified = TRUE])]
    BY <1>5 DEF CommitEnsure
  <2> DEFINE x == [row[r] EXCEPT !.verified = TRUE]
  <2>2. x \in Row /\ x.email = row[r].email /\ x.cfid = row[r].cfid /\ x.st = "live"
    BY <1>1, <1>5 DEF Row, Live, CommitEnsure
  <2>3. row' = [row EXCEPT ![r] = Updated(w, r, x)]
    BY <1>1, <2>1
  <2> HIDE DEF x
  <2>4. row'[r] = Updated(w, r, x) /\ \A s \in RowIds \ {r} : row'[s] = row[s]
    BY <1>0, <1>1, <2>3 DEF TypeOK
  <2>5. {r} \in SUBSET Mine(w) /\ q.op # "add" /\ UNCHANGED cf
    BY <1>5 DEF CommitEnsure
  <2> QED
    BY <1>4, <2>2, <2>4, <2>5
<1>6. CASE CommitRemove(w)
  <2>1. PICK r \in Mine(w) :
          row' = [row EXCEPT ![r] = Updated(w, r, [q.load[r] EXCEPT !.st = "deleted"])]
    BY <1>6 DEF CommitRemove
  <2> DEFINE x == [row[r] EXCEPT !.st = "deleted"]
  <2>2. x \in Row /\ x.email = row[r].email /\ x.cfid = row[r].cfid
    BY <1>1 DEF Row
  <2>3. row' = [row EXCEPT ![r] = Updated(w, r, x)]
    BY <1>1, <2>1
  <2> HIDE DEF x
  <2>4. row'[r] = Updated(w, r, x) /\ \A s \in RowIds \ {r} : row'[s] = row[s]
    BY <1>0, <1>1, <2>3 DEF TypeOK
  <2>5. {r} \in SUBSET Mine(w) /\ q.op # "add" /\ UNCHANGED cf
    BY <1>6 DEF CommitRemove
  <2>6. cf[row[r].cfid].st = "gone"
    BY <1>1, <1>6 DEF Knows, CommitRemove
  <2> QED
    BY <1>4, <2>2, <2>4, <2>5, <2>6
<1>7. CASE CommitSync(w)
  <2>1. ASSUME NEW r \in Mine(w)
        PROVE  \E x \in Row :
                 /\ row'[r] = Updated(w, r, x)
                 /\ x.email = row[r].email /\ x.cfid = row[r].cfid
                 /\ x.st = "deleted" => cf[row[r].cfid].st = "gone"
    <3> DEFINE x == Synced(w, r)
    <3>1. row'[r] = Updated(w, r, x)
      BY <1>1, <1>7 DEF CommitSync
    <3>2. /\ row[r] \in Row /\ q.load[r] = row[r] /\ row[r].st = "live"
          /\ cf[row[r].cfid].email = row[r].email
      BY <1>1, <1>7 DEF Live, AddressOf, CommitSync
    <3>3. CASE row[r].cfid \notin q.ids
      <4>1. x = [row[r] EXCEPT !.st = "deleted"]
        BY <3>2, <3>3 DEF Synced
      <4>2. cf[row[r].cfid].st = "gone"
        BY <1>1, <1>7, <3>2, <3>3 DEF Knows, CommitSync, Live
      <4>3. x \in Row /\ x.email = row[r].email /\ x.cfid = row[r].cfid
        BY <3>2, <4>1 DEF Row
      <4> QED
        BY <3>1, <4>2, <4>3
    <3>4. CASE x = row[r]
      BY <3>1, <3>2, <3>4
    <3>5. CASE x = [row[r] EXCEPT !.email = cf[row[r].cfid].email,
                                  !.verified = row[r].cfid \in q.ok]
      <4> DEFINE v == row[r].cfid \in q.ok
      <4>1. v \in BOOLEAN /\ x = [row[r] EXCEPT !.email = row[r].email, !.verified = v]
        BY <3>2, <3>5
      <4> HIDE DEF v, x
      <4>2. /\ x \in Row /\ x.email = row[r].email /\ x.cfid = row[r].cfid
            /\ x.st = "live"
        BY <3>2, <4>1 DEF Row
      <4> QED
        BY <3>1, <4>2
    <3> QED
      BY <3>2, <3>3, <3>4, <3>5 DEF Synced
  <2>2. \A r \in RowIds \ Mine(w) : row'[r] = row[r]
    BY <1>7 DEF CommitSync
  <2> QED
    BY <1>4, <1>7, <2>1, <2>2 DEF CommitSync
<1>8. CASE CommitEnsure(w) /\ Insert(w)
  <2>1. q.op = "ensure" /\ q.pc = "commit" /\ UNCHANGED cf
    BY <1>8 DEF CommitEnsure
  <2> QED
    BY <1>2, <1>8, <2>1
<1> QED
  BY <1>3, <1>5, <1>6, <1>7, <1>8

(* A request's step leaves the others' requests as they are.               *)
LEMMA ActsAlone ==
  ASSUME TypeOK, NEW w \in Workers, Start(w) \/ Continue(w), NEW v \in Workers \ {w}
  PROVE  req'[v] = req[v]
<1>1. CASE Start(w)
  BY <1>1 DEF Start, StartAdd, StartEnsure, StartSync, StartRemove, Begin, TypeOK
<1>2. CASE ListForSync(w) \/ ListForEnsure(w) \/ ReadForSync(w) \/ ReadForEnsure(w) \/ Reject(w)
  BY <1>2 DEF ListForSync, ListForEnsure, ReadForSync, ReadForEnsure, Reject, End, TypeOK
<1>3. ASSUME NEW a \in Answers, CreateAddress(w, a) \/ DropAddress(w, a)
      PROVE  req'[v] = req[v]
  BY <1>3 DEF CreateAddress, DropAddress, End, TypeOK
<1>4. CASE CommitAdd(w) \/ CommitEnsure(w) \/ CommitRemove(w) \/ CommitSync(w)
  BY <1>4 DEF CommitAdd, CommitEnsure, CommitRemove, CommitSync, End, TypeOK
<1> QED
  BY <1>1, <1>2, <1>3, <1>4 DEF Continue

(* Requests that keep apart go on keeping apart: in flight, a request      *)
(* loads no rows but those of its mailbox, unless it is a sync, which      *)
(* overlaps with none.                                                     *)
LEMMA GoingOnStaysApart ==
  ASSUME IInv, Apart, NEW w \in Workers, Continue(w)
  PROVE  Apart'
<1> DEFINE q == req[w]
<1>0. TypeOK /\ q \in Request /\ AnswerOk(q)
  BY DEF IInv, RequestsOk, TypeOK
<1>1. \A v \in Workers \ {w} : req'[v] = req[v]
  BY <1>0, ActsAlone
<1>2. q # Idle
  <2>1. ASSUME ListForSync(w) \/ ListForEnsure(w) \/ ReadForSync(w) \/ ReadForEnsure(w)
        PROVE  q.pc \in {"list", "read"}
    BY <2>1, Zenon DEF ListForSync, ListForEnsure, ReadForSync, ReadForEnsure
  <2>2. ASSUME NEW a \in Answers, CreateAddress(w, a) \/ DropAddress(w, a) PROVE q.pc # "idle"
    BY <2>2 DEF CreateAddress, DropAddress
  <2>3. CASE Reject(w) \/ CommitAdd(w) \/ CommitEnsure(w) \/ CommitRemove(w) \/ CommitSync(w)
    BY <2>3 DEF Reject, CommitAdd, CommitEnsure, CommitRemove, CommitSync, Idle
  <2> QED
    BY <2>1, <2>2, <2>3 DEF Continue, Idle
<1>3. \/ req'[w] = Idle
      \/ /\ req'[w].op = q.op /\ req'[w].email = q.email
         /\ \/ req'[w].load = q.load
            \/ q.op = "sync"
            \/ q.op = "ensure" /\ req'[w].load = Loaded(LiveOf(q.email))
  <2>0. ASSUME NEW pc, NEW ids, NEW ok,
               req' = [req EXCEPT ![w].pc = pc, ![w].ids = ids, ![w].ok = ok]
        PROVE  req'[w].op = q.op /\ req'[w].email = q.email /\ req'[w].load = q.load
    BY <1>0, <2>0 DEF TypeOK, Request
  <2>1. CASE ListForSync(w) \/ ListForEnsure(w)
    <3>1. End(w) => req'[w] = Idle
      BY <1>0 DEF End, TypeOK
    <3>2. CASE ListForSync(w)
      BY <2>0, <3>2 DEF ListForSync
    <3>3. CASE ListForEnsure(w)
      <4>1. CASE End(w)
        BY <3>1, <4>1
      <4>2. CASE ~End(w)
        <5>1. PICK c \in Matched(q.email) :
                req' = [req EXCEPT ![w].pc = "read", ![w].ids = {c}, ![w].ok = {c}]
          BY <3>3, <4>2 DEF ListForEnsure
        <5> QED
          BY <2>0, <5>1
      <4> QED
        BY <4>1, <4>2
    <3> QED
      BY <2>1, <3>2, <3>3
  <2>2. CASE ReadForSync(w) \/ ReadForEnsure(w)
    BY <1>0, <2>2 DEF ReadForSync, ReadForEnsure, End, TypeOK, Request
  <2>3. ASSUME NEW a \in Answers, CreateAddress(w, a) \/ DropAddress(w, a) PROVE <1>3
    <3>1. End(w) => req'[w] = Idle
      BY <1>0 DEF End, TypeOK
    <3>2. CASE CreateAddress(w, a)
      <4>1. CASE End(w)
        BY <3>1, <4>1
      <4>2. CASE ~End(w)
        <5>1. PICK c, ok :
                req' = [req EXCEPT ![w].pc = "commit", ![w].ids = {c}, ![w].ok = ok]
          BY <3>2, <4>2 DEF CreateAddress
        <5> QED
          BY <2>0, <5>1
      <4> QED
        BY <4>1, <4>2
    <3>3. CASE DropAddress(w, a)
      <4>1. req' = [req EXCEPT ![w].pc = "commit"] \/ End(w)
        BY <3>3 DEF DropAddress
      <4> QED
        BY <1>0, <3>1, <4>1 DEF TypeOK, Request
    <3> QED
      BY <2>3, <3>2, <3>3
  <2>4. CASE Reject(w) \/ CommitAdd(w) \/ CommitEnsure(w) \/ CommitRemove(w) \/ CommitSync(w)
    BY <1>0, <2>4 DEF Reject, CommitAdd, CommitEnsure, CommitRemove, CommitSync, End, TypeOK
  <2> QED
    BY <2>1, <2>2, <2>3, <2>4 DEF Continue
<1>4. q.op # "sync" => MailboxesOf(w)' \subseteq MailboxesOf(w)
  <2>1. CASE req'[w] = Idle
    BY <2>1 DEF MailboxesOf, Mine, Idle
  <2>2. CASE req'[w].load = q.load /\ req'[w].email = q.email
    BY <2>2 DEF MailboxesOf, Mine
  <2>3. CASE /\ q.op = "ensure" /\ req'[w].load = Loaded(LiveOf(q.email))
             /\ req'[w].email = q.email
    <3>1. q.email # None
      BY <1>0, <2>3, NoneIsNoValue DEF AnswerOk
    <3>2. \A r \in RowIds : req'[w].load[r] # NoRow => req'[w].load[r].email = q.email
      BY <2>3 DEF Loaded, LiveOf, RowsOf
    <3> QED
      BY <2>3, <3>1, <3>2 DEF MailboxesOf, Mine
  <2> QED
    BY <1>3, <2>1, <2>2, <2>3
<1>5. \A v \in Workers \ {w} : MailboxesOf(v)' = MailboxesOf(v)
  BY <1>1 DEF MailboxesOf, Mine
<1>6. ASSUME NEW v \in Workers \ {w} PROVE MailboxesOf(w)' \cap MailboxesOf(v)' = {}
  <2>1. CASE q.op = "sync"
    <3>1. req[v] = Idle
      BY <2>1 DEF Apart
    <3> QED
      BY <1>5, <3>1 DEF MailboxesOf, Mine, Idle
  <2>2. CASE q.op # "sync"
    BY <1>4, <1>5, <2>2 DEF Apart
  <2> QED
    BY <2>1, <2>2
<1>7. ASSUME NEW v \in Workers, NEW u \in Workers, v # u
      PROVE  MailboxesOf(v)' \cap MailboxesOf(u)' = {}
  <2>1. CASE v # w /\ u # w
    BY <1>5, <1>7, <2>1 DEF Apart
  <2>2. CASE v = w \/ u = w
    BY <1>6, <1>7, <2>2
  <2> QED
    BY <2>1, <2>2
<1>8. ASSUME NEW v \in Workers, NEW u \in Workers, v # u, req'[v].op = "sync"
      PROVE  req'[u] = Idle
  <2>1. req[v].op = "sync"
    BY <1>1, <1>3, <1>8 DEF Idle
  <2>2. req[u] = Idle
    BY <1>8, <2>1 DEF Apart
  <2> QED
    BY <1>1, <1>2, <2>2
<1> QED
  BY <1>7, <1>8 DEF Apart

(* Only the start of a request could bring it close to another one.        *)
LEMMA ApartStays ==
  ASSUME IInv, Apart, [ApartNext]_vars
  PROVE  [Next /\ Apart']_vars
<1>1. ASSUME Around PROVE Apart'
  <2>1. req' = req \/ req' = [w \in Workers |-> Idle]
    BY <1>1 DEF Around, OwnerVerifies, RemovedAtCloudflare, AddedAtCloudflare, Crash
  <2>2. CASE req' = req
    BY <2>2 DEF Apart, MailboxesOf, Mine
  <2>3. CASE req' = [w \in Workers |-> Idle]
    <3>1. \A w \in Workers : MailboxesOf(w)' = {} /\ req'[w] = Idle
      BY <2>3 DEF MailboxesOf, Mine, Idle
    <3> QED
      BY <3>1 DEF Apart
  <2> QED
    BY <2>1, <2>2, <2>3
<1> QED
  BY <1>1, GoingOnStaysApart DEF ApartNext, Next

(* A commit other than a sync's writes one row, a new one or one the       *)
(* request loaded, and makes it live only for the mailbox it is about.     *)
LEMMA CommitTouches ==
  ASSUME IInv, NEW w \in Workers, Knows(req[w]),
         CommitAdd(w) \/ CommitEnsure(w) \/ CommitRemove(w)
  PROVE  \E r \in RowIds :
           /\ \A s \in RowIds \ {r} : row'[s] = row[s]
           /\ row[r].st = "none" \/ r \in Mine(w)
           /\ row'[r].st = "live" => /\ req[w].op \in {"add", "ensure"}
                                    /\ row'[r].email = req[w].email
<1> DEFINE q == req[w]
<1>0. row \in [RowIds -> Row] /\ AnswerOk(q)
  BY DEF IInv, RequestsOk, TypeOK
<1>1. \A r \in Mine(w) : r \in RowIds /\ q.load[r] = row[r] /\ row[r] \in Row /\ q.load[r] # NoRow
  BY <1>0 DEF Knows, Mine
<1>2. CASE Insert(w) /\ q.op \in {"add", "ensure"}
  BY <1>0, <1>2 DEF Insert, Fresh
<1>3. ASSUME NEW r \in Mine(w), NEW x \in Row, row' = [row EXCEPT ![r] = Updated(w, r, x)],
             x.st = "live" => q.op \in {"add", "ensure"} /\ x.email = q.email
      PROVE  \E t \in RowIds :
               /\ \A s \in RowIds \ {t} : row'[s] = row[s]
               /\ row[t].st = "none" \/ t \in Mine(w)
               /\ row'[t].st = "live" => /\ req[w].op \in {"add", "ensure"}
                                        /\ row'[t].email = req[w].email
  <2>1. Updated(w, r, x) = x
    BY <1>1, UpdatedIsWritten
  <2>2. row'[r] = x /\ \A s \in RowIds \ {r} : row'[s] = row[s]
    BY <1>0, <1>1, <1>3, <2>1
  <2> QED
    BY <1>1, <1>3, <2>2
<1>4. CASE CommitAdd(w) /\ ~Insert(w)
  <2>1. q.op = "add"
    BY <1>4 DEF CommitAdd
  <2>2. PICK r \in Mine(w), c \in q.ids : row' = [row EXCEPT ![r] = Updated(w, r, Fresh(w, c))]
    BY <1>4 DEF CommitAdd
  <2>3. Fresh(w, c) \in Row /\ Fresh(w, c).email = q.email
    BY <2>1, FreshOk
  <2> QED
    BY <1>3, <2>1, <2>2, <2>3
<1>5. CASE CommitEnsure(w) /\ ~Insert(w)
  <2>1. q.op = "ensure"
    BY <1>5 DEF CommitEnsure
  <2>2. PICK r \in Mine(w) :
          row' = [row EXCEPT ![r] = Updated(w, r, [q.load[r] EXCEPT !.verified = TRUE])]
    BY <1>5 DEF CommitEnsure
  <2> DEFINE x == [q.load[r] EXCEPT !.verified = TRUE]
  <2>3. x \in Row /\ x.email = q.load[r].email
    BY <1>1 DEF Row
  <2>4. q.load[r].email = q.email
    BY <1>0, <1>1, <2>1 DEF AnswerOk
  <2>5. row' = [row EXCEPT ![r] = Updated(w, r, x)]
    BY <2>2
  <2> HIDE DEF x
  <2> QED
    BY <1>3, <2>1, <2>3, <2>4, <2>5
<1>6. CASE CommitRemove(w)
  <2>1. PICK r \in Mine(w) :
          row' = [row EXCEPT ![r] = Updated(w, r, [q.load[r] EXCEPT !.st = "deleted"])]
    BY <1>6 DEF CommitRemove
  <2> DEFINE x == [q.load[r] EXCEPT !.st = "deleted"]
  <2>2. x \in Row /\ x.st = "deleted"
    BY <1>1 DEF Row
  <2>3. row' = [row EXCEPT ![r] = Updated(w, r, x)]
    BY <2>1
  <2> HIDE DEF x
  <2> QED
    BY <1>3, <2>2, <2>3
<1> QED
  BY <1>2, <1>4, <1>5, <1>6 DEF CommitAdd, CommitEnsure

(* What a request knows survives the commit of one about other mailboxes.  *)
LEMMA OthersKnow ==
  ASSUME MirrorInv, NEW w \in Workers, NEW v \in Workers \ {w},
         CommitAdd(w) \/ CommitEnsure(w) \/ CommitRemove(w) \/ CommitSync(w)
  PROVE  Knows(req[v])'
<1>0. /\ IInv /\ Knows(req[w]) /\ Knows(req[v]) /\ req'[v] = req[v] /\ UNCHANGED cf
      /\ req[w].pc = "commit"
      /\ AnswerOk(req[v]) /\ LoadOk(req[v]) /\ AnswerOk(req[w])
  BY ActsAlone DEF MirrorInv, IInv, RequestsOk, Continue, CommitAdd, CommitEnsure,
     CommitRemove, CommitSync
<1>1. /\ MailboxesOf(v) \cap MailboxesOf(w) = {}
      /\ req[v].op # "sync"
      /\ req[w].op = "sync" => req[v] = Idle
  BY <1>0 DEF MirrorInv, Apart, Idle
<1>2. CASE CommitSync(w)
  <2>1. req'[v] = Idle
    BY <1>0, <1>1, <1>2 DEF CommitSync
  <2> QED
    BY <2>1 DEF Knows, Idle
<1>3. CASE CommitAdd(w) \/ CommitEnsure(w) \/ CommitRemove(w)
  <2>1. PICK t \in RowIds :
          /\ \A s \in RowIds \ {t} : row'[s] = row[s]
          /\ row[t].st = "none" \/ t \in Mine(w)
          /\ row'[t].st = "live" => /\ req[w].op \in {"add", "ensure"}
                                   /\ row'[t].email = req[w].email
    BY <1>0, <1>3, CommitTouches
  <2>2. ASSUME NEW r \in RowIds, req[v].load[r] # NoRow
        PROVE  row'[r] = row[r]
    <3>1. req[v].load[r] = row[r] /\ row[r].st # "none"
      BY <1>0, <2>2 DEF Knows, LoadOk
    <3>2. r \notin Mine(w)
      <4>1. r \in Mine(w) => row[r].email \in MailboxesOf(w)
        BY <1>0 DEF Knows, Mine, MailboxesOf
      <4>2. row[r].email \in MailboxesOf(v)
        BY <2>2, <3>1 DEF Mine, MailboxesOf
      <4> QED
        BY <1>1, <4>1, <4>2
    <3> QED
      BY <2>1, <3>1, <3>2
  <2>3. ASSUME \/ req[v].op = "add"
               \/ /\ req[v].op = "ensure" /\ req[v].pc = "commit"
                  /\ \A r \in RowIds : req[v].load[r] = NoRow,
               NEW r \in RowIds, row'[r].email = req[v].email
        PROVE  row'[r].st # "live"
    <3>1. req[v].email \in MailboxesOf(v)
      BY <1>0, <2>3, NoneIsNoValue DEF AnswerOk, MailboxesOf
    <3>2. CASE row'[r] = row[r]
      BY <1>0, <2>3, <3>2 DEF Knows, Live
    <3>3. CASE r = t
      <4>1. req[w].op \in {"add", "ensure"} => req[w].email \in MailboxesOf(w)
        BY <1>0, NoneIsNoValue DEF AnswerOk, MailboxesOf
      <4> QED
        BY <1>1, <2>1, <2>3, <3>1, <3>3, <4>1
    <3> QED
      BY <2>1, <3>2, <3>3
  <2>4. PICK q : q = req[v] /\ q = req'[v]
    BY <1>0
  <2>5. /\ \A r \in RowIds : q.load[r] # NoRow =>
             /\ row'[r] = row[r] /\ q.load[r] = row'[r]
             /\ q.op # "add" => Live(r)'
        /\ q.pc = "drop" => q.op = "remove"
    BY <1>0, <2>2, <2>4 DEF Knows, Live
  <2>6. \/ q.op = "add"
        \/ q.op = "ensure" /\ q.pc = "commit" /\ \A r \in RowIds : q.load[r] = NoRow
        => \A r \in RowIds : row'[r].email = q.email => ~Live(r)'
    BY <2>3, <2>4 DEF Live
  <2>7. q.op = "remove" =>
          /\ \A r, s \in RowIds : q.load[r] # NoRow /\ q.load[s] # NoRow => r = s
          /\ q.pc = "commit" =>
               \A r \in RowIds : q.load[r] # NoRow => cf'[row'[r].cfid].st = "gone"
    BY <1>0, <2>4, <2>5 DEF Knows
  <2>8. Knows(q)'
    BY <1>1, <2>4, <2>5, <2>6, <2>7 DEF Knows
  <2> QED
    BY <2>4, <2>8 DEF Knows
<1> QED
  BY <1>2, <1>3

(* While requests keep apart, every step keeps the invariant of the mirror.*)
LEMMA MirrorKeeps ==
  ASSUME MirrorInv, IInv', [Next /\ Apart']_vars
  PROVE  MirrorInv'
<1>0. IInv /\ TypeOK /\ RowsMirrorCloudflare /\ GoneKept
  BY GoneStays DEF MirrorInv, IInv
<1>1. Apart'
  BY DEF MirrorInv, Apart, MailboxesOf, Mine, vars
<1>2. ASSUME NEW w \in Workers, Start(w) \/ Continue(w), UNCHANGED row, Knows(req[w])'
      PROVE  MirrorInv'
  <2>1. ASSUME NEW v \in Workers \ {w} PROVE Knows(req[v])'
    <3>1. PICK x : x = req[v] /\ x = req'[v]
      BY <1>0, <1>2, ActsAlone
    <3>2. Knows(x)'
      BY <1>0, <1>2, <3>1, KnowsKept DEF MirrorInv
    <3> QED
      BY <3>1, <3>2 DEF Knows
  <2> QED
    BY <1>0, <1>1, <1>2, <2>1, MirrorKept DEF MirrorInv
<1>3. ASSUME NEW w \in Workers, Start(w) PROVE MirrorInv'
  <2>1. Knows(req'[w]) /\ UNCHANGED <<row, cf>>
    BY <1>0, <1>3, StartKnows
  <2>2. PICK x : x = req'[w]
    OBVIOUS
  <2>3. Knows(x)'
    BY <1>0, <2>1, <2>2, KnowsKept
  <2>4. Knows(req[w])'
    BY <2>2, <2>3 DEF Knows
  <2> QED
    BY <1>2, <1>3, <2>1, <2>4
<1>4. ASSUME NEW w \in Workers,
             \/ \E a \in Answers : CreateAddress(w, a) \/ DropAddress(w, a)
             \/ ListForSync(w) \/ ListForEnsure(w) \/ ReadForSync(w) \/ ReadForEnsure(w)
             \/ Reject(w)
      PROVE  MirrorInv'
  <2>1. Knows(req[w])' /\ UNCHANGED row
    BY <1>0, <1>4, CallsKnow DEF MirrorInv
  <2>2. Continue(w)
    BY <1>4 DEF Continue
  <2> QED
    BY <1>2, <2>1, <2>2
<1>5. ASSUME NEW w \in Workers,
             CommitAdd(w) \/ CommitEnsure(w) \/ CommitRemove(w) \/ CommitSync(w)
      PROVE  MirrorInv'
  <2>1. RowsMirrorCloudflare'
    BY <1>0, <1>5, CommitsMirror DEF MirrorInv
  <2>2. req'[w] = Idle
    BY <1>0, <1>5 DEF CommitAdd, CommitEnsure, CommitRemove, CommitSync, End, TypeOK
  <2>3. Knows(req[w])'
    BY <2>2 DEF Knows, Idle
  <2>4. \A v \in Workers \ {w} : Knows(req[v])'
    BY <1>5, OthersKnow
  <2> QED
    BY <1>1, <2>1, <2>3, <2>4 DEF MirrorInv
<1>6. CASE Around \/ UNCHANGED vars
  <2>1. UNCHANGED row
    BY <1>6 DEF Around, OwnerVerifies, RemovedAtCloudflare, AddedAtCloudflare, Crash, vars
  <2>2. ASSUME NEW w \in Workers PROVE Knows(req[w])'
    <3>1. PICK x : x = req'[w]
      OBVIOUS
    <3>2. x = req[w] \/ x = Idle
      BY <1>6, <3>1 DEF Around, OwnerVerifies, RemovedAtCloudflare, AddedAtCloudflare, Crash,
         vars
    <3>3. Knows(x)
      BY <3>2, IdleKnows DEF MirrorInv
    <3>4. Knows(x)'
      BY <1>0, <2>1, <3>3, KnowsKept
    <3> QED
      BY <3>1, <3>4 DEF Knows
  <2> QED
    BY <1>0, <1>1, <2>1, <2>2, MirrorKept DEF MirrorInv
<1> QED
  BY <1>3, <1>4, <1>5, <1>6 DEF Next, Continue

(* While requests keep apart, whatever fails and whatever is added or      *)
(* removed at Cloudflare meanwhile, a mailbox has one live row at most and *)
(* a row is soft-deleted only when its address is gone.                    *)
THEOREM ApartRowsMirror == ApartSpec => []RowsMirrorCloudflare
<1>1. Init => Apart /\ (\A w \in Workers : Knows(req[w])) /\ RowsMirrorCloudflare
  <2> SUFFICES ASSUME Init
               PROVE  /\ Apart /\ RowsMirrorCloudflare
                      /\ \A w \in Workers : Knows(req[w])
    OBVIOUS
  <2>1. \A w \in Workers : req[w] = Idle
    BY DEF Init
  <2>2. RowsMirrorCloudflare
    BY DEF Init, RowsMirrorCloudflare, LiveRowsDistinct, DeletedRowsAreGone, Live, NoRow
  <2>3. Apart
    BY <2>1 DEF Apart, MailboxesOf, Mine, Idle
  <2> QED
    BY <2>1, <2>2, <2>3, IdleKnows
<1>2. MirrorInv /\ IInv' /\ [ApartNext]_vars => MirrorInv'
  BY ApartStays, MirrorKeeps DEF MirrorInv
<1>3. MirrorInv => RowsMirrorCloudflare
  BY DEF MirrorInv
<1>4. Init /\ IInv => MirrorInv
  BY <1>1 DEF MirrorInv
<1>5. ApartSpec => []IInv
  <2>1. [ApartNext]_vars => [Next]_vars
    BY DEF ApartNext, Next
  <2> QED
    BY <2>1, Invariance, PTL DEF Spec, ApartSpec
<1> QED
  BY <1>2, <1>3, <1>4, <1>5, PTL DEF ApartSpec

(* One worker keeps apart from nobody: what is shown of requests that keep *)
(* apart holds of every behaviour in which requests come one at a time.    *)
THEOREM OneWorkerIsApart ==
  ASSUME \A v, w \in Workers : v = w
  PROVE  Spec => ApartSpec
<1>1. [Next]_vars => [ApartNext]_vars
  BY DEF Apart, ApartNext, Next
<1> QED
  BY <1>1, PTL DEF Spec, ApartSpec

=============================================================================
