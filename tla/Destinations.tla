---------------------------- MODULE Destinations ----------------------------
(***************************************************************************)
(* Destination addresses of one CF account: the rows of table              *)
(* destination_address, the addresses Cloudflare keeps for the account,    *)
(* and the four handlers that bring the two together.  As in Forwarding, a *)
(* request works on the rows its session loaded, and its commit writes the *)
(* columns that differ from what it loaded.  The requests' account is      *)
(* usable; a handler that finds it is not ends like one whose call is      *)
(* refused, and an answer without an id like one that is lost.  Mailboxes  *)
(* are in lower case on both sides.  The forwarding rules that             *)
(* delete_destination_address switches off are in Forwarding.              *)
(***************************************************************************)
EXTENDS Naturals, FiniteSets

CONSTANTS
  Workers,   \* requests that may be in flight at the same time
  RowIds,    \* primary keys of destination_address; bounds the rows
  CfIds,     \* identifiers Cloudflare hands out; bounds the addresses
  Emails,    \* mailboxes mail may be forwarded to
  None,      \* SQL NULL
  Faults     \* what may go wrong: a subset of FaultKinds

(* A call is refused, its answer is lost after it took effect, or the      *)
(* server process dies.                                                    *)
FaultKinds == {"refused", "lost", "crash"}

ASSUME RowIdsAreNumbers == RowIds \subseteq Nat
ASSUME NoneIsNoValue == None \notin CfIds \cup Emails
ASSUME FaultsAreKnown == Faults \subseteq FaultKinds

VARIABLES
  row,   \* the rows of destination_address
  cf,    \* the addresses of the account at Cloudflare
  req    \* the request each worker is serving

vars == <<row, cf, req>>

Row == [st : {"none", "live", "deleted"}, email : Emails \cup {None},
        cfid : CfIds \cup {None}, verified : BOOLEAN]

CfAddress == [st : {"unused", "present", "gone"}, email : Emails \cup {None},
              verified : BOOLEAN]

(* "load" are the rows the session holds, as it read them (NoRow when not  *)
(* loaded), "ids" the addresses of Cloudflare's answer the request goes on *)
(* with, and "ok" those of them the answer reports as verified.            *)
Request == [op    : {"none", "add", "sync", "ensure", "remove"},
            pc    : {"idle", "create", "list", "read", "drop", "commit"},
            email : Emails \cup {None},
            load  : [RowIds -> Row],
            ids   : SUBSET CfIds,
            ok    : SUBSET CfIds]

NoRow  == [st |-> "none", email |-> None, cfid |-> None, verified |-> FALSE]
NoAddr == [st |-> "unused", email |-> None, verified |-> FALSE]
Idle   == [op |-> "none", pc |-> "idle", email |-> None,
           load |-> [r \in RowIds |-> NoRow], ids |-> {}, ok |-> {}]

TypeOK == /\ row \in [RowIds -> Row]
          /\ cf \in [CfIds -> CfAddress]
          /\ req \in [Workers -> Request]

Live(r) == row[r].st = "live"
RowsOf(e) == {r \in RowIds : row[r].email = e}
LiveOf(e) == {r \in RowsOf(e) : Live(r)}
Present == {c \in CfIds : cf[c].st = "present"}
Loaded(R) == [r \in RowIds |-> IF r \in R THEN row[r] ELSE NoRow]
Mine(w) == {r \in RowIds : req[w].load[r] # NoRow}

(* The bounds: a request that may need a new row or a new address starts   *)
(* only if one is left for it.                                             *)
Wanting(ops) == Cardinality({w \in Workers : req[w].op \in ops})
RowLeft == Cardinality({r \in RowIds : row[r].st = "none"}) > Wanting({"add", "ensure"})
IdLeft == Cardinality({c \in CfIds : cf[c].st = "unused"}) > Wanting({"add"})

Init == /\ row = [r \in RowIds |-> NoRow]
        /\ cf = [c \in CfIds |-> NoAddr]
        /\ req = [w \in Workers |-> Idle]

-----------------------------------------------------------------------------
(* The handlers up to their first call to Cloudflare.                      *)

Begin(w, q) == req[w] = Idle /\ req' = [req EXCEPT ![w] = q] /\ UNCHANGED <<row, cf>>

(* add_destination_address: the lookup finds the deleted row it will       *)
(* revive, or none; it answers 409 on a live row and fails on two rows.    *)
StartAdd(w, e) ==
  /\ RowLeft /\ IdLeft
  /\ Cardinality(RowsOf(e)) <= 1 /\ LiveOf(e) = {}
  /\ Begin(w, [Idle EXCEPT !.op = "add", !.pc = "create", !.email = e,
                           !.load = Loaded(RowsOf(e))])

StartSync(w) == Begin(w, [Idle EXCEPT !.op = "sync", !.pc = "list"])

StartEnsure(w, e) ==
  /\ RowLeft
  /\ Begin(w, [Idle EXCEPT !.op = "ensure", !.pc = "list", !.email = e])

StartRemove(w, r) ==
  /\ Live(r)
  /\ Begin(w, [Idle EXCEPT !.op = "remove", !.pc = "drop", !.load = Loaded({r})])

-----------------------------------------------------------------------------
(* The calls.  A call that raises ends the request with nothing written.   *)

End(w) == req' = [req EXCEPT ![w] = Idle]
Answers == {"ok"} \cup (Faults \cap {"lost"})

(* Cloudflare keeps one address per mailbox; asked to create it again, it  *)
(* answers with the one it has, or refuses (Reject).                       *)
Registered(e, c) ==
  \/ /\ c \in Present /\ cf[c].email = e
     /\ UNCHANGED cf
  \/ /\ cf[c].st = "unused" /\ \A b \in Present : cf[b].email # e
     /\ cf' = [cf EXCEPT ![c] = [st |-> "present", email |-> e, verified |-> FALSE]]

CreateAddress(w, answer) ==
  /\ req[w].pc = "create"
  /\ \E c \in CfIds :
       /\ Registered(req[w].email, c)
       /\ IF answer = "ok"
            THEN req' = [req EXCEPT ![w].pc = "commit", ![w].ids = {c},
                                    ![w].ok = {b \in {c} : cf[b].verified}]
            ELSE End(w)
  /\ UNCHANGED row

ListForSync(w) ==
  /\ req[w].pc = "list" /\ req[w].op = "sync"
  /\ req' = [req EXCEPT ![w].pc = "read", ![w].ids = Present,
                        ![w].ok = {c \in Present : cf[c].verified}]
  /\ UNCHANGED <<row, cf>>

(* Mutants: the answer is not searched for the mailbox, or its status is   *)
(* not looked at.                                                          *)
MatchedAny(e) == {c \in Present : cf[c].verified}
MatchedUnverified(e) == {c \in Present : cf[c].email = e}

(* The entry of the list that ensure_verified accepts.                     *)
Matched(e) == {c \in Present : cf[c].email = e /\ cf[c].verified}

ListForEnsure(w) ==
  /\ req[w].pc = "list" /\ req[w].op = "ensure"
  /\ IF Matched(req[w].email) = {} THEN End(w)
     ELSE \E c \in Matched(req[w].email) :
            req' = [req EXCEPT ![w].pc = "read", ![w].ids = {c}, ![w].ok = {c}]
  /\ UNCHANGED <<row, cf>>

(* The local rows are read only after Cloudflare has answered.             *)
ReadForSync(w) ==
  /\ req[w].pc = "read" /\ req[w].op = "sync"
  /\ req' = [req EXCEPT ![w].pc = "commit", ![w].load = Loaded({r \in RowIds : Live(r)})]
  /\ UNCHANGED <<row, cf>>

ReadForEnsure(w) ==
  /\ req[w].pc = "read" /\ req[w].op = "ensure"
  /\ LET found == LiveOf(req[w].email)
     IN  IF Cardinality(found) > 1 THEN End(w)
         ELSE req' = [req EXCEPT ![w].pc = "commit", ![w].load = Loaded(found)]
  /\ UNCHANGED <<row, cf>>

(* delete_destination_address at Cloudflare, by the loaded cf_address_id.  *)
DropAddress(w, answer) ==
  /\ req[w].pc = "drop"
  /\ \E r \in Mine(w) :
       LET c == req[w].load[r].cfid
       IN  c \in Present /\ cf' = [cf EXCEPT ![c].st = "gone"]
  /\ IF answer = "ok" THEN req' = [req EXCEPT ![w].pc = "commit"] ELSE End(w)
  /\ UNCHANGED row

(* Cloudflare does not have the address to delete, already has the one to  *)
(* create, or the call fails.                                              *)
Reject(w) ==
  /\ \/ req[w].pc = "drop" /\ \E r \in Mine(w) : req[w].load[r].cfid \notin Present
     \/ req[w].pc = "create" /\ \E c \in Present : cf[c].email = req[w].email
     \/ req[w].pc \in {"create", "list", "drop"} /\ "refused" \in Faults
  /\ End(w)
  /\ UNCHANGED <<row, cf>>

-----------------------------------------------------------------------------
(* The commits.                                                            *)

(* An UPDATE of the row by primary key: the value x replaces what was      *)
(* loaded, column by column, where the two differ.                         *)
Updated(w, r, x) ==
  LET old == req[w].load[r]
  IN  [st       |-> IF x.st # old.st THEN x.st ELSE row[r].st,
       email    |-> IF x.email # old.email THEN x.email ELSE row[r].email,
       cfid     |-> IF x.cfid # old.cfid THEN x.cfid ELSE row[r].cfid,
       verified |-> IF x.verified # old.verified THEN x.verified ELSE row[r].verified]

(* The row a request with mailbox e and Cloudflare's answer c stores.      *)
(* Mutant: mailbox and identifier change places.                           *)
FreshSwapped(w, c) == [st |-> "live", email |-> c, cfid |-> req[w].email,
                       verified |-> c \in req[w].ok]
Fresh(w, c) == [st |-> "live", email |-> req[w].email, cfid |-> c,
                verified |-> c \in req[w].ok]

Insert(w) ==
  /\ Mine(w) = {}
  /\ \E r \in RowIds, c \in req[w].ids :
       /\ row[r].st = "none" /\ \A s \in RowIds : s < r => row[s].st # "none"
       /\ row' = [row EXCEPT ![r] = Fresh(w, c)]

CommitAdd(w) ==
  /\ req[w].pc = "commit" /\ req[w].op = "add"
  /\ \/ Insert(w)
     \/ \E r \in Mine(w), c \in req[w].ids :
          row' = [row EXCEPT ![r] = Updated(w, r, Fresh(w, c))]
  /\ End(w)
  /\ UNCHANGED cf

CommitEnsure(w) ==
  /\ req[w].pc = "commit" /\ req[w].op = "ensure"
  /\ \/ Insert(w)
     \/ \E r \in Mine(w) :
          row' = [row EXCEPT ![r] =
                    Updated(w, r, [req[w].load[r] EXCEPT !.verified = TRUE])]
  /\ End(w)
  /\ UNCHANGED cf

CommitRemove(w) ==
  /\ req[w].pc = "commit" /\ req[w].op = "remove"
  /\ \E r \in Mine(w) :
       row' = [row EXCEPT ![r] =
                 Updated(w, r, [req[w].load[r] EXCEPT !.st = "deleted"])]
  /\ End(w)
  /\ UNCHANGED cf

(* Of loaded rows with the same cf_address_id the index keeps the last.    *)
Indexed(w, r) ==
  \A s \in Mine(w) : s > r => req[w].load[s].cfid # req[w].load[r].cfid

(* Mutants: unverified addresses count as missing, or the status is only   *)
(* ever taken back.                                                        *)
SyncedUnlessVerified(w, r) ==
  LET old == req[w].load[r]
  IN  IF old.cfid \notin req[w].ok THEN [old EXCEPT !.st = "deleted"]
      ELSE IF ~Indexed(w, r) THEN old
      ELSE [old EXCEPT !.email = cf[old.cfid].email, !.verified = TRUE]
SyncedDownwards(w, r) ==
  LET old == req[w].load[r]
  IN  IF old.cfid \notin req[w].ids THEN [old EXCEPT !.st = "deleted"]
      ELSE IF ~Indexed(w, r) THEN old
      ELSE [old EXCEPT !.verified = @ /\ old.cfid \in req[w].ok]

(* A loaded row after the two loops of sync_destination_addresses.  The    *)
(* mailbox of an address never changes, so it need not be in the answer.   *)
Synced(w, r) ==
  LET old == req[w].load[r]
  IN  IF old.cfid \notin req[w].ids THEN [old EXCEPT !.st = "deleted"]
      ELSE IF ~Indexed(w, r) THEN old
      ELSE [old EXCEPT !.email = cf[old.cfid].email, !.verified = old.cfid \in req[w].ok]

CommitSync(w) ==
  /\ req[w].pc = "commit" /\ req[w].op = "sync"
  /\ row' = [r \in RowIds |-> IF r \in Mine(w) THEN Updated(w, r, Synced(w, r))
                                               ELSE row[r]]
  /\ End(w)
  /\ UNCHANGED cf

-----------------------------------------------------------------------------
(* What happens around the requests.                                       *)

Crash ==
  /\ "crash" \in Faults
  /\ \E w \in Workers : req[w] # Idle
  /\ req' = [w \in Workers |-> Idle]
  /\ UNCHANGED <<row, cf>>

(* The owner of the mailbox follows the link; addresses are also added and *)
(* removed in Cloudflare's own dashboard.                                  *)
OwnerVerifies(c) ==
  /\ c \in Present /\ ~cf[c].verified
  /\ cf' = [cf EXCEPT ![c].verified = TRUE]
  /\ UNCHANGED <<row, req>>

AddedAtCloudflare(e) ==
  /\ IdLeft
  /\ \E c \in CfIds : cf[c].st = "unused" /\ Registered(e, c)
  /\ UNCHANGED <<row, req>>

RemovedAtCloudflare(c) ==
  /\ c \in Present
  /\ cf' = [cf EXCEPT ![c].st = "gone"]
  /\ UNCHANGED <<row, req>>

Start(w) ==
  \/ \E e \in Emails : StartAdd(w, e) \/ StartEnsure(w, e)
  \/ StartSync(w)
  \/ \E r \in RowIds : StartRemove(w, r)

Continue(w) ==
  \/ \E a \in Answers : CreateAddress(w, a) \/ DropAddress(w, a)
  \/ ListForSync(w) \/ ListForEnsure(w) \/ ReadForSync(w) \/ ReadForEnsure(w)
  \/ Reject(w)
  \/ CommitAdd(w) \/ CommitEnsure(w) \/ CommitRemove(w) \/ CommitSync(w)

Around ==
  \/ \E c \in CfIds : OwnerVerifies(c) \/ RemovedAtCloudflare(c)
  \/ \E e \in Emails : AddedAtCloudflare(e)
  \/ Crash

Next == (\E w \in Workers : Start(w) \/ Continue(w)) \/ Around

Spec == Init /\ [][Next]_vars

-----------------------------------------------------------------------------
(* Nothing keeps requests apart.  What holds only while they do not meddle *)
(* with each other is stated for behaviours in which overlapping requests  *)
(* are about different mailboxes, and a sync, which is about all of them,  *)
(* overlaps with none.                                                     *)
MailboxesOf(w) == {req[w].load[r].email : r \in Mine(w)} \cup ({req[w].email} \ {None})

Apart ==
  \A v, w \in Workers : v # w =>
    /\ MailboxesOf(v) \cap MailboxesOf(w) = {}
    /\ req[v].op = "sync" => req[w] = Idle

(* A request starts only if it keeps apart from those in flight.           *)
ApartNext == (\E w \in Workers : (Start(w) /\ Apart') \/ Continue(w)) \/ Around

ApartSpec == Init /\ [][ApartNext]_vars

-----------------------------------------------------------------------------
(* Properties.                                                             *)

(* The cf_address_id of a row is the id of an address Cloudflare made for  *)
(* the row's own mailbox, however requests interleave: removing the row    *)
(* cannot remove another mailbox's address, and sync cannot rename a row.  *)
RowsNameTheirOwnAddress ==
  \A r \in RowIds : row[r].st # "none" =>
    /\ cf[row[r].cfid].st # "unused"
    /\ cf[row[r].cfid].email = row[r].email

(* A row is marked verified only if Cloudflare reported an address of its  *)
(* mailbox as verified (_parse_verified, ensure_verified).                 *)
VerifiedByItsOwner ==
  \A r \in RowIds : row[r].verified =>
    \E c \in CfIds : cf[c].email = row[r].email /\ cf[c].verified

(* A mailbox has at most one live row: the lookups of                      *)
(* add_destination_address and ensure_verified find one row or none.       *)
LiveRowsDistinct == \A r, s \in RowIds :
  Live(r) /\ Live(s) /\ row[r].email = row[s].email => r = s

(* A row is soft-deleted only when the address it names is gone at         *)
(* Cloudflare ("local records that no longer exist at CF  *)
(* are soft-deleted", sync_destination_addresses; CF first, row second in  *)
(* delete_destination_address).                                            *)
DeletedRowsAreGone ==
  \A r \in RowIds : row[r].st = "deleted" => cf[row[r].cfid].st = "gone"

(* While requests keep apart, whatever fails and whatever is added or      *)
(* removed at Cloudflare meanwhile, the rows mirror the account's          *)
(* addresses: one live row each, and none deleted that is still there      *)
(* (sync_destination_addresses, ensure_verified).                          *)
RowsMirrorCloudflare == LiveRowsDistinct /\ DeletedRowsAreGone

(* add_destination_address "revives the soft-deleted record of the same    *)
(* mailbox, otherwise creates one": its lookup, which takes deleted rows   *)
(* along, finds at most one.                                               *)
AddFindsAtMostOne == \A e \in Emails : Cardinality(RowsOf(e)) <= 1

(* Someone keeps asking for a sync, and a sync that keeps being asked for  *)
(* gets through now and then.                                              *)
FairSpec ==
  /\ Spec
  /\ \A w \in Workers : WF_vars(Continue(w))
  /\ SF_vars(\E w \in Workers : StartSync(w))
  /\ \A w \in Workers : SF_vars(ListForSync(w)) /\ SF_vars(ReadForSync(w))
                                                /\ SF_vars(CommitSync(w))

(* "The local verified flag is refreshed from CF by sync": the owner's     *)
(* confirmation reaches the row, unless row or address go first.           *)
VerifiedShowsUp ==
  \A r \in RowIds, c \in CfIds :
    (Live(r) /\ row[r].cfid = c /\ c \in Present /\ cf[c].verified)
      ~> (row[r].verified \/ ~Live(r) \/ row[r].cfid # c \/ c \notin Present)

=============================================================================
