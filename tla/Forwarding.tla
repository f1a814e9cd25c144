----------------------------- MODULE Forwarding -----------------------------
(***************************************************************************)
(* Forwarding rules of one Cloudflare account: the rows the platform keeps *)
(* (table forwarding_rule), the Email Routing rules they stand for at     *)
(* Cloudflare, and the requests that change both.  Every request runs in a *)
(* database session of its own: it works on the rows as it loaded them,    *)
(* calls Cloudflare between the load and the commit, and at the commit     *)
(* writes only the columns that differ from what it loaded.  There is no   *)
(* lock and no version column, so requests interleave at every call.       *)
(*                                                                         *)
(* Local rows of destination addresses are kept here only as the set       *)
(* "listed" of destinations that have one; module Destinations keeps the   *)
(* rows themselves and the steps of the handlers that write them.          *)
(***************************************************************************)
EXTENDS Naturals, FiniteSets

CONSTANTS
  Workers,   \* requests that may be in flight at the same time
  RuleIds,   \* primary keys of forwarding_rule; bounds the rules ever created
  CfIds,     \* rule identifiers Cloudflare hands out; bounds the creations
  Emails,    \* source mailboxes
  Dests,     \* destination addresses
  None,      \* SQL NULL
  Faults     \* what may go wrong: a subset of FaultKinds

(* A Cloudflare call is refused without an effect, its answer is lost      *)
(* after it took effect, or the server process dies.                       *)
FaultKinds == {"refused", "lost", "crash"}

ASSUME NoneIsNoValue == None \notin RuleIds \cup CfIds \cup Emails \cup Dests
ASSUME FaultsAreKnown == Faults \subseteq FaultKinds

VARIABLES
  rule,      \* the rows of forwarding_rule
  remote,    \* the routing rules of the zone, by Cloudflare identifier
  cfDest,    \* status of each destination address at Cloudflare
  listed,    \* destinations with a live row in destination_address
  mailboxes, \* source mailboxes that are not soft-deleted
  account,   \* the CF account row: usable, switched off, or unbound
  req        \* the request each worker is serving

vars == <<rule, remote, cfDest, listed, mailboxes, account, req>>

RowShape == [st     : {"none", "live", "deleted"},
             email  : Emails \cup {None},
             dest   : Dests \cup {None},
             cfid   : CfIds \cup {None},
             active : BOOLEAN]

Row == {x \in RowShape : x.st # "none" => x.email # None /\ x.dest # None}

RemoteRule == [st    : {"unused", "present", "disabled", "removed"},
               email : Emails \cup {None},
               dest  : Dests \cup {None}]

(* "seen" and "wasOn" are the columns cf_rule_id and is_active of the rows *)
(* the request loaded, "mine" are the rows it works on and "todo" those    *)
(* whose remote rule it still has to remove.                               *)
RequestShape ==
  [op    : {"none", "create", "enable", "disable", "delete", "retire"},
   pc    : {"idle", "verify", "cache", "post", "remove", "drop", "commit"},
   email : Emails \cup {None},
   dest  : Dests \cup {None},
   mine  : SUBSET RuleIds,
   todo  : SUBSET RuleIds,
   seen  : [RuleIds -> CfIds \cup {None}],
   wasOn : SUBSET RuleIds,
   made  : CfIds \cup {None}]

Request ==
  {q \in RequestShape :
     /\ q.op \in {"create", "enable"} => q.email # None
     /\ q.op \in {"create", "enable", "retire"} => q.dest # None
     /\ q.pc \in {"verify", "cache", "post"} => q.op \in {"create", "enable"}
     /\ q.pc = "drop" => q.op = "retire"
     /\ \A r \in q.todo : q.seen[r] # None}

TypeOK ==
  /\ rule \in [RuleIds -> Row]
  /\ remote \in [CfIds -> RemoteRule]
  /\ cfDest \in [Dests -> {"absent", "pending", "verified"}]
  /\ listed \subseteq Dests
  /\ mailboxes \subseteq Emails
  /\ account \in {"active", "inactive", "deleted"}
  /\ req \in [Workers -> Request]

NoRow    == [st |-> "none", email |-> None, dest |-> None,
             cfid |-> None, active |-> FALSE]
NoRemote == [st |-> "unused", email |-> None, dest |-> None]
Idle     == [op |-> "none", pc |-> "idle", email |-> None, dest |-> None,
             mine |-> {}, todo |-> {}, seen |-> [r \in RuleIds |-> None],
             wasOn |-> {}, made |-> None]

Live(r) == rule[r].st = "live"
Unused == {c \in CfIds : remote[c].st = "unused"}

-----------------------------------------------------------------------------
(* The bounds: a request that may create a remote rule, or a row, starts   *)
(* only if an identifier is left for it besides those in-flight requests   *)
(* may take.                                                               *)
Posting == {w \in Workers : req[w].op \in {"create", "enable"} /\ req[w].made = None}
Creating == {w \in Workers : req[w].op = "create"}
IdsLeft == Cardinality(Unused) > Cardinality(Posting)
RowsLeft == Cardinality({r \in RuleIds : rule[r].st = "none"}) > Cardinality(Creating)

Init ==
  /\ rule = [r \in RuleIds |-> NoRow]
  /\ remote = [c \in CfIds |-> NoRemote]
  /\ cfDest = [d \in Dests |-> "absent"]
  /\ listed = {}
  /\ mailboxes = Emails
  /\ account = "active"
  /\ req = [w \in Workers |-> Idle]

-----------------------------------------------------------------------------
(* Starting a request: what the handler reads before its first call to     *)
(* Cloudflare.  A request that fails one of these checks answers 4xx and   *)
(* changes nothing.                                                        *)

(* Mutant: the row is not looked up by its own id.                         *)
LoadedAnyRow(op, pc, R) ==
  LET ids == {rule[s].cfid : s \in RuleIds} \ {None}
      any == IF ids = {} THEN None ELSE CHOOSE c \in ids : TRUE
  IN  [Idle EXCEPT !.op = op, !.pc = pc, !.mine = R,
         !.seen = [r \in RuleIds |-> IF r \in R THEN any ELSE None],
         !.wasOn = {r \in R : rule[r].active}]

(* The load of rows R, as the session remembers it.                        *)
Loaded(op, pc, R) ==
  [Idle EXCEPT !.op = op, !.pc = pc, !.mine = R,
     !.seen = [r \in RuleIds |-> IF r \in R THEN rule[r].cfid ELSE None],
     !.wasOn = {r \in R : rule[r].active}]

(* Mutant: rules that are switched off do not count as bound.              *)
BoundWhileActive(e) == \E r \in RuleIds : Live(r) /\ rule[r].email = e /\ rule[r].active

AlreadyBound(e) == \E r \in RuleIds : Live(r) /\ rule[r].email = e

(* Mutant: mailbox and destination change places.                          *)
StartCreateSwapped(w, e, d) ==
  /\ req[w] = Idle /\ e \in mailboxes /\ ~AlreadyBound(e)
  /\ account = "active" /\ IdsLeft /\ RowsLeft
  /\ req' = [req EXCEPT ![w] = [Idle EXCEPT !.op = "create", !.pc = "verify",
                                            !.email = d, !.dest = e]]
  /\ UNCHANGED <<rule, remote, cfDest, listed, mailboxes, account>>

(* create_forwarding_rule up to the destination check.                     *)
StartCreate(w, e, d) ==
  /\ req[w] = Idle
  /\ e \in mailboxes
  /\ ~AlreadyBound(e)
  /\ account = "active"
  /\ IdsLeft /\ RowsLeft
  /\ req' = [req EXCEPT ![w] = [Idle EXCEPT !.op = "create", !.pc = "verify",
                                            !.email = e, !.dest = d]]
  /\ UNCHANGED <<rule, remote, cfDest, listed, mailboxes, account>>

(* update_forwarding_rule(is_active = TRUE) on a row loaded as inactive.   *)
StartEnable(w, r) ==
  /\ req[w] = Idle
  /\ Live(r) /\ ~rule[r].active
  /\ IdsLeft
  /\ req' = [req EXCEPT ![w] =
               [Loaded("enable", "verify", {r}) EXCEPT !.email = rule[r].email,
                                                       !.dest = rule[r].dest]]
  /\ UNCHANGED <<rule, remote, cfDest, listed, mailboxes, account>>

(* Mutant: the remote rules are left to Cloudflare.                        *)
StartClearingLocally(w, op, R, next) == Loaded(op, next, R)

(* A handler that clears the remote rules of rows R: a row without a       *)
(* cf_rule_id needs no call.                                               *)
StartClearing(w, op, R, next) ==
  LET todo == {r \in R : rule[r].cfid # None}
  IN  [Loaded(op, IF todo = {} THEN next ELSE "remove", R) EXCEPT !.todo = todo]

(* update_forwarding_rule(is_active = FALSE) on a row loaded as active.    *)
StartDisable(w, r) ==
  /\ req[w] = Idle
  /\ Live(r) /\ rule[r].active
  /\ req' = [req EXCEPT ![w] = StartClearing(w, "disable", {r}, "commit")]
  /\ UNCHANGED <<rule, remote, cfDest, listed, mailboxes, account>>

(* delete_forwarding_rule; the mailbox may itself be soft-deleted.         *)
StartDelete(w, r) ==
  /\ req[w] = Idle
  /\ Live(r)
  /\ req' = [req EXCEPT ![w] = StartClearing(w, "delete", {r}, "commit")]
  /\ UNCHANGED <<rule, remote, cfDest, listed, mailboxes, account>>

(* delete_destination_address: the rules that forward to d are read once.  *)
StartRetire(w, d) ==
  /\ req[w] = Idle
  /\ d \in listed
  /\ account = "active"
  /\ LET impacted == {r \in RuleIds : Live(r) /\ rule[r].dest = d}
     IN  req' = [req EXCEPT ![w] =
                   [StartClearing(w, "retire", impacted, "drop") EXCEPT !.dest = d]]
  /\ UNCHANGED <<rule, remote, cfDest, listed, mailboxes, account>>

-----------------------------------------------------------------------------
(* The calls of a request in flight.  A call that raises ends the request  *)
(* and rolls its session back: nothing it changed in memory is kept.       *)
(* The destination service's local row is one step (its failure modes are  *)
(* in module Destinations).                                                *)

End(w) == req' = [req EXCEPT ![w] = Idle]

(* Mutant: an address the owner has not confirmed is good enough.          *)
VerifyListed(w) ==
  /\ req[w].pc = "verify"
  /\ IF account = "active" /\ cfDest[req[w].dest] # "absent"
       THEN req' = [req EXCEPT ![w].pc = "cache"]
       ELSE End(w)
  /\ UNCHANGED <<rule, remote, cfDest, listed, mailboxes, account>>

(* ensure_verified asks Cloudflare for the destination's current status.   *)
Verify(w) ==
  /\ req[w].pc = "verify"
  /\ IF account = "active" /\ cfDest[req[w].dest] = "verified"
       THEN req' = [req EXCEPT ![w].pc = "cache"]
       ELSE End(w)
  /\ UNCHANGED <<rule, remote, cfDest, listed, mailboxes, account>>

(* ensure_verified refreshes or inserts the local row and commits it.      *)
Cache(w) ==
  /\ req[w].pc = "cache"
  /\ listed' = listed \cup {req[w].dest}
  /\ req' = [req EXCEPT ![w].pc = "post"]
  /\ UNCHANGED <<rule, remote, cfDest, mailboxes, account>>

(* _enable_remote_rule builds its client after the destination check,      *)
(* create_forwarding_rule before it.                                       *)
ClientUsable(w) == req[w].op \in {"create", "retire"} \/ account = "active"

(* create_routing_rule: Cloudflare stores an enabled rule under a fresh id.*)
Post(w, answer) ==
  /\ req[w].pc = "post"
  /\ ClientUsable(w)
  /\ \E c \in Unused :
       /\ remote' = [remote EXCEPT ![c] = [st |-> "present", email |-> req[w].email,
                                           dest |-> req[w].dest]]
       /\ \/ /\ answer = "ok"
             /\ req' = [req EXCEPT ![w].pc = "commit", ![w].made = c]
          \/ /\ answer = "lost"
             /\ End(w)
  /\ UNCHANGED <<rule, cfDest, listed, mailboxes, account>>

(* delete_routing_rule on the id the request loaded.                       *)
Remove(w, r, answer) ==
  /\ req[w].pc = "remove"
  /\ r \in req[w].todo
  /\ ClientUsable(w)
  /\ LET c == req[w].seen[r]
     IN  /\ remote[c].st \in {"present", "disabled"}
         /\ remote' = [remote EXCEPT ![c].st = "removed"]
  /\ \/ /\ answer = "ok"
        /\ LET left == req[w].todo \ {r}
           IN  req' = [req EXCEPT ![w].todo = left,
                         ![w].pc = IF left # {} THEN "remove"
                                   ELSE IF req[w].op = "retire" THEN "drop"
                                   ELSE "commit"]
     \/ /\ answer = "lost"
        /\ End(w)
  /\ UNCHANGED <<rule, cfDest, listed, mailboxes, account>>

(* delete_destination_address at Cloudflare, which switches off the rules  *)
(* that still forward to the address.                                      *)
Drop(w, answer) ==
  /\ req[w].pc = "drop"
  /\ LET d == req[w].dest
     IN  /\ cfDest[d] # "absent"
         /\ cfDest' = [cfDest EXCEPT ![d] = "absent"]
         /\ remote' = [c \in CfIds |->
                         IF remote[c].st = "present" /\ remote[c].dest = d
                           THEN [remote[c] EXCEPT !.st = "disabled"]
                           ELSE remote[c]]
  /\ \/ answer = "ok" /\ req' = [req EXCEPT ![w].pc = "commit"]
     \/ answer = "lost" /\ End(w)
  /\ UNCHANGED <<rule, listed, mailboxes, account>>

(* Cloudflare answers success = false for a rule or an address it does not *)
(* have, and an unusable account raises before the call.                   *)
Rejected(w) ==
  \/ req[w].pc \in {"post", "remove"} /\ ~ClientUsable(w)
  \/ req[w].pc = "remove" /\ \E r \in req[w].todo :
       remote[req[w].seen[r]].st \notin {"present", "disabled"}
  \/ req[w].pc = "drop" /\ cfDest[req[w].dest] = "absent"
  \/ req[w].pc \in {"verify", "post", "remove", "drop"} /\ "refused" \in Faults

Reject(w) ==
  /\ Rejected(w)
  /\ End(w)
  /\ UNCHANGED <<rule, remote, cfDest, listed, mailboxes, account>>

(* Answers of a call that took effect.                                     *)
Answers == {"ok"} \cup (Faults \cap {"lost"})

-----------------------------------------------------------------------------
(* The commit.  An UPDATE names the row by its primary key alone and sets  *)
(* the columns whose value differs from the loaded one.                    *)

(* Mutants: one of the two columns is forgotten.                           *)
ClearedIdOnly(w, r) ==
  [rule[r] EXCEPT !.cfid = IF req[w].seen[r] # None THEN None ELSE @]
ClearedFlagOnly(w, r) ==
  [rule[r] EXCEPT !.active = IF r \in req[w].wasOn THEN FALSE ELSE @]

Cleared(w, r) ==
  [rule[r] EXCEPT !.cfid = IF req[w].seen[r] # None THEN None ELSE @,
                  !.active = IF r \in req[w].wasOn THEN FALSE ELSE @]

(* Mutant: the insert is sent again after its commit.                      *)
CommitCreateTwice(w) ==
  /\ req[w].pc = "commit" /\ req[w].op = "create"
  /\ \E r \in RuleIds :
       /\ rule[r].st = "none"
       /\ rule' = [rule EXCEPT ![r] = [st |-> "live", email |-> req[w].email,
                     dest |-> req[w].dest, cfid |-> req[w].made, active |-> TRUE]]
  /\ UNCHANGED <<remote, cfDest, listed, mailboxes, account, req>>

CommitCreate(w) ==
  /\ req[w].pc = "commit" /\ req[w].op = "create"
  /\ \E r \in RuleIds :
       /\ rule[r].st = "none"
       /\ rule' = [rule EXCEPT ![r] = [st |-> "live", email |-> req[w].email,
                     dest |-> req[w].dest, cfid |-> req[w].made, active |-> TRUE]]
  /\ End(w)
  /\ UNCHANGED <<remote, cfDest, listed, mailboxes, account>>

CommitEnable(w) ==
  /\ req[w].pc = "commit" /\ req[w].op = "enable"
  /\ rule' = [r \in RuleIds |->
                IF r \in req[w].mine
                  THEN [rule[r] EXCEPT !.cfid = req[w].made, !.active = TRUE]
                  ELSE rule[r]]
  /\ End(w)
  /\ UNCHANGED <<remote, cfDest, listed, mailboxes, account>>

(* Mutant: retiring a destination deletes the rules that forward to it.    *)
CommitClearDeleting(w) ==
  /\ req[w].pc = "commit" /\ req[w].op \in {"disable", "delete", "retire"}
  /\ rule' = [r \in RuleIds |->
                IF r \notin req[w].mine THEN rule[r]
                ELSE IF req[w].op \in {"delete", "retire"}
                  THEN [Cleared(w, r) EXCEPT !.st = "deleted"]
                  ELSE Cleared(w, r)]
  /\ listed' = IF req[w].op = "retire" THEN listed \ {req[w].dest} ELSE listed
  /\ End(w)
  /\ UNCHANGED <<remote, cfDest, mailboxes, account>>

CommitClear(w) ==
  /\ req[w].pc = "commit" /\ req[w].op \in {"disable", "delete", "retire"}
  /\ rule' = [r \in RuleIds |->
                IF r \notin req[w].mine THEN rule[r]
                ELSE IF req[w].op = "delete"
                  THEN [Cleared(w, r) EXCEPT !.st = "deleted"]
                  ELSE Cleared(w, r)]
  /\ listed' = IF req[w].op = "retire" THEN listed \ {req[w].dest} ELSE listed
  /\ End(w)
  /\ UNCHANGED <<remote, cfDest, mailboxes, account>>

-----------------------------------------------------------------------------
(* What happens around the requests.                                       *)

(* The server process dies with every request it is serving.               *)
Crash ==
  /\ "crash" \in Faults
  /\ \E w \in Workers : req[w] # Idle
  /\ req' = [w \in Workers |-> Idle]
  /\ UNCHANGED <<rule, remote, cfDest, listed, mailboxes, account>>

(* add_destination_address, as one step (module Destinations has its       *)
(* steps): Cloudflare registers the address and mails its owner a link.    *)
AddDestination(d) ==
  /\ d \notin listed /\ account = "active"
  /\ listed' = listed \cup {d}
  /\ cfDest' = [cfDest EXCEPT ![d] = IF @ = "absent" THEN "pending" ELSE @]
  /\ UNCHANGED <<rule, remote, mailboxes, account, req>>

(* sync_destination_addresses, as one step: rows Cloudflare no longer has  *)
(* are soft-deleted.                                                       *)
SyncDestinations ==
  /\ account = "active"
  /\ listed' = {d \in listed : cfDest[d] # "absent"}
  /\ UNCHANGED <<rule, remote, cfDest, mailboxes, account, req>>

(* The owner of the address follows the link Cloudflare mailed.            *)
OwnerVerifies(d) ==
  /\ cfDest[d] = "pending"
  /\ cfDest' = [cfDest EXCEPT ![d] = "verified"]
  /\ UNCHANGED <<rule, remote, listed, mailboxes, account, req>>

(* delete_email_address and the revival of the row by                      *)
(* create_email_address: neither looks at the rules of the mailbox.        *)
DeleteMailbox(e) ==
  /\ e \in mailboxes
  /\ mailboxes' = mailboxes \ {e}
  /\ UNCHANGED <<rule, remote, cfDest, listed, account, req>>

ReviveMailbox(e) ==
  /\ e \notin mailboxes /\ account = "active"
  /\ mailboxes' = mailboxes \cup {e}
  /\ UNCHANGED <<rule, remote, cfDest, listed, account, req>>

(* update_cf_account switches is_active, delete_cf_account unbinds.        *)
SwitchAccount ==
  /\ account # "deleted"
  /\ account' = IF account = "active" THEN "inactive" ELSE "active"
  /\ UNCHANGED <<rule, remote, cfDest, listed, mailboxes, req>>

UnbindAccount ==
  /\ account # "deleted"
  /\ account' = "deleted"
  /\ UNCHANGED <<rule, remote, cfDest, listed, mailboxes, req>>

-----------------------------------------------------------------------------
Start(w) ==
  \/ \E e \in Emails, d \in Dests : StartCreate(w, e, d)
  \/ \E r \in RuleIds : StartEnable(w, r) \/ StartDisable(w, r) \/ StartDelete(w, r)
  \/ \E d \in Dests : StartRetire(w, d)

Continue(w) ==
  \/ Verify(w) \/ Cache(w) \/ Reject(w)
  \/ \E a \in Answers : Post(w, a) \/ Drop(w, a) \/ \E r \in RuleIds : Remove(w, r, a)
  \/ CommitCreate(w) \/ CommitEnable(w) \/ CommitClear(w)

Around ==
  \/ \E d \in Dests : AddDestination(d) \/ OwnerVerifies(d)
  \/ \E e \in Emails : DeleteMailbox(e) \/ ReviveMailbox(e)
  \/ SyncDestinations \/ SwitchAccount \/ UnbindAccount
  \/ Crash

Next == (\E w \in Workers : Start(w) \/ Continue(w)) \/ Around

Spec == Init /\ [][Next]_vars

-----------------------------------------------------------------------------
(* Nothing keeps requests apart: no lock, no version column.  What holds   *)
(* only while they do not meddle with each other is stated for behaviours  *)
(* in which overlapping requests are about different mailboxes, and those  *)
(* that overlap the removal of a destination about other destinations.     *)
MailboxesOf(w) == {rule[r].email : r \in req[w].mine} \cup ({req[w].email} \ {None})

Apart ==
  \A v, w \in Workers : v # w =>
    /\ MailboxesOf(v) \cap MailboxesOf(w) = {}
    /\ req[v].op = "retire" => req[w].dest # req[v].dest

(* A request starts only if it keeps apart from those in flight.           *)
ApartNext == (\E w \in Workers : (Start(w) /\ Apart') \/ Continue(w)) \/ Around

ApartSpec == Init /\ [][ApartNext]_vars

-----------------------------------------------------------------------------
(* Properties.                                                             *)

(* Whatever the interleaving and the failures, the cf_rule_id of a row is  *)
(* the id of a remote rule Cloudflare created for the same mailbox and     *)
(* destination (_build_rule_payload), and no two rows hold the same id:    *)
(* disabling or deleting a rule cannot hit another mailbox's rule.         *)
RowsNameTheirOwnRemote ==
  \A r \in RuleIds : rule[r].cfid # None =>
    /\ remote[rule[r].cfid].st # "unused"
    /\ remote[rule[r].cfid].email = rule[r].email
    /\ remote[rule[r].cfid].dest = rule[r].dest
    /\ \A s \in RuleIds \ {r} : rule[s].cfid # rule[r].cfid

(* While a row holds a cf_rule_id, that remote rule is removed only by a   *)
(* request that loaded it from this very row (_disable_remote_rule,        *)
(* delete_destination_address): no rule stops forwarding because of a      *)
(* request on another one.                                                 *)
OnlyItsOwnRequestsRemove ==
  [][\A r \in RuleIds : \A c \in CfIds :
       rule[r].cfid = c /\ remote[c].st # "removed" /\ remote'[c].st = "removed" =>
         \E w \in Workers : r \in req[w].todo /\ req[w].seen[r] = c]_vars

(* "A source mailbox cannot be bound to two destinations at once"          *)
(* (create_forwarding_rule): at most one undeleted row per mailbox.        *)
SourceBoundOnce ==
  \A r, s \in RuleIds :
    Live(r) /\ Live(s) /\ rule[r].email = rule[s].email => r = s

(* delete_forwarding_rule removes the remote rule first and soft-deletes   *)
(* the row afterwards: a deleted row is off and points at no remote rule.  *)
DeletedRuleForwardsNothing ==
  \A r \in RuleIds : rule[r].st = "deleted" =>
    ~rule[r].active /\ rule[r].cfid = None

(* A remote rule is created only while Cloudflare reports its destination  *)
(* as verified (create_forwarding_rule, _enable_remote_rule).              *)
CreatedOnlyWhenVerified ==
  [][\A c \in CfIds :
       remote[c].st = "unused" /\ remote'[c].st # "unused" =>
         cfDest[remote'[c].dest] = "verified"]_vars

(* Every remote rule belongs to an active undeleted row, or to the request *)
(* that is about to store it.                                              *)
NoOrphanRemote ==
  \A c \in CfIds : remote[c].st \in {"present", "disabled"} =>
    \/ \E r \in RuleIds : Live(r) /\ rule[r].active /\ rule[r].cfid = c
    \/ \E w \in Workers : req[w].made = c

(* Between requests, a rule shown as active exists and is enabled at       *)
(* Cloudflare, and its destination is verified.                            *)
ActiveRulesForward ==
  (\A w \in Workers : req[w] = Idle) =>
    \A r \in RuleIds : Live(r) /\ rule[r].active =>
      /\ rule[r].cfid # None
      /\ remote[rule[r].cfid].st = "present"
      /\ cfDest[rule[r].dest] = "verified"

(* While requests keep apart and no call fails, the two sides agree:       *)
(* nothing forwards behind the platform's back, and what it shows as       *)
(* forwarding forwards (_enable_remote_rule, _disable_remote_rule,         *)
(* delete_destination_address).                                            *)
RemoteMatchesRows == NoOrphanRemote /\ ActiveRulesForward

(* The rows implement the contract: a request changes the bindings at its  *)
(* commit, all at once, or not at all.                                     *)
Target ==
  [e \in Emails |->
     IF AlreadyBound(e)
       THEN LET r == CHOOSE s \in RuleIds : Live(s) /\ rule[s].email = e
            IN  [dest |-> rule[r].dest, on |-> rule[r].active]
       ELSE [dest |-> None, on |-> FALSE]]

Contract == INSTANCE ForwardingContract WITH target <- Target
ContractSpec == Contract!Spec

(* The event loop resumes every request in flight (each Cloudflare call    *)
(* has a timeout), and a user who wants a rule gone keeps asking.          *)
PersistentUser == \A r \in RuleIds : SF_vars(\E w \in Workers : StartDelete(w, r))
FairSpec == Spec /\ (\A w \in Workers : WF_vars(Continue(w))) /\ PersistentUser

(* A rule can be deleted ("delete the existing rule first, then bind a new *)
(* target"): while the CF account stays usable, asking often enough works. *)
DeleteTakesEffect ==
  <>[](account = "active") =>
    \A r \in RuleIds : Live(r) ~> rule[r].st = "deleted"

=============================================================================
