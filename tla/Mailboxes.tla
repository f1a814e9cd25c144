----------------------------- MODULE Mailboxes -----------------------------
(***************************************************************************)
(* One mail address of the platform and its public link: created under a   *)
(* domain its user may use, switched off and on, given a new link,         *)
(* deleted, and created again, perhaps by another user under another row   *)
(* of the same domain.  Every request loads the row first and later writes *)
(* the columns it changed, and requests of several users interleave.       *)
(***************************************************************************)
EXTENDS Naturals, FiniteSets

CONSTANTS
  Clients,    \* requests the platform may handle at the same time
  Users,      \* users of the platform
  Admins,     \* users whose role is "admin"
  DomainIds,  \* rows of domain that carry the address's domain name
  OwnerOf,    \* the user whose Cloudflare account a domain row is under
  Tokens,     \* what uuid4 may return
  None,       \* no value
  Faults      \* what may go wrong: a subset of FaultKinds

FaultKinds == {"crash"}

ASSUME UsersFit == Admins \subseteq Users /\ OwnerOf \in [DomainIds -> Users]
ASSUME NoneIsApart == None \notin Users /\ None \notin DomainIds /\ None \notin Tokens
ASSUME FaultsAreKnown == Faults \subseteq FaultKinds

VARIABLES
  account,  \* the Cloudflare account each domain row is under
  shared,   \* the rows of domain_assignment: pairs of user and domain
  routing,  \* domains whose inbound_routing_enabled is set
  box,      \* the row of email_address
  req,      \* the request each client has under way
  spent,    \* history: links that a reset replaced
  vouched,  \* history: the user and domain of the last request that created
            \* the address for a user who could use the domain
  raced     \* history: two requests were re-creating the address at once

vars == <<account, shared, routing, box, req, spent, vouched, raced>>

Box == [st : {"none", "live", "deleted"}, active : BOOLEAN,
        user : Users \cup {None}, domain : DomainIds \cup {None},
        link : Tokens \cup {None}]
NoBox == [st |-> "none", active |-> FALSE, user |-> None, domain |-> None, link |-> None]

(* "seen" is the row as the request loaded it; "could" is history: the     *)
(* user could use the domain then.                                         *)
Request == [op : {"idle", "create", "revive", "switch", "delete", "reset"},
            user : Users \cup {None}, domain : DomainIds \cup {None},
            seen : Box, could : BOOLEAN]
Idle == [op |-> "idle", user |-> None, domain |-> None, seen |-> NoBox,
         could |-> FALSE]

TypeOK ==
  /\ account \in [DomainIds -> {"active", "inactive", "deleted"}]
  /\ shared \subseteq Users \X DomainIds
  /\ routing \subseteq DomainIds
  /\ box \in Box
  /\ req \in [Clients -> Request]
  /\ spent \subseteq Tokens
  /\ vouched \in (Users \X DomainIds) \cup {None}
  /\ raced \in BOOLEAN

Init ==
  /\ account = [d \in DomainIds |-> "active"]
  /\ shared = {}
  /\ routing = {}
  /\ box = NoBox
  /\ req = [c \in Clients |-> Idle]
  /\ spent = {}
  /\ vouched = None
  /\ raced = FALSE

(* A fresh token never equals one that was ever in use.                    *)
Spare == Tokens \ (spent \cup {box.link} \cup {req[c].seen.link : c \in Clients})

Begin(c, q) == req[c] = Idle /\ req' = [req EXCEPT ![c] = q]
End(c) == req' = [req EXCEPT ![c] = Idle]
Asked(c, op) == req[c].op = op

-----------------------------------------------------------------------------
(* Domains: who may use one, and who may share it.                         *)

(* get_domain_or_404.                                                      *)
Access(u, d) ==
  /\ account[d] # "deleted"
  /\ u = OwnerOf[d] \/ u \in Admins \/ <<u, d>> \in shared

(* The owner loses the right when the account is deleted, an administrator *)
(* keeps it.                                                               *)
MayShare(u, d) == u \in Admins \/ (u = OwnerOf[d] /\ account[d] # "deleted")

Assign(u, d, v) ==
  /\ MayShare(u, d) /\ v # u
  /\ <<v, d>> \notin shared
  /\ shared' = shared \cup {<<v, d>>}
  /\ UNCHANGED <<account, routing, box, req, spent, vouched, raced>>

Unassign(u, d, v) ==
  /\ MayShare(u, d)
  /\ <<v, d>> \in shared
  /\ shared' = shared \ {<<v, d>>}
  /\ UNCHANGED <<account, routing, box, req, spent, vouched, raced>>

(* update_cf_account with is_active, and delete_cf_account.                *)
SetAccount(d, state) ==
  /\ account[d] # "deleted" /\ account[d] # state
  /\ account' = [account EXCEPT ![d] = state]
  /\ UNCHANGED <<shared, routing, box, req, spent, vouched, raced>>

-----------------------------------------------------------------------------
(* create_email_address.                                                   *)

(* Mutant: the domain is not asked for before the address is re-created.   *)
StartCreateAnyway(c, u, d) ==
  /\ account[d] = "active"
  /\ Access(u, d) \/ box.st = "deleted"
  /\ box.st # "live"
  /\ Begin(c, [op |-> IF box.st = "none" THEN "create" ELSE "revive",
               user |-> u, domain |-> d, seen |-> box, could |-> Access(u, d)])
  /\ UNCHANGED <<account, shared, routing, box, spent, vouched, raced>>

(* Mutant: user and domain change places.                                  *)
StartCreateSwapped(c, u, d) ==
  /\ Access(u, d) /\ account[d] = "active"
  /\ box.st # "live"
  /\ Begin(c, [op |-> IF box.st = "none" THEN "create" ELSE "revive",
               user |-> d, domain |-> u, seen |-> box, could |-> Access(u, d)])
  /\ UNCHANGED <<account, shared, routing, box, spent, vouched, raced>>

(* The user must be able to use the domain and its account be active; a    *)
(* live address is a conflict.                                             *)
StartCreate(c, u, d) ==
  /\ Access(u, d) /\ account[d] = "active"
  /\ box.st # "live"
  /\ Begin(c, [op |-> IF box.st = "none" THEN "create" ELSE "revive",
               user |-> u, domain |-> d, seen |-> box, could |-> Access(u, d)])
  /\ raced' = (raced \/ \E b \in Clients : Asked(b, "revive"))
  /\ UNCHANGED <<account, shared, routing, box, spent, vouched>>

(* Mutant: the domain's routing is not switched on again.                  *)
RoutedSilently(d) == routing

Routed(d) == routing \cup {d}

(* History: the pair a request creates the address for.                    *)
Pair(q) == IF q.could THEN <<q.user, q.domain>> ELSE None

(* A row that appeared meanwhile makes the insert fail on the unique index *)
(* of full_address, and nothing is written.                                *)
CommitCreate(c) ==
  /\ Asked(c, "create")
  /\ IF box.st = "none"
       THEN /\ \E t \in Spare :
                 box' = [st |-> "live", active |-> TRUE, user |-> req[c].user,
                         domain |-> req[c].domain, link |-> t]
            /\ routing' = Routed(req[c].domain)
            /\ vouched' = Pair(req[c])
       ELSE UNCHANGED <<box, routing, vouched>>
  /\ End(c)
  /\ UNCHANGED <<account, shared, spent, raced>>

(* Only columns that differ from the loaded row are written.               *)
Written(new, seen, now) == IF new = seen THEN now ELSE new

(* The deleted row is used again: it changes hands and keeps its link.     *)
CommitRevive(c) ==
  LET q == req[c]
  IN  /\ Asked(c, "revive")
      /\ box' = [box EXCEPT !.st = "live",
                   !.active = Written(TRUE, q.seen.active, @),
                   !.user = Written(q.user, q.seen.user, @),
                   !.domain = Written(q.domain, q.seen.domain, @)]
      /\ routing' = Routed(q.domain)
      /\ vouched' = Pair(q)
      /\ End(c)
      /\ UNCHANGED <<account, shared, spent, raced>>

-----------------------------------------------------------------------------
(* Requests about a live address, by its user or an administrator.         *)

StartOn(c, u, op) ==
  /\ box.st = "live"
  /\ u = box.user \/ u \in Admins
  /\ Begin(c, [op |-> op, user |-> u, domain |-> None, seen |-> box, could |-> FALSE])
  /\ UNCHANGED <<account, shared, routing, box, spent, vouched, raced>>

(* Mutant: the whole loaded row is written back.                           *)
CommitSwitchWhole(c) ==
  /\ Asked(c, "switch")
  /\ \E on \in BOOLEAN : box' = [req[c].seen EXCEPT !.active = on]
  /\ End(c)
  /\ UNCHANGED <<account, shared, routing, spent, vouched, raced>>

(* update_email_address, with either value; the page's button sends the    *)
(* opposite of the loaded one.                                             *)
CommitSwitch(c) ==
  /\ Asked(c, "switch")
  /\ \E on \in BOOLEAN :
       box' = [box EXCEPT !.active = Written(on, req[c].seen.active, @)]
  /\ End(c)
  /\ UNCHANGED <<account, shared, routing, spent, vouched, raced>>

CommitDelete(c) ==
  /\ Asked(c, "delete")
  /\ box' = [box EXCEPT !.st = "deleted",
               !.active = Written(FALSE, req[c].seen.active, @)]
  /\ End(c)
  /\ UNCHANGED <<account, shared, routing, spent, vouched, raced>>

(* regenerate_public_token.                                                *)
CommitReset(c) ==
  /\ Asked(c, "reset")
  /\ \E t \in Spare : box' = [box EXCEPT !.link = t]
  /\ spent' = spent \cup {box.link}
  /\ End(c)
  /\ UNCHANGED <<account, shared, routing, vouched, raced>>

(* get_email_address_by_token: what the public pages show a link's holder. *)
Opens(t) == t = box.link /\ box.st = "live" /\ box.active

Crash ==
  /\ "crash" \in Faults
  /\ req' = [c \in Clients |-> Idle]
  /\ UNCHANGED <<account, shared, routing, box, spent, vouched, raced>>

Commit(c) ==
  \/ CommitCreate(c) \/ CommitRevive(c)
  \/ CommitSwitch(c) \/ CommitDelete(c) \/ CommitReset(c)

Next ==
  \/ \E c \in Clients, u \in Users :
       \/ \E d \in DomainIds : StartCreate(c, u, d)
       \/ \E op \in {"switch", "delete", "reset"} : StartOn(c, u, op)
  \/ \E c \in Clients : Commit(c)
  \/ \E u, v \in Users, d \in DomainIds : Assign(u, d, v) \/ Unassign(u, d, v)
  \/ \E d \in DomainIds, state \in {"active", "inactive", "deleted"} : SetAccount(d, state)
  \/ Crash

Spec == Init /\ [][Next]_vars

-----------------------------------------------------------------------------
(* Properties.                                                             *)

(* A link that was reset never opens the mailbox again, whatever requests  *)
(* were under way at the reset, and not after the address was deleted and  *)
(* created again ("the old token is invalid at once",                      *)
(* email_service.py:165).                                                  *)
ResetLinksStayDead == \A t \in spent : ~Opens(t)

(* The user of a mailbox could use the very domain row the mailbox is      *)
(* under when the address was created, unless two users were re-creating   *)
(* it at once: each writes only the columns it finds different, and the    *)
(* row may end with the user of one and the domain of the other            *)
(* (email_service.py:52-63).                                               *)
UserCouldUseDomain ==
  box.st = "live" => <<box.user, box.domain>> = vouched \/ raced

(* Mail for a live mailbox is routed: the domain row it is under is one a  *)
(* deployment hands a secret, also when the address came back under        *)
(* another row (inbound_routing_enabled).                                  *)
MailboxesReceive == box.st = "live" => box.domain \in routing
=============================================================================
