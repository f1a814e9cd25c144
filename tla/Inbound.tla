------------------------------- MODULE Inbound -------------------------------
(***************************************************************************)
(* Receiving mail: the deployment that installs one Email Worker per       *)
(* Cloudflare account and hands it a signing secret for each mail domain,  *)
(* the Worker that signs and posts what arrives, and the lookup by which   *)
(* the platform finds the secret to verify the signature with.  A          *)
(* deployment writes in three places one after the other: the Worker's     *)
(* script, the platform's domain rows, the Worker's secrets.               *)
(***************************************************************************)
EXTENDS Naturals, FiniteSets

CONSTANTS
  Deployers,   \* deployments that may run at the same time
  Accounts,    \* primary keys of cf_account
  CfAccounts,  \* accounts at Cloudflare
  Zones,       \* zones at Cloudflare
  Names,       \* domain names
  Home,        \* the Cloudflare account an account row stands for
  ZoneHome,    \* the Cloudflare account a zone is in
  NameOf,      \* the domain name of a zone
  Secrets,     \* what token_urlsafe may return
  Global,      \* settings.CF_WEBHOOK_SECRET
  None,        \* SQL NULL, or no secret at all
  Faults,      \* what may go wrong: a subset of FaultKinds
  WireBound    \* bounds the webhook requests under way

FaultKinds == {"refused", "lost", "crash"}

ASSUME MapsAreTotal == /\ Home \in [Accounts -> CfAccounts]
                       /\ ZoneHome \in [Zones -> CfAccounts]
                       /\ NameOf \in [Zones -> Names]
ASSUME SecretsDiffer == /\ None \notin Secrets \cup Zones \cup Names \cup Accounts
                        /\ Global \notin Secrets \cup {None}
ASSUME FaultsAreKnown == Faults \subseteq FaultKinds
ASSUME WireBoundIsNat == WireBound \in Nat

VARIABLES
  account,   \* the rows of cf_account
  dom,       \* the rows of domain, by account row and zone
  present,   \* zones Cloudflare still has
  worker,    \* secrets map of each Cloudflare account's Worker
  catchAll,  \* zones whose mail goes to the Worker
  wire,      \* signed webhook requests on their way to the platform
  req        \* the deployment each deployer runs

vars == <<account, dom, present, worker, catchAll, wire, req>>

Domain == [known : BOOLEAN, routed : BOOLEAN, secret : Secrets \cup {None}]
Entry == [zone : Zones, secret : Secrets]
NoEntry == [zone |-> None, secret |-> None]
Message == [name : Names, zone : Zones, secret : Secrets]

(* "mine" are the mail domains loaded, by zone, "secret" their column      *)
(* webhook_secret in memory, "minted" those that had none when loaded, and *)
(* "todo" those the current round of calls still has to visit.             *)
Request == [pc : {"idle", "check", "enable", "upload", "commit", "secret", "catch"},
            acct : Accounts \cup {None}, mine : SUBSET Zones, todo : SUBSET Zones,
            minted : SUBSET Zones, secret : [Zones -> Secrets \cup {None}]]

Idle == [pc |-> "idle", acct |-> None, mine |-> {}, todo |-> {}, minted |-> {},
         secret |-> [z \in Zones |-> None]]

TypeOK ==
  /\ account \in [Accounts -> {"absent", "active", "deleted"}]
  /\ dom \in [Accounts -> [Zones -> Domain]]
  /\ present \subseteq Zones
  /\ worker \in [CfAccounts -> [Names -> Entry \cup {NoEntry}]]
  /\ catchAll \subseteq Zones
  /\ wire \subseteq Message
  /\ req \in [Deployers -> Request]

NoDomain == [known |-> FALSE, routed |-> FALSE, secret |-> None]
NoSecrets == [n \in Names |-> NoEntry]

Init ==
  /\ account = [a \in Accounts |-> "absent"]
  /\ dom = [a \in Accounts |-> [z \in Zones |-> NoDomain]]
  /\ present = Zones
  /\ worker = [k \in CfAccounts |-> NoSecrets]
  /\ catchAll = {}
  /\ wire = {}
  /\ req = [w \in Deployers |-> Idle]

(* Secrets nobody holds: a fresh token never equals one in use.            *)
InUse == {dom[a][z].secret : a \in Accounts, z \in Zones}
           \cup {worker[k][n].secret : k \in CfAccounts, n \in Names}
           \cup {req[w].secret[z] : w \in Deployers, z \in Zones}
           \cup {m.secret : m \in wire}
Spare == Secrets \ InUse

-----------------------------------------------------------------------------
(* deploy_worker_for_account.                                              *)

End(w) == req' = [req EXCEPT ![w] = Idle]
Answers == {"ok"} \cup (Faults \cap {"lost"})

(* Mutant: only domains that have no secret yet are deployed.              *)
StartDeployOfNew(w, a) ==
  LET new == {z \in Zones : dom[a][z].routed /\ dom[a][z].secret = None}
  IN  /\ req[w] = Idle
      /\ account[a] = "active"
      /\ new # {}
      /\ req' = [req EXCEPT ![w] =
                   [pc |-> "check", acct |-> a, mine |-> new, todo |-> {},
                    minted |-> {}, secret |-> [z \in Zones |-> dom[a][z].secret]]]
      /\ UNCHANGED <<account, dom, present, worker, catchAll, wire>>

(* The mail domains of the account are loaded; with none it answers 400.   *)
StartDeploy(w, a) ==
  LET routed == {z \in Zones : dom[a][z].known /\ dom[a][z].routed}
  IN  /\ req[w] = Idle
      /\ account[a] = "active"
      /\ routed # {}
      /\ req' = [req EXCEPT ![w] =
                   [pc |-> "check", acct |-> a, mine |-> routed, todo |-> {},
                    minted |-> {}, secret |-> [z \in Zones |-> dom[a][z].secret]]]
      /\ UNCHANGED <<account, dom, present, worker, catchAll, wire>>

(* Mutant: every deployment generates new secrets.                         *)
LackingAll(w) == req[w].mine
Lacking(w) == {z \in req[w].mine : req[w].secret[z] = None}

(* The loaded domains must still be in the account; the permission report  *)
(* is stored; then missing secrets are generated, in memory.               *)
Check(w) ==
  /\ req[w].pc = "check"
  /\ IF ~(req[w].mine \subseteq present) THEN End(w)
     ELSE \E f \in [Lacking(w) -> Spare] :
            /\ \A y, z \in Lacking(w) : f[y] = f[z] => y = z
            /\ req' = [req EXCEPT ![w].pc = "enable", ![w].todo = req[w].mine,
                         ![w].minted = Lacking(w),
                         ![w].secret = [z \in Zones |->
                            IF z \in Lacking(w) THEN f[z] ELSE req[w].secret[z]]]
  /\ UNCHANGED <<account, dom, present, worker, catchAll, wire>>

(* One zone of a round of calls is done.                                   *)
Visited(w, z, next) ==
  LET left == req[w].todo \ {z}
  IN  IF left # {} THEN req' = [req EXCEPT ![w].todo = left] ELSE next

(* Email Routing is switched on for the zone, if it was not.               *)
Enable(w, z, answer) ==
  /\ req[w].pc = "enable" /\ z \in req[w].todo \cap present
  /\ IF answer = "ok"
       THEN Visited(w, z, req' = [req EXCEPT ![w].todo = {}, ![w].pc = "upload"])
       ELSE End(w)
  /\ UNCHANGED <<account, dom, present, worker, catchAll, wire>>

(* The script replaces the Worker's; the upload does not say what becomes  *)
(* of the secrets the old one held, so they may be kept or gone.           *)
Upload(w, answer) ==
  /\ req[w].pc = "upload"
  /\ \E kept \in {worker[Home[req[w].acct]], NoSecrets} :
       worker' = [worker EXCEPT ![Home[req[w].acct]] = kept]
  /\ IF answer = "ok" THEN req' = [req EXCEPT ![w].pc = "commit"] ELSE End(w)
  /\ UNCHANGED <<account, dom, present, catchAll, wire>>

(* Mutant: the session is never committed.                                 *)
CommitForgotten(w) ==
  /\ req[w].pc = "commit"
  /\ req' = [req EXCEPT ![w].pc = "secret"]
  /\ UNCHANGED <<account, dom, present, worker, catchAll, wire>>

(* The generated secrets are stored, over whatever is there by now.        *)
Commit(w) ==
  /\ req[w].pc = "commit"
  /\ dom' = [dom EXCEPT ![req[w].acct] =
               [z \in Zones |-> IF z \in req[w].minted
                                  THEN [@[z] EXCEPT !.secret = req[w].secret[z]]
                                  ELSE @[z]]]
  /\ req' = [req EXCEPT ![w].pc = "secret"]
  /\ UNCHANGED <<account, present, worker, catchAll, wire>>

(* Mutant: zone and secret change places.                                  *)
SecretsMapSwapped(w) ==
  [n \in Names |->
     IF \E z \in req[w].mine : NameOf[z] = n
       THEN LET z == CHOOSE y \in req[w].mine : NameOf[y] = n
            IN  [zone |-> req[w].secret[z], secret |-> z]
       ELSE NoEntry]

(* WEBHOOK_SECRETS, from the session's domains: a zone of the account has  *)
(* a domain name to itself.                                                *)
SecretsMap(w) ==
  [n \in Names |->
     IF \E z \in req[w].mine : NameOf[z] = n
       THEN LET z == CHOOSE y \in req[w].mine : NameOf[y] = n
            IN  [zone |-> z, secret |-> req[w].secret[z]]
       ELSE NoEntry]

(* Mutant: the Worker's secrets are left as they are.                      *)
SetSecretSkipped(w, answer) ==
  /\ req[w].pc = "secret" /\ answer = "ok"
  /\ req' = [req EXCEPT ![w].pc = "catch", ![w].todo = req[w].mine]
  /\ UNCHANGED <<account, dom, present, worker, catchAll, wire>>

SetSecret(w, answer) ==
  /\ req[w].pc = "secret"
  /\ worker' = [worker EXCEPT ![Home[req[w].acct]] = SecretsMap(w)]
  /\ IF answer = "ok" THEN req' = [req EXCEPT ![w].pc = "catch", ![w].todo = req[w].mine]
                      ELSE End(w)
  /\ UNCHANGED <<account, dom, present, catchAll, wire>>

(* The zone's catch-all rule sends its mail to the Worker.                 *)
CatchAll(w, z, answer) ==
  /\ req[w].pc = "catch" /\ z \in req[w].todo \cap present
  /\ catchAll' = catchAll \cup {z}
  /\ IF answer = "ok" THEN Visited(w, z, End(w)) ELSE End(w)
  /\ UNCHANGED <<account, dom, present, worker, wire>>

(* A call fails; what the deployment did so far stays.                     *)
Reject(w) ==
  /\ \/ req[w].pc \in {"enable", "catch"} /\ ~(req[w].todo \subseteq present)
     \/ req[w].pc \in {"check", "enable", "upload", "secret", "catch"}
          /\ "refused" \in Faults
  /\ End(w)
  /\ UNCHANGED <<account, dom, present, worker, catchAll, wire>>

-----------------------------------------------------------------------------
(* The Worker and the webhook.                                             *)

(* A mail for the zone's domain reaches the Worker, which signs with the   *)
(* entry it has for the name and refuses the mail if it has none.          *)
Arrive(z) ==
  /\ z \in catchAll
  /\ Cardinality(wire) < WireBound
  /\ LET e == worker[ZoneHome[z]][NameOf[z]]
     IN  /\ e # NoEntry
         /\ wire' = wire \cup {[name |-> NameOf[z], zone |-> e.zone, secret |-> e.secret]}
  /\ UNCHANGED <<account, dom, present, worker, catchAll, req>>

(* process_webhook answers 200 or 401; the request is over.                *)
Receive(m) ==
  /\ m \in wire
  /\ wire' = wire \ {m}
  /\ UNCHANGED <<account, dom, present, worker, catchAll, req>>

(* Stored secrets of domains called n, in the zones Z, whatever became of  *)
(* the account row.                                                        *)
Stored(n, Z) == {dom[a][z].secret : a \in Accounts, z \in {y \in Z : NameOf[y] = n}} \ {None}

(* What _resolve_secret may return: the query by zone has no order, so any *)
(* match may be first.  None stands for the empty string (401).            *)
Resolved(n, z) ==
  IF Stored(n, {z}) # {} THEN Stored(n, {z})
  ELSE IF Stored(n, Zones) # {} THEN {None}
  ELSE {Global}

-----------------------------------------------------------------------------
(* What happens around the deployments.                                    *)

BindAccount(a) ==
  /\ account[a] = "absent"
  /\ account' = [account EXCEPT ![a] = "active"]
  /\ UNCHANGED <<dom, present, worker, catchAll, wire, req>>

(* delete_cf_account leaves the domain rows and their secrets behind.      *)
UnbindAccount(a) ==
  /\ account[a] = "active"
  /\ account' = [account EXCEPT ![a] = "deleted"]
  /\ UNCHANGED <<dom, present, worker, catchAll, wire, req>>

(* sync_domains, as one step: the account's zones get their rows.          *)
SyncDomains(a) ==
  /\ account[a] = "active"
  /\ dom' = [dom EXCEPT ![a] =
               [z \in Zones |-> IF z \in present /\ ZoneHome[z] = Home[a]
                                  THEN [@[z] EXCEPT !.known = TRUE] ELSE @[z]]]
  /\ UNCHANGED <<account, present, worker, catchAll, wire, req>>

(* create_email_address enables inbound routing for its domain.            *)
CreateMailbox(a, z) ==
  /\ account[a] = "active" /\ dom[a][z].known
  /\ dom' = [dom EXCEPT ![a][z].routed = TRUE]
  /\ UNCHANGED <<account, present, worker, catchAll, wire, req>>

(* The zone leaves the account, with its catch-all rule.                   *)
RemoveZone(z) ==
  /\ z \in present
  /\ present' = present \ {z}
  /\ catchAll' = catchAll \ {z}
  /\ UNCHANGED <<account, dom, worker, wire, req>>

Crash ==
  /\ "crash" \in Faults
  /\ \E w \in Deployers : req[w] # Idle
  /\ req' = [w \in Deployers |-> Idle]
  /\ UNCHANGED <<account, dom, present, worker, catchAll, wire>>

Continue(w) ==
  \/ Check(w) \/ Commit(w) \/ Reject(w)
  \/ \E a \in Answers : Upload(w, a) \/ SetSecret(w, a)
  \/ \E a \in Answers, z \in Zones : Enable(w, z, a) \/ CatchAll(w, z, a)

Around ==
  \/ \E a \in Accounts : BindAccount(a) \/ UnbindAccount(a) \/ SyncDomains(a)
  \/ \E a \in Accounts, z \in Zones : CreateMailbox(a, z)
  \/ \E z \in Zones : RemoveZone(z) \/ Arrive(z)
  \/ \E m \in wire : Receive(m)
  \/ Crash

Next ==
  \/ \E w \in Deployers : Continue(w) \/ \E a \in Accounts : StartDeploy(w, a)
  \/ Around

Spec == Init /\ [][Next]_vars

-----------------------------------------------------------------------------
(* Nothing keeps deployments apart.  What holds only while they do not     *)
(* meddle with each other is stated for behaviours in which those that     *)
(* overlap are for different Cloudflare accounts.                          *)
Apart ==
  \A v, w \in Deployers :
    v # w /\ req[v] # Idle /\ req[w] # Idle => Home[req[v].acct] # Home[req[w].acct]

(* A deployment starts only if it keeps apart from those in flight.        *)
ApartNext ==
  \/ \E w \in Deployers : Continue(w) \/ \E a \in Accounts : StartDeploy(w, a) /\ Apart'
  \/ Around

ApartSpec == Init /\ [][ApartNext]_vars

-----------------------------------------------------------------------------
(* Properties.                                                             *)

(* "The platform finds Domain.webhook_secret uniquely by (zone_id, name)"  *)
(* (_resolve_secret), also when another account has a domain of the same   *)
(* name, and it stores a secret before the Worker gets it                  *)
(* (deploy_worker_for_account): whatever step a deployment stops at, the   *)
(* Worker holds no secret that the platform would not verify with.         *)
EntriesVerify ==
  \A k \in CfAccounts, n \in Names :
    LET e == worker[k][n]
    IN  e # NoEntry => Resolved(n, e.zone) = {e.secret}

(* A webhook request that is under way while the Worker is deployed again  *)
(* still verifies: a stored secret is never replaced.                      *)
SignedMailVerifies ==
  \A m \in wire : Resolved(m.name, m.zone) = {m.secret}

(* Mail starts to flow to the Worker last: a catch-all rule is set only    *)
(* when the Worker can sign for the domain with the stored secret.         *)
CatchAllComesLast ==
  [][\A z \in catchAll' \ catchAll :
       LET e == worker[ZoneHome[z]][NameOf[z]]
       IN  e.zone = z /\ Resolved(NameOf[z], z) = {e.secret}]_vars

(* The owner keeps deploying and no deployment waits for ever for a call.  *)
FairSpec ==
  /\ Spec
  /\ \A w \in Deployers : WF_vars(Continue(w))
  /\ \A w \in Deployers, a \in Accounts : SF_vars(StartDeploy(w, a))

(* A deployment that ends has seen every call through.                     *)
EndsComplete ==
  \A w \in Deployers :
    req'[w] = Idle => req[w] = Idle \/ (req[w].pc = "catch" /\ req[w].mine \subseteq catchAll')

(* A mail domain of a usable account whose zone stays ends up delivering   *)
(* once deployments run to their end again, however they stopped before:   *)
(* its catch-all sends to a Worker that signs with the stored secret.      *)
Delivers(z) ==
  LET e == worker[ZoneHome[z]][NameOf[z]]
  IN  z \in catchAll /\ e.zone = z /\ Resolved(NameOf[z], z) = {e.secret}

DeployDelivers ==
  <>[][EndsComplete]_vars =>
    \A a \in Accounts, z \in Zones :
      <>[](account[a] = "active" /\ dom[a][z].routed /\ z \in present) => <>Delivers(z)

=============================================================================
