# TLA+ models of cloudflare-email-manage

The program under `src/app` is a FastAPI service that lets a team share the
e-mail features of its Cloudflare accounts: bind accounts, publish their domains
as mail domains, hand out mailboxes, forward them to verified addresses, receive
mail through an Email Worker, and send it. Its state lives in two places that no
transaction spans: the platform's own database (SQLite or PostgreSQL through
async SQLAlchemy) and Cloudflare. This directory holds TLA+ modules of the parts
where the two meet, TLC runs on small instances, and TLAPS proofs.

## How the program runs, and what every module takes from it

* **One session per request, no locks.** `database.py:28-39` opens an
  `AsyncSession` per request with `expire_on_commit=False` and `autoflush=False`.
  A handler loads rows, awaits Cloudflare calls, then commits; an `UPDATE` writes,
  by primary key, the columns that differ from what was loaded. There is no
  `SELECT ... FOR UPDATE`, no version column and no unique index on the pairs the
  handlers check. So requests interleave at every `await`: each module splits a
  handler at its Cloudflare calls and at its commit, keeps in `req` what the
  session remembers, and writes only changed columns at the commit.
* **Calls fail in three ways.** `CloudflareClient._request`
  (`services/cloudflare.py:313-371`) raises on time-outs, transport errors and
  refusals; whether the call took effect is then not known. `Faults` is a subset
  of `{"refused", "lost", "crash"}`: the call has no effect and raises; it has its
  effect and raises (a lost answer); the process dies and every request in flight
  with it, while database and Cloudflare stay. Nothing resumes a request.
* **Fairness.** Every outgoing call has a time-out (`cloudflare.py:313-337`), so
  the event loop resumes every request: `WF(Continue(w))`. Nothing starts requests
  but users; the liveness properties assume one who asks again and again, which is
  strong fairness of starting the request. The code has no background jobs, so
  no property assumes more from the platform itself.

## Inventory

| component | state | operations | hard behaviour | modules |
|---|---|---|---|---|
| Forwarding rules (`forwarding_service`) | rows `forwarding_rule`; routing rules of a zone | create, enable, disable, delete | check, then await, then insert; remote change before local commit; retry after a lost answer | `Forwarding`, `ForwardingContract` |
| Destination addresses (`destination_service`) | rows `destination_address`; addresses of an account | add, sync, `ensure_verified`, delete | list before read; revival or insert; changes at Cloudflare's side; batch of rule removals | `Destinations`, `Forwarding` |
| Worker deployment (`worker_deploy_service`) | `domain.webhook_secret`; script and secrets of the Worker; catch-all rules | `deploy_worker_for_account` | three stores written one after the other; overlapping deployments | `Inbound` |
| Email Worker (`examples/worker/src/index.js`) | its secrets | sign and post a mail, reject it when that fails | redeployment while requests are under way; lost answers | `Inbound`, `Mail` (partly) |
| Inbound webhook (`inbound_service`) | rows `inbound_email` | verify, store, list | unordered lookup of the secret; repeated requests stored twice | `Inbound` (verification), `Mail` (storing) |
| Domains and assignments (`domain_service`) | rows `domain`, `domain_assignment` | sync, assign, unassign, access check | paged listing while zones come and go; concurrent syncs; revocation while in use | `Domains`, `Mailboxes` |
| Mailboxes (`email_service`) | rows `email_address` | create or revive, switch, delete, reset link, open by link | a row written by requests that loaded it earlier; an address that comes back with another user | `Mailboxes` |
| CF accounts (`cf_account_service`) | rows `cf_account` | bind, refresh, replace the token, unbind | the token is edited during its check; two requests for one row | `Accounts` |
| Token permission check (`cf_permission_service`) | stored report | `inspect_token_permissions` | dozen calls in a row; classification of odd answers; which account a token is for | `Accounts` |
| Cloudflare client (`cloudflare`) | none | REST calls, paging, probes | envelope, time-outs, lost answers | calls inside every module (partly) |
| Outbound mail (`outbound_service`) | rows `outbound_email` | send by session, link or key | sent but not recorded; sent again after a time-out | `Mail` |
| API keys (`api_key_service`) | rows `api_key` | create, update, delete, authenticate and stamp | a stamp committed after the key was switched off | `Mail` |
| Rate limits (`rate_limit`) | counters in memory | hit, reset | window boundaries, restart | `Limiter` |
| Users and sessions (`auth_service`, `web/auth`, `main`) | row `user`; signed tokens in cookies | log in, renew, log out, serve a page | answers out of order; renewal at the deadline | `SignIn` (partly) |
| Startup and migrations, token encryption, web pages | - | - | - | not modelled |

`PROJECT.json` lists the same components with their sources, and under "hazards"
every place in the code where an order of steps, a failure or a stale value can
do harm, with the properties about it.

What makes the components correct:

* a row never names another row's object at Cloudflare, and no request removes
  an object on behalf of another row;
* a mailbox is bound to one destination, deleting a rule stops the mail, and only
  verified destinations are forwarded to;
* nothing at Cloudflare works behind the platform's back (no orphans);
* what the Worker signs the platform verifies, whatever step a deployment stopped
  at, and mail flows to the Worker only when it can sign;
* a zone has one domain row, and the row says whether the zone is there;
* a link, a key or a session that was withdrawn stays withdrawn, whatever requests
  were under way;
* a stored token has shown the permissions the platform counts on;
* what was sent and received is on record, and what happens twice happens only
  when somebody could not know better;
* what a user asks for persistently happens (a rule goes, a confirmation shows, a
  domain delivers).

## Modules

Most variables mirror rows, objects at Cloudflare and what a request in flight
remembers. A field or variable that no code holds is called history in its comment;
it only records what the properties speak of. No guard reads one, but that a fresh link
of `Mailboxes` is drawn from those never used, as `uuid4` draws it.

* **`Forwarding`** - one account, one zone. `rule` are the rows of
  `forwarding_rule`, `remote` the routing rules Cloudflare made, `cfDest` the
  status of the destinations there, `listed` the destinations with a live local
  row, `mailboxes` and `account` the rows the handlers check, `req` the requests in
  flight. `StartCreate`, `StartEnable`, `StartDisable`, `StartDelete`,
  `StartRetire` stand for a handler up to its first call, checks included; `Verify`
  and `Cache` for `ensure_verified`; `Post`, `Remove`, `Drop` for the three calls;
  `CommitCreate`, `CommitEnable`, `CommitClear` for the commits (disable, delete and
  `delete_destination_address` share the last, as they share
  `_disable_remote_rule`); `Reject` for a handler that raises. `AddDestination`,
  `SyncDestinations`, mailbox and account actions are the neighbours' handlers as
  one step each; `OwnerVerifies` is the mailbox owner. A success of Cloudflare is
  taken to carry the id of the rule.
* **`ForwardingContract`** - what the service promises: one binding per mailbox,
  on or off, rebinding only after removal, retiring a destination switches its
  bindings off at once. `Forwarding` implements it with `target <- Target`.
* **`Destinations`** - one account. `row` are the rows of `destination_address`,
  `cf` the addresses at Cloudflare (an address removed and added again gets a new
  id), `req.load` the rows each session holds as read. The four handlers are split
  at their Cloudflare calls, at the read that follows the call in sync and in
  `ensure_verified`, and at their commits; addresses also change in Cloudflare's
  dashboard. The handlers' account is usable; one that finds it is not ends like one
  refused.
* **`Inbound`** - several accounts, zones and deployments. `dom` are the rows of
  `domain` by account row and zone, `worker` the `WEBHOOK_SECRETS` of each Cloudflare
  account's Worker, `catchAll` the zones whose mail goes to it, `wire` the signed
  requests under way. `StartDeploy`, `Check`, `Enable`, `Upload`, `Commit`,
  `SetSecret`, `CatchAll`, `Reject` follow `deploy_worker_for_account` call by call,
  the per-zone loops as rounds over `todo`. `Arrive` is the Worker, `Receive` the end
  of a webhook request, `Resolved` the set of secrets `_resolve_secret` may return
  (its query has no `ORDER BY`, so any match may come first). The upload sends no
  instruction about the secrets the old script held, so the model lets Cloudflare
  keep or drop them.
* **`Domains`** - the domain rows of one account row. `atCf` are the zones
  Cloudflare has, `dom` the first, second, ... row of each zone, `sync` the syncs
  under way. `Start` is `build_client`; `ListPage` one call of `list_zones`, with the
  page cut from the zones of that moment; `Load` the lookups by zone id, which fail
  for a zone with two rows; `Commit` the inserts and the changed status columns.
  A zone that two pages listed gets two rows, for the session does not flush between
  the lookups (`autoflush=False`). `Change` adds or removes a zone at Cloudflare at
  any time. "active" stands for whatever status Cloudflare gives a zone. The
  lookups of a sync are one step: only another sync of the account writes these
  rows, and the properties that this could upset exempt overlapping syncs.
* **`Mailboxes`** - one address, its users and its public link. `box` is the row,
  `account` and `shared` decide who may use a domain row (`Access`), `routing` are
  the domains with `inbound_routing_enabled`, which nothing ever clears. Each request
  keeps the row as it `seen` it and writes, at its commit, only the columns it
  changed (`Written`): `StartCreate`/`CommitCreate` insert, `CommitRevive` brings a
  deleted row back for its new user, `CommitSwitch`, `CommitDelete` and `CommitReset` follow.
  `Opens` is the lookup by public link. `Assign`, `Unassign`, `SetAccount` are the
  neighbours. `spent`, `vouched`, `raced` are history.
* **`Accounts`** - the check of a pasted API token, call by call: `Identity`
  and `AccountIdentity` (the two kinds of token), `ListZones` with `Resolve` (which
  account the token is for), one `Probe` for each permission, whose answers `Passes`
  classifies; then the commit of a binding, a refresh or a new token. Between any
  two calls the owner may `Edit` the token's rights at Cloudflare. An answer may
  be odd (rate limit, server error, unexpected success): `Upset` and the classes `Odd`.
  `about`, `backing`, `proof`, `shown` and `overtaken` are history: for which token
  a report was made, and which rights the token really had when a call used them.
  The zone-level probes of a deployment's target zones are one item each.
* **`Mail`** - mail out and mail in. `StartSendByKey`, `Stamp`, `Resolve`,
  `Accept`/`Refuse`/`LoseAcceptance`, `Record` follow a send: key loaded, stamp
  committed, sender resolved, Cloudflare called, outcome committed. `UpdateKey` and
  `DeleteKey` are the owner's requests for the key, split between load and commit.
  A user retries as long as nobody said "sent", and may give up on a request that
  still runs. `Post`, `Store`, `RejectLetter`, `Take`, `LoseAnswer` follow a letter
  from the Worker to the row and the answer back; a rejected letter is posted again
  by the mail's sender. A crash loses what is in flight and nothing else. `doubt` collects
  the messages and letters whose success somebody did not hear of.
* **`Limiter`** - one key's bucket of `rate_limit.py`: a fixed window that opens
  with the first hit after the last one closed. `watch` is an observer who may
  start a stopwatch at any moment and counts what passes until a window's length has
  gone by. **`SignIn`** extends it with one browser: `jar` its cookies, `req` its
  page requests from sending (`SendPage`, with the cookies of that moment) over the
  check (`ServeByAccess`, `ServeByRefresh`, `SendToLogin`) to the answer (`Receive`, which
  may set cookies), so that answers come in any order. The server holds no session:
  logging out clears the jar and nothing else. A cookie is dropped at its max-age, a
  token accepted up to and including its expiry; monotonic and wall clock advance
  together in `now`; a restart clears the buckets. `is_active` is switched by
  `SwitchUser`. The API's own token pair leaves no trace on the server and
  none in the browser; only its login (`LogInByApi`) is there, for the rate limit.
* **`MC...`** - one module per component with the instance's maps and the symmetry
  sets for TLC. **`ForwardingProofs`, `DestinationsProofs`, `InboundProofs`,
  `DomainsProofs`, `MailboxesProofs`, `AccountsProofs`, `MailProofs`,
  `SignInProofs`** - the theorems.

How the modules meet: what one component needs of another is there as the steps the
other can take. `Forwarding` has the destinations' handlers and the mailboxes as
neighbours, `Inbound` has sync and unbinding, `Domains` and `Mailboxes` the account's
state; `SignIn` is composed with `Limiter`, `Forwarding` implements
`ForwardingContract`.

**Requests that keep apart.** No lock and no index keeps requests apart in this
program, and some properties are false when two of them meddle with the same rows
(see "Where the properties stop"). `Forwarding`, `Destinations` and `Inbound`
therefore have two specifications. `Spec` lets requests overlap in any way.
In `ApartSpec` a request starts only if it keeps apart from those in flight (`Apart`):
requests in flight at the same time are about different mailboxes (`Forwarding`,
`Destinations`), those that overlap the removal of a destination about other
destinations, a sync overlaps none, and overlapping deployments are for different
Cloudflare accounts (`Inbound`). Only starts are restricted; that the later steps of
requests, and all else, keep them apart is proved (`ApartStays`). `Apart` is a
hypothesis about the users, not something the code ensures. It still leaves requests
interleaved at every await, with every fault; requests that come one at a time are a
special case (`OneWorkerIsApart`, `OneDeployerIsApart`).

Actions named `...Swapped`, `...Skipped`, `...Anyway` and the like, each marked
"Mutant" in its comment, are mutated forms of the definition beside them and no
part of a specification; each property is violated when one of them takes the
place of its original.

## Runs

Identifiers that would grow without bound are finite sets: `RuleIds`/`RowIds`
bound the rows ever created, `CfIds` the objects Cloudflare ever creates, `Secrets`
and `Tokens` the random values drawn, `WireBound` the requests under way, `Copies` the
rows of a zone, `ChangeBound` the zones added and removed, `UpsetBound` the edits of
permissions and the odd answers, `MaxTries` the attempts for one message or letter,
`MaxTime` the clock. A request that may need an identifier starts only when one is
left (`RowsLeft`, `IdsLeft`, `RowLeft`, `IdLeft`), so that in the runs with
liveness a bound never blocks a request in the middle. Deadlock is not checked: with
the identifiers, attempts or hours used up there may be nothing left to do.

| run | instance | shows | distinct states |
|---|---|---|---|
| `fwd_apart` | 2 requests that keep apart, 2 mailboxes, 1 destination, 2 rows, 3 ids, every fault | `RowsNameTheirOwnRemote`, `SourceBoundOnce`, `DeletedRuleForwardsNothing`, `OnlyItsOwnRequestsRemove`, `CreatedOnlyWhenVerified`; implements `ForwardingContract` | 34 641 |
| `fwd_reliable` | 1 request, no fault, 2 mailboxes, fair | `RemoteMatchesRows`; `DeleteTakesEffect` | 18 396 |
| `fwd_stuck` | 1 request, lost answers, fair | **violated**: `DeleteTakesEffect` | |
| `dst_sequential` | 1 request, 2 mailboxes, 2 rows, 2 ids, every fault, fair | `RowsNameTheirOwnAddress`, `VerifiedByItsOwner`, `RowsMirrorCloudflare`; `VerifiedShowsUp` | 8 676 |
| `dst_duplicate` | 1 request, no fault | **violated**: `AddFindsAtMostOne` | |
| `inb_deploy` | 1 deployment at a time, 1 account, 2 zones, 4 secrets, every fault, fair | `EntriesVerify`, `SignedMailVerifies`, `CatchAllComesLast`; `DeployDelivers` | 30 068 |
| `inb_rebind` | one Cloudflare account bound by two rows, no fault | **violated**: `EntriesVerify` | |
| `acc_check` | 2 requests, 1 row, 2 tokens (a user's and an account's), 2 accounts, 1 edit or odd answer, crash | `StoredTokenProved`, `ReportVouched`, `ReportOfStoredToken` | 1 414 302 |
| `dom_sync` | 2 syncs, 3 zones on pages of 1, 2 rows a zone, 2 changes, refusals and crash | `OneRowPerZone`, `UnavailableWasMissing`, `WritesWhatIsThere` | 677 214 |
| `box_links` | 2 requests, 2 users, 2 domain rows of one name, 2 links, crash | `ResetLinksStayDead`, `UserCouldUseDomain`, `MailboxesReceive` | 1 171 548 |
| `mail_faults` | 2 requests, 1 key, 1 message, 1 letter, 2 attempts each, every fault | `TwiceOnlyInDoubt`, `RecordsAddUp`, `TakenLettersAreStored`, `KeyOffStaysOff` | 1 505 250 |
| `sig_sessions` | 2 page requests, limit 1 in 2 ticks, access 2, sessions of 3 and 4 ticks, 4 ticks | `TwiceTheLimitAtMost`, `JarMatchesSession`, `ServedInTime` | 1 583 888 |

Each module has a run that checks its `TypeOK`. `RemoteMatchesRows` says that no rule
at Cloudflare is without its row (`NoOrphanRemote`) and that what is shown as forwarding
forwards (`ActiveRulesForward`); `RowsMirrorCloudflare` that live rows differ in
mailbox (`LiveRowsDistinct`) and a deleted row's address is gone (`DeletedRowsAreGone`).

Why the bounds suffice: two rows and two mailboxes are what a clash of rows needs
(every property relates at most two rows); three Cloudflare ids allow a create, a
disable and an enable of one row, or a lost answer and a retry; two requests are
what every interleaving hazard in the list needs; in `inb_deploy` two zones in one
account make the per-zone loops stop half-way, and four secrets allow a zone that
was lost and came back to be deployed again. The runs with liveness serve one request
at a time, for the fairness they assume is that of a user whose request gets its turn;
what their safety properties say of more requests is left to the theorems.
With pages of one zone, three zones make a sync read four pages, the last one empty,
and two changes pull one zone back and push another on. One edit between the calls is enough to
make a token lose what it had shown or gain what it had not; two users and two rows
of one domain name allow an address to change hands and rows at once. Two attempts
are what sending twice needs. In `sig_sessions` an access token ends before the
session does, the shorter session before the longer, and both within the clock.
Where a count could matter the theorems below take over.

Fairness of the liveness runs beyond `WF(Continue)`: `fwd_reliable` and
`fwd_stuck` add that a user who wants a rule gone keeps asking (`SF(StartDelete)`);
`dst_sequential` that someone keeps asking for a sync and that not every answer
of Cloudflare is a refusal (`SF` of the steps of the sync); `inb_deploy` that the
owner keeps deploying, and `DeployDelivers` supposes that from some time on a
deployment that ends has seen every call through (`EndsComplete`): what the run
shows is that no earlier partial deployment gets in the way. The other modules
have no liveness property: in `Mail` a message nobody sends again stays unsent, a
domain nobody syncs keeps its status, and nothing in the code does it for the user.

### What the violated runs say of the code

1. `fwd_stuck`: when Cloudflare removed the rule but the answer was lost,
   `_disable_remote_rule` raises on each retry because the id is gone, so the row
   can never be deleted and its mailbox never rebound.
2. `dst_duplicate`: `ensure_verified` inserts a row where a soft-deleted one of
   the same mailbox exists; afterwards the `scalar_one_or_none` of
   `add_destination_address` finds two rows and raises.
3. `inb_rebind`: unbinding an account keeps its domains and their secrets, so
   after binding it again `_resolve_secret` may find the old secret for ever.

### Where the properties stop

Some properties hold only while requests keep apart, and are stated, checked and
proved for that case (`ApartSpec`, or one request). When two requests are about
the same mailbox, `SourceBoundOnce` and the contract fail (two creates both pass the
check at `forwarding_service.py:145`, whose insert is several awaits away), and so do
`RemoteMatchesRows` and `DeletedRuleForwardsNothing` (enable against delete) and
`RowsMirrorCloudflare` (add against add, sync against add); `CreatedOnlyWhenVerified`
fails when the destination is removed between the check and the creation; `EntriesVerify`
when two deployments of one account both find a domain without a secret.
`RemoteMatchesRows` moreover needs that no call fails: a lost answer or a crash
leaves a rule at Cloudflare that no row knows. The ownership properties
(`RowsNameTheirOwnRemote`, `OnlyItsOwnRequestsRemove`, `RowsNameTheirOwnAddress`,
`VerifiedByItsOwner`) hold however requests overlap: that is what their theorems
say.

Others name the case the code does not cover, and hold in all the rest: a zone may get
two rows when syncs overlap or a zone is added while one reads pages; a row may be
marked unavailable by a zone removed meanwhile; a report may be of the former
token when a refresh overlaps a replacement; a re-created mailbox may mix two users'
requests when they run at once; the answer to a page asked for before a logout or login
may set the cookies of the earlier session.

## Proofs

All theorems hold for every value of the constants under the ASSUMEs of the
modules (`None` is no other value, faults are known kinds, the maps of `Inbound`
are total, `RowIds` are numbers, limits and lifetimes are numbers, `Workers` of `Mail`
is finite, `PageSize` is positive).

* **`ForwardingProofs`** - for any number of requests and faults: `TypeCorrect`,
  `RowsOwnTheirRemote` and, for the action property, `RemovedByItsOwn`.
  `RowsNameTheirOwnRemote` is not inductive: an update could store an id that some
  other row took meanwhile. The invariant `IInv` adds what a request in flight
  knows and nobody can spoil: the id it was given is private until its commit
  (`MadeIsPrivate`), the rows it loaded exist (`LoadedRowsExist`), an enabling request
  forwards what its row says (`EnablesItsRow`), and an id it loaded is held by no row
  but the one it came from (`SeenIsOwn`). Each handler step is reduced to one of a
  few shapes (goes on, posts, calls, commits) and each shape to one lemma.

  While requests keep apart, and whatever fails: `ApartSourceBoundOnce`,
  `ApartDeletedForwardsNothing`, `ApartCreatedOnlyWhenVerified` and
  `ApartImplementsContract` (the rows refine `ForwardingContract`). `ApartInv` adds that
  what a request in flight loaded is what is stored, and that a creating request's
  mailbox still is unbound (`SeenIsCurrent`). That another request's commit does not
  spoil this is where `Apart` is used, through one lemma: requests that keep apart share
  no row, mailbox to bind or destination to retire (`NothingShared`). The last two
  theorems rest on `FlightInv` as well: which rows a request works on, given what it was
  asked (`WorksOn`), and that the destination `ensure_verified` found is still verified
  when the rule is created (`VerifiedNow`). For the refinement, the CHOOSE in the mapping
  is first turned into two lemmas: with at most one undeleted row, a mailbox is bound to
  what that row says (`BoundTarget`), and unbound without one (`UnboundTarget`). Then an
  insert is a `Create` of the contract, the other commits are switches, deletions and
  the retirement of a whole destination, and every other step is a stutter.

  `ApartRemoteMatchesRows` supposes also that no call fails (`Faults = {}`). Its invariant
  `Reliable` says, at every point of the requests, how far Cloudflare is ahead of the
  rows: a rule that is on forwards until the request that clears it (`BeingCleared`) has
  removed it (`ForwardsUntilCleared`), an enabled rule at Cloudflare is a row's or one just
  made (`Accounted`), nothing can fail after the first removal (`Underway`), and a
  destination that has rows exists unless it is being retired (`ListedExists`).
* **`DestinationsProofs`** - for any number of requests and faults: `TypeCorrect`,
  `RowsOwnTheirAddress`, `VerifiedIsConfirmed`. The invariant says that what a session
  loaded or was told (ids, verified marks) is still true of Cloudflare's identifiers:
  an id never changes its mailbox and a confirmation is never withdrawn. While requests
  keep apart, whatever fails or changes at Cloudflare meanwhile: `ApartRowsMirror`. What
  a request in flight has concluded from its reads still holds when it commits
  (`Knows`): that the mailbox it adds has no live row, that an address missing from a
  sync's list is gone for good, that the address of the row it removes is gone. A
  commit writes one row and makes it live only for the request's own mailbox
  (`CommitTouches`), so the others' conclusions survive it (`OthersKnow`).
* **`InboundProofs`** - `TypeCorrect` for any overlap of deployments; and, while
  deployments keep apart, with a domain name used once in a Cloudflare account
  (`NamesApart`) and each Cloudflare account bound once (`BoundOnce`):
  `EntriesAlwaysVerify`, `SignedMailAlwaysVerifies`, `CatchAllAlwaysLast`. The invariant
  `SInv`: every entry of a Worker and every request under way carries a secret that
  is stored for its zone (`EntriesSign`, `WireSigns`); a row that holds anything is
  one of the zone's own account (`RowsAtHome`); a deployment's memory is what is
  stored, except that between generation and commit nothing is stored for the
  domains it generated secrets for (`Agrees`), which the steps of deployments for other
  Cloudflare accounts leave so (`OthersAgree`); when it reaches the catch-all rules the
  Worker has every secret (`CatchReady`). With it, a stored secret is never replaced
  (`SecretsStay`), and `LookupFinds` shows that the unordered lookup has one result.
  The run `inb_rebind` and the hazard of overlapping deployments of one account show
  that `BoundOnce` and `Apart` cannot be dropped.
* **`DomainsProofs`** - for any number of syncs, zones and changes and any page
  size: `TypeCorrect`, `ZonesHaveOneRow`, `UnavailableIsMissing`, `SyncsAreTrue`. The
  invariant relates a sync's position to the order of the zones: a zone that was
  pushed nowhere was listed at most once and lies on a page already read
  (`ListedOnce`); a zone that was there all the time and pulled nowhere was listed when
  its page was (`ListedAll`); when nothing moved the listed zones are those
  there (`ListedTrue`); a sync that is alone writes over what it loaded (`Alone`).
  That a page before a zone's own is full, so that the listing does not stop early,
  rests on counting: the ranks of a finite set of zones are all numbers up to its size
  (`RankOnto`, `FullPage`).
* **`MailboxesProofs`** - for any number of users, domain rows and requests:
  `TypeCorrect`, `LinksStayDead`, `UsersCould`, `AllReceive`. The invariant says that
  the user of a creating request could use its domain (`ReqOK`); that a re-creating
  request is alone and finds the row's user and domain as it loaded them, unless `raced`
  (`AloneOK`); and that the row, deleted or not, has a link that was never reset, a routed
  domain and the user and domain of one request (`BoxOK`). Requests may hold spent
  links, but write a link only when they drew it themselves.
* **`AccountsProofs`** - whatever Cloudflare answers and whoever edits tokens:
  `TypeCorrect`, `TokenProved`, `ReportsVouched`, `ReportsFollowToken`. The invariant:
  what a check in flight counts as passed it was shown, for the account it resolved,
  which is the one it was asked about (`CheckOK`); a request about a row asks about that
  row's account and token (`RefersOK`); stored rows carry what their check was shown
  (`RowOK`).
* **`MailProofs`** - for any number of requests, messages, letters, keys and faults:
  `TypeCorrect`, `NoLetterLost`, `KeysStayOff`, `SentOnce`, `RecordsTellAll`. `SentOnce`
  rests on `OnceOK`: a message nobody doubts has one request at most, and once Cloudflare
  took it on its user was told or that request is about to tell. `RecordsTellAll` rests on `CountOK`, which counts
  rows, calls under way and calls the process died in.
* **`SignInProofs`** - for any limit, window and lifetimes and any number of page
  requests: `TypeCorrect`, `RateLimited`, `JarFollowsSession`, `PagesServedInTime`.
  `LimiterInv` bounds what an observer counted by the open window's count when it opened
  before the observer started, and by `Limit` more when it opened later; a third window
  cannot open in time. For the
  cookies, no token ends after the deadline of its login (`Bounded`) and those under
  way belong to the session in force unless they were asked for earlier (`Follows`).

Every invariant, action property and refinement that a passing run checks is stated by
a theorem. Only model-checked: the three liveness properties (`DeleteTakesEffect`,
`VerifiedShowsUp`, `DeployDelivers`), because temporal reasoning under fairness and
ENABLED are out of the prover's reach. No module defines anything by recursion, so
nothing rests on induction over data.

## Not modelled

* Layout and parsing: MIME, mail bodies, HTML, Jinja pages, API schemas, logging, the
  texts of errors and reports.
* Cryptography: Fernet for stored tokens, HMAC, JWT signatures and password hashing
  are library calls; a signature verifies exactly when the secrets are equal.
* Migrations and start-up, which run in one process before requests are served.
* Registration and `update_user`: that user names and addresses are unique is decided
  by unique indexes of the database, so a property would restate the index.
* Access checks (`_accessible_rule_stmt` and the like) as far as they only select
  which rows a user may see; the modules' users may touch every row. `Mailboxes` models
  the check that decides which domain an address may be created under.
* How a client's address is found for the rate limit, which is configuration.
* The fake mode of the Cloudflare client (`cloudflare.py`), a test double.

## What could follow

The composition of `Mailboxes` with `Forwarding` (an address that comes back with rules
of its former user), and a weaker `Apart` for deployments: two of one account that find
every secret stored generate none, and need not be kept apart.
