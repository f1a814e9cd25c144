------------------------------ MODULE Domains ------------------------------
(***************************************************************************)
(* The domain rows of one bound Cloudflare account.  A sync reads the      *)
(* account's zones from Cloudflare page by page, looks each one up among   *)
(* the rows and writes what it found, while zones come and go at           *)
(* Cloudflare and other syncs of the account run.                          *)
(***************************************************************************)
EXTENDS Naturals, FiniteSets

CONSTANTS
  Syncers,    \* syncs that may run at the same time
  MaxZone,    \* zones are numbered in the order Cloudflare lists them
  PageSize,   \* zones on a page of the list (50 in the code)
  Copies,     \* bounds the rows a zone may have
  Faults,     \* what may go wrong: a subset of FaultKinds
  ChangeBound \* bounds the zones added and removed at Cloudflare

FaultKinds == {"refused", "crash"}
Zones == 1 .. MaxZone
DomainIds == Zones \X (1 .. Copies)

ASSUME BoundsAreNat == /\ MaxZone \in Nat /\ Copies \in Nat /\ ChangeBound \in Nat
                       /\ PageSize \in Nat \ {0}
ASSUME FaultsAreKnown == Faults \subseteq FaultKinds

VARIABLES
  account,  \* the row of cf_account: "active", "inactive" or "deleted"
  atCf,     \* zones the account has at Cloudflare
  dom,      \* the rows of domain: the first, second, ... row of each zone
  sync,     \* the sync each syncer runs
  changes,  \* number of changes made at Cloudflare
  moved     \* history: what happened during a sync that can upset it

vars == <<account, atCf, dom, sync, changes, moved>>

(* The zone of row <<z, i>> is z.  "missed" is history: when the row was   *)
(* marked unavailable its zone had been absent at some time of that sync.  *)
Row == [st : {"none", "active", "unavailable"}, missed : BOOLEAN]
NoRow == [st |-> "none", missed |-> FALSE]
NoRows == [d \in DomainIds |-> NoRow]

(* "got" counts how often the pages so far listed a zone, "seen" are the   *)
(* rows as loaded, "absent" (history) the zones Cloudflare lacked at some  *)
(* time of the sync.                                                       *)
Sync == [pc : {"idle", "page", "load", "commit"}, page : Nat,
         got : [Zones -> Nat], seen : [DomainIds -> Row], absent : SUBSET Zones]
Idle == [pc |-> "idle", page |-> 0, got |-> [z \in Zones |-> 0], seen |-> NoRows,
         absent |-> {}]

TypeOK ==
  /\ account \in {"active", "inactive", "deleted"}
  /\ atCf \subseteq Zones
  /\ dom \in [DomainIds -> Row]
  /\ sync \in [Syncers -> Sync]
  /\ changes \in 0 .. ChangeBound
  /\ moved \subseteq {"grew", "shrank", "overlap"}

Init ==
  /\ account = "active"
  /\ atCf \in SUBSET Zones
  /\ dom = NoRows
  /\ sync = [s \in Syncers |-> Idle]
  /\ changes = 0
  /\ moved = {}

Exists(d) == dom[d].st # "none"
Ask(s, pc) == sync[s].pc = pc
End(s) == sync' = [sync EXCEPT ![s] = Idle]
Running == {s \in Syncers : ~Ask(s, "idle")}

-----------------------------------------------------------------------------
(* sync_domains.                                                           *)

(* build_client wants the account active.                                  *)
Start(s) ==
  /\ Ask(s, "idle")
  /\ account = "active"
  /\ sync' = [sync EXCEPT ![s] = [Idle EXCEPT !.pc = "page", !.page = 1,
                                              !.absent = Zones \ atCf]]
  /\ moved' = IF Running = {} THEN moved ELSE moved \cup {"overlap"}
  /\ UNCHANGED <<account, atCf, dom, changes>>

(* One page of the zones Cloudflare has at the moment of the call.         *)
Rank(z) == Cardinality({y \in atCf : y <= z})
OnPage(n) == {z \in atCf : (n - 1) * PageSize < Rank(z) /\ Rank(z) <= n * PageSize}
Count(got, zs) == [z \in Zones |-> IF z \in zs THEN got[z] + 1 ELSE got[z]]

(* Mutant: only the first page is read.                                    *)
ListPageOnce(s) ==
  /\ Ask(s, "page")
  /\ sync' = [sync EXCEPT ![s].got = Count(@, OnPage(1)), ![s].page = 2, ![s].pc = "load"]
  /\ UNCHANGED <<account, atCf, dom, changes, moved>>

(* list_zones goes on until a page is not full.                            *)
ListPage(s) ==
  LET zs == OnPage(sync[s].page)
  IN  /\ Ask(s, "page")
      /\ sync' = [sync EXCEPT
                    ![s].got = Count(@, zs),
                    ![s].page = @ + 1,
                    ![s].pc = IF Cardinality(zs) < PageSize THEN "load" ELSE "page"]
      /\ UNCHANGED <<account, atCf, dom, changes, moved>>

(* Cloudflare refuses, or its answer holds zones of another account: the   *)
(* sync ends and writes nothing.                                           *)
Refused(s) ==
  /\ "refused" \in Faults
  /\ Ask(s, "page")
  /\ End(s)
  /\ UNCHANGED <<account, atCf, dom, changes, moved>>

RowsOf(rows, z) == {d \in DomainIds : d[1] = z /\ rows[d].st # "none"}
Listed(s, z) == sync[s].got[z] > 0

(* Each listed zone is looked up among the rows; one with two rows ends    *)
(* the sync (MultipleResultsFound).                                        *)
Load(s) ==
  /\ Ask(s, "load")
  /\ IF \E z \in Zones : Listed(s, z) /\ Cardinality(RowsOf(dom, z)) > 1 THEN End(s)
     ELSE sync' = [sync EXCEPT ![s].pc = "commit", ![s].seen = dom]
  /\ UNCHANGED <<account, atCf, dom, changes, moved>>

(* Mutant: only an available row is found again.                           *)
UnknownUnlessActive(s, z) ==
  Listed(s, z) /\ \A d \in RowsOf(sync[s].seen, z) : sync[s].seen[d].st # "active"

(* A listed zone without a loaded row.                                     *)
Unknown(s, z) == Listed(s, z) /\ RowsOf(sync[s].seen, z) = {}

(* Mutant: the row of a zone that is gone keeps its status.                *)
StatusKept(s, z) == "active"

(* Mutant: a zone that is gone gets a status nothing else knows.           *)
StatusOwn(s, z) == IF Listed(s, z) THEN "active" ELSE "missing"

(* What a loaded row's status becomes.                                     *)
Status(s, z) == IF Listed(s, z) THEN "active" ELSE "unavailable"

(* An unknown zone gets a row each time it was listed, for the row added   *)
(* first is not flushed when the zone comes up again.  Of a loaded row     *)
(* only a status that differs from the loaded one is written.              *)
Commit(s) ==
  LET seen == sync[s].seen
      used(z) == Cardinality(RowsOf(dom, z))
      new == {d \in DomainIds : /\ Unknown(s, d[1])
                                /\ used(d[1]) < d[2]
                                /\ d[2] <= used(d[1]) + sync[s].got[d[1]]}
      turned == {d \in DomainIds : /\ seen[d].st # "none"
                                   /\ seen[d].st # Status(s, d[1])}
  IN  /\ Ask(s, "commit")
      /\ \A z \in Zones : Unknown(s, z) => used(z) + sync[s].got[z] <= Copies
      /\ dom' = [d \in DomainIds |->
           IF d \in new THEN [st |-> "active", missed |-> FALSE]
           ELSE IF d \in turned
             THEN [st |-> Status(s, d[1]), missed |-> d[1] \in sync[s].absent]
           ELSE dom[d]]
      /\ End(s)
      /\ UNCHANGED <<account, atCf, changes, moved>>

-----------------------------------------------------------------------------
(* Around the sync.                                                        *)

(* update_cf_account with is_active, and delete_cf_account.                *)
SetAccount(state) ==
  /\ account # "deleted" /\ account # state
  /\ account' = state
  /\ UNCHANGED <<atCf, dom, sync, changes, moved>>

(* A zone is added to the account at Cloudflare, or removed from it.       *)
Change(z) ==
  /\ changes < ChangeBound
  /\ changes' = changes + 1
  /\ atCf' = IF z \in atCf THEN atCf \ {z} ELSE atCf \cup {z}
  /\ sync' = [s \in Syncers |->
                IF s \in Running THEN [sync[s] EXCEPT !.absent = @ \cup (Zones \ atCf')]
                                 ELSE sync[s]]
  /\ moved' = moved \cup (IF Running = {} THEN {}
                          ELSE IF z \in atCf THEN {"shrank"} ELSE {"grew"})
  /\ UNCHANGED <<account, dom>>

Crash ==
  /\ "crash" \in Faults
  /\ sync' = [s \in Syncers |-> Idle]
  /\ UNCHANGED <<account, atCf, dom, changes, moved>>

Step(s) == ListPage(s) \/ Refused(s) \/ Load(s) \/ Commit(s)

Next ==
  \/ \E s \in Syncers : Start(s) \/ Step(s)
  \/ \E state \in {"active", "inactive", "deleted"} : SetAccount(state)
  \/ \E z \in Zones : Change(z)
  \/ Crash

Spec == Init /\ [][Next]_vars

-----------------------------------------------------------------------------
(* Properties.                                                             *)

(* A zone has one row, whatever pages it was listed on and however often   *)
(* it was synced, unless two syncs of the account overlapped or a zone was *)
(* added while a sync was reading pages and pushed another one onto the    *)
(* next page (sync_domains has no unique key to fall back on).             *)
OneRowPerZone ==
  \A d, e \in DomainIds :
    Exists(d) /\ Exists(e) /\ d[1] = e[1] /\ d # e =>
      moved \cap {"overlap", "grew"} # {}

(* A row is marked unavailable only when its zone was absent from          *)
(* Cloudflare at some time of the sync, unless a zone removed meanwhile    *)
(* pulled others back onto a page that had been read (list_zones).         *)
UnavailableWasMissing ==
  \A d \in DomainIds :
    dom[d].st = "unavailable" => dom[d].missed \/ "shrank" \in moved

(* A sync nothing disturbed that writes at all leaves available exactly    *)
(* the zones Cloudflare has, also those that went and came back and those  *)
(* on the last page (sync_domains, list_zones).                            *)
WritesWhatIsThere ==
  [][dom' # dom /\ moved = {} =>
       \A z \in Zones : z \in atCf <=>
          \E d \in RowsOf(dom', z) : dom'[d].st = "active"]_vars
=============================================================================
