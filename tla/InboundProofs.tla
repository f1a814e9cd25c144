--------------------------- MODULE InboundProofs ---------------------------
(***************************************************************************)
(* Theorems about Inbound.  Types hold whatever deployments overlap; that  *)
(* the platform verifies what the Worker signs holds while overlapping     *)
(* deployments keep apart and Cloudflare accounts are bound once.          *)
(***************************************************************************)
EXTENDS Inbound, TLAPS

(* No Cloudflare account is bound twice.                                   *)
BoundOnce == \A a, b \in Accounts : Home[a] = Home[b] => a = b

(* A deployment past its checks has a secret for each domain it works on.  *)
Ready(q) ==
  q.pc # "idle" =>
    /\ q.acct \in Accounts
    /\ q.minted \subseteq q.mine
    /\ q.pc # "check" => \A z \in q.mine : q.secret[z] \in Secrets

AllReady == \A w \in Deployers : Ready(req[w])

TInv == TypeOK /\ AllReady

(* Every variable but req has its type.                                    *)
OthersTyped ==
  /\ account \in [Accounts -> {"absent", "active", "deleted"}]
  /\ dom \in [Accounts -> [Zones -> Domain]]
  /\ present \subseteq Zones
  /\ worker \in [CfAccounts -> [Names -> Entry \cup {NoEntry}]]
  /\ catchAll \subseteq Zones
  /\ wire \subseteq Message

-----------------------------------------------------------------------------
(* Idle is a well-formed deployment.                                       *)
LEMMA IdleOk == Idle \in Request /\ Ready(Idle)
  BY DEF Idle, Request, Ready

(* A step that gives one deployer a well-formed deployment and keeps the   *)
(* types of the other variables keeps the type invariant.                  *)
LEMMA ReqKeeps ==
  ASSUME TInv, OthersTyped', NEW w \in Deployers, NEW q \in Request, Ready(q),
         req' = [req EXCEPT ![w] = q]
  PROVE  TInv'
<1>1. req' \in [Deployers -> Request]
  BY DEF TInv, TypeOK
<1>2. ASSUME NEW v \in Deployers PROVE Ready(req'[v])
  <2>1. req'[v] = q \/ req'[v] = req[v]
    BY DEF TInv, TypeOK
  <2> QED
    BY <2>1 DEF TInv, AllReady
<1> QED
  BY <1>1, <1>2 DEF TInv, TypeOK, OthersTyped, AllReady, Ready

(* So does a step that ends a deployment.                                  *)
LEMMA EndKeeps ==
  ASSUME TInv, OthersTyped', NEW w \in Deployers, End(w)
  PROVE  TInv'
  BY IdleOk, ReqKeeps DEF End

(* Starting and checking a deployment keeps the type invariant.            *)
LEMMA StartTyped ==
  ASSUME TInv, NEW w \in Deployers, NEW a \in Accounts, StartDeploy(w, a)
  PROVE  TInv'
<1> DEFINE routed == {z \in Zones : dom[a][z].known /\ dom[a][z].routed}
           q == [pc |-> "check", acct |-> a, mine |-> routed, todo |-> {},
                 minted |-> {}, secret |-> [z \in Zones |-> dom[a][z].secret]]
<1>1. OthersTyped'
  BY DEF TInv, TypeOK, OthersTyped, StartDeploy
<1>2. q \in Request
  BY DEF TInv, TypeOK, Domain, Request
<1>3. Ready(q)
  BY DEF Ready
<1>4. req' = [req EXCEPT ![w] = q]
  BY DEF StartDeploy
<1> QED
  BY <1>1, <1>2, <1>3, <1>4, ReqKeeps

LEMMA CheckTyped ==
  ASSUME TInv, NEW w \in Deployers, Check(w)
  PROVE  TInv'
<1> USE DEF TInv, TypeOK
<1>1. OthersTyped'
  BY DEF OthersTyped, Check
<1>2. CASE End(w)
  BY <1>1, <1>2, EndKeeps
<1>3. CASE ~End(w)
  <2> DEFINE L == Lacking(w)
  <2>1. PICK f \in [L -> Spare] :
          req' = [req EXCEPT ![w].pc = "enable", ![w].todo = req[w].mine,
                    ![w].minted = L,
                    ![w].secret = [z \in Zones |->
                       IF z \in L THEN f[z] ELSE req[w].secret[z]]]
    BY <1>3 DEF Check
  <2> DEFINE s == [z \in Zones |-> IF z \in L THEN f[z] ELSE req[w].secret[z]]
             q == [req[w] EXCEPT !.pc = "enable", !.todo = req[w].mine,
                                 !.minted = L, !.secret = s]
  <2>2. req[w] \in Request /\ req[w].pc = "check" /\ Ready(req[w])
    BY DEF Check, AllReady
  <2>3. L = {z \in req[w].mine : req[w].secret[z] = None} /\ Spare \subseteq Secrets
    BY DEF Lacking, Spare
  <2> HIDE DEF L
  <2>4. /\ s \in [Zones -> Secrets \cup {None}]
        /\ \A z \in req[w].mine : s[z] \in Secrets
    BY <2>2, <2>3 DEF Request
  <2> HIDE DEF s
  <2>5. q \in Request /\ Ready(q)
    BY <2>2, <2>3, <2>4 DEF Request, Ready
  <2>6. req' = [req EXCEPT ![w] = q]
    BY <2>1 DEF s
  <2> QED
    BY <1>1, <2>5, <2>6, ReqKeeps
<1> QED
  BY <1>2, <1>3

(* A deployment that only moves on stays well-formed.                      *)
LEMMA MovesOn ==
  ASSUME NEW q \in Request, Ready(q), q.pc \notin {"idle", "check"},
         NEW p \in {"enable", "upload", "commit", "secret", "catch"},
         NEW T \in SUBSET Zones
  PROVE  LET x == [q EXCEPT !.pc = p, !.todo = T] IN x \in Request /\ Ready(x)
  BY DEF Request, Ready

(* One zone of a round done: the round goes on, or "next" follows.         *)
LEMMA VisitedTyped ==
  ASSUME TInv, OthersTyped', NEW w \in Deployers, req[w].pc \notin {"idle", "check"},
         NEW z \in Zones,
         req' = [req EXCEPT ![w].todo = req[w].todo \ {z}] \/ TInv'
  PROVE  TInv'
<1> DEFINE T == req[w].todo \ {z}
           x == [req[w] EXCEPT !.pc = req[w].pc, !.todo = T]
<1>1. CASE req' = [req EXCEPT ![w].todo = req[w].todo \ {z}]
  <2>1. req[w] \in Request /\ Ready(req[w]) /\ T \in SUBSET Zones
        /\ req[w].pc \in {"enable", "upload", "commit", "secret", "catch"}
    BY DEF TInv, TypeOK, AllReady, Request
  <2>2. x \in Request /\ Ready(x)
    BY <2>1, MovesOn
  <2>3. x = [req[w] EXCEPT !.todo = T]
    BY <2>1 DEF Request
  <2>4. req' = [req EXCEPT ![w] = x]
    BY <1>1, <2>3
  <2> QED
    BY <2>2, <2>4, ReqKeeps
<1> QED
  BY <1>1

(* Reaching the next stage keeps the type invariant.                       *)
LEMMA StageTyped ==
  ASSUME TInv, OthersTyped', NEW w \in Deployers, req[w].pc \notin {"idle", "check"},
         NEW p \in {"enable", "upload", "commit", "secret", "catch"},
         NEW T \in SUBSET Zones,
         req' = [req EXCEPT ![w] = [req[w] EXCEPT !.pc = p, !.todo = T]]
  PROVE  TInv'
<1> DEFINE x == [req[w] EXCEPT !.pc = p, !.todo = T]
<1>1. req[w] \in Request /\ Ready(req[w])
  BY DEF TInv, TypeOK, AllReady
<1>2. x \in Request /\ Ready(x)
  BY <1>1, MovesOn
<1> QED
  BY <1>2, ReqKeeps

(* The secrets map is well typed.                                          *)
LEMMA MapTyped ==
  ASSUME TInv, NEW w \in Deployers, req[w].pc = "secret"
  PROVE  SecretsMap(w) \in [Names -> Entry \cup {NoEntry}]
<1>1. req[w] \in Request /\ \A z \in req[w].mine : req[w].secret[z] \in Secrets
  BY DEF TInv, TypeOK, AllReady, Ready
<1> SUFFICES ASSUME NEW n \in Names, NEW y \in req[w].mine, NameOf[y] = n
             PROVE  LET z == CHOOSE y2 \in req[w].mine : NameOf[y2] = n
                    IN  [zone |-> z, secret |-> req[w].secret[z]] \in Entry
  BY DEF SecretsMap
<1> DEFINE z == CHOOSE y2 \in req[w].mine : NameOf[y2] = n
<1>2. z \in req[w].mine
  OBVIOUS
<1> HIDE DEF z
<1>3. z \in Zones /\ req[w].secret[z] \in Secrets
  BY <1>1, <1>2 DEF Request
<1> QED
  BY <1>3 DEF z, Entry

(* What a step may make of a row of table domain.                          *)
LEMMA RowTyped ==
  ASSUME NEW x \in Domain
  PROVE  /\ [x EXCEPT !.known = TRUE] \in Domain
         /\ [x EXCEPT !.routed = TRUE] \in Domain
         /\ \A s \in Secrets : [x EXCEPT !.secret = s] \in Domain
  BY DEF Domain

(* Every call of a deployment keeps the type invariant.                    *)
LEMMA ContinueTyped ==
  ASSUME TInv, NEW w \in Deployers, Continue(w)
  PROVE  TInv'
<1>0. req[w] \in Request /\ Ready(req[w]) /\ OthersTyped
  BY DEF TInv, TypeOK, AllReady, OthersTyped
<1>1. CASE Check(w)
  BY <1>1, CheckTyped
<1>2. CASE Commit(w)
  <2> DEFINE d == [z \in Zones |-> IF z \in req[w].minted
                                  THEN [dom[req[w].acct][z] EXCEPT !.secret = req[w].secret[z]]
                                  ELSE dom[req[w].acct][z]]
  <2>1. req[w].acct \in Accounts /\ req[w].pc = "commit"
        /\ \A z \in req[w].minted : req[w].secret[z] \in Secrets
    BY <1>0, <1>2 DEF Commit, Ready
  <2>2. d \in [Zones -> Domain]
    <3>1. \A z \in Zones : dom[req[w].acct][z] \in Domain
      BY <1>0, <2>1 DEF OthersTyped
    <3>2. ASSUME NEW z \in Zones
          PROVE  (IF z \in req[w].minted
                    THEN [dom[req[w].acct][z] EXCEPT !.secret = req[w].secret[z]]
                    ELSE dom[req[w].acct][z]) \in Domain
      BY <2>1, <3>1, RowTyped
    <3> QED
      BY <3>2
  <2>3. dom' = [dom EXCEPT ![req[w].acct] = d]
    BY <1>2 DEF Commit
  <2> HIDE DEF d
  <2>4. OthersTyped'
    BY <1>0, <1>2, <2>1, <2>2, <2>3 DEF OthersTyped, Commit
  <2> DEFINE T == req[w].todo
  <2>5. T \in SUBSET Zones /\ req[w] = [req[w] EXCEPT !.todo = T]
    BY <1>0 DEF Request
  <2>6. req' = [req EXCEPT ![w] = [req[w] EXCEPT !.pc = "secret", !.todo = T]]
    BY <1>0, <1>2, <2>5 DEF Commit, Request
  <2> HIDE DEF T
  <2> QED
    BY <2>1, <2>4, <2>5, <2>6, StageTyped
<1>3. CASE Reject(w)
  BY <1>0, <1>3, EndKeeps DEF Reject, OthersTyped
<1>4. ASSUME NEW a \in Answers, Upload(w, a) PROVE TInv'
  <2>1. OthersTyped'
    <3> DEFINE k == Home[req[w].acct]
    <3>1. k \in CfAccounts
      BY <1>0, <1>4, MapsAreTotal DEF Upload, Ready
    <3>2. PICK kept \in {worker[k], NoSecrets} : worker' = [worker EXCEPT ![k] = kept]
      BY <1>4 DEF Upload
    <3>3. NoSecrets \in [Names -> Entry \cup {NoEntry}]
      BY DEF NoSecrets
    <3>4. kept \in [Names -> Entry \cup {NoEntry}]
      BY <1>0, <3>1, <3>3 DEF OthersTyped
    <3> HIDE DEF k
    <3> QED
      BY <1>0, <1>4, <3>2, <3>4 DEF OthersTyped, Upload
  <2>2. CASE End(w)
    BY <2>1, <2>2, EndKeeps
  <2>3. CASE ~End(w)
    <3> DEFINE T == req[w].todo
    <3>1. T \in SUBSET Zones /\ req' = [req EXCEPT ![w].pc = "commit"]
      BY <1>0, <1>4, <2>3 DEF Request, Upload
    <3>2. req' = [req EXCEPT ![w] = [req[w] EXCEPT !.pc = "commit", !.todo = T]]
      BY <1>0, <3>1 DEF Request
    <3> HIDE DEF T
    <3> QED
      BY <1>4, <2>1, <3>1, <3>2, StageTyped DEF Upload
  <2> QED
    BY <2>2, <2>3
<1>5. ASSUME NEW a \in Answers, SetSecret(w, a) PROVE TInv'
  <2>1. SecretsMap(w) \in [Names -> Entry \cup {NoEntry}]
    BY <1>5, MapTyped DEF SetSecret
  <2>2. OthersTyped'
    BY <1>0, <1>5, <2>1 DEF OthersTyped, SetSecret
  <2>3. CASE End(w)
    BY <2>2, <2>3, EndKeeps
  <2>4. CASE ~End(w)
    <3>1. req' = [req EXCEPT ![w] = [req[w] EXCEPT !.pc = "catch", !.todo = req[w].mine]]
      BY <1>5, <2>4 DEF SetSecret
    <3>2. req[w].mine \in SUBSET Zones
      BY <1>0 DEF Request
    <3> QED
      BY <1>5, <2>2, <3>1, <3>2, StageTyped DEF SetSecret
  <2> QED
    BY <2>3, <2>4
<1>6. ASSUME NEW a \in Answers, NEW z \in Zones, Enable(w, z, a) PROVE TInv'
  <2>1. OthersTyped'
    BY <1>0, <1>6 DEF OthersTyped, Enable
  <2>2. CASE End(w)
    BY <2>1, <2>2, EndKeeps
  <2>3. CASE req' = [req EXCEPT ![w].todo = {}, ![w].pc = "upload"]
    <3>1. req' = [req EXCEPT ![w] = [req[w] EXCEPT !.pc = "upload", !.todo = {}]]
      BY <1>0, <2>3 DEF Request
    <3>2. req[w].pc = "enable" /\ {} \in SUBSET Zones
      BY <1>6 DEF Enable
    <3> QED
      BY <2>1, <3>1, <3>2, StageTyped
  <2>4. CASE req' = [req EXCEPT ![w].todo = req[w].todo \ {z}]
    BY <1>6, <2>1, <2>4, VisitedTyped DEF Enable
  <2> QED
    BY <1>6, <2>2, <2>3, <2>4 DEF Enable, Visited
<1>7. ASSUME NEW a \in Answers, NEW z \in Zones, CatchAll(w, z, a) PROVE TInv'
  <2>1. OthersTyped'
    BY <1>0, <1>7 DEF OthersTyped, CatchAll
  <2>2. CASE End(w)
    BY <2>1, <2>2, EndKeeps
  <2>3. CASE req' = [req EXCEPT ![w].todo = req[w].todo \ {z}]
    BY <1>7, <2>1, <2>3, VisitedTyped DEF CatchAll
  <2> QED
    BY <1>7, <2>2, <2>3 DEF CatchAll, Visited
<1> QED
  BY <1>1, <1>2, <1>3, <1>4, <1>5, <1>6, <1>7 DEF Continue

(* So does what happens around the deployments.                            *)
LEMMA AroundTyped ==
  ASSUME TInv, Around \/ UNCHANGED vars
  PROVE  TInv'
<1>0. OthersTyped
  BY DEF TInv, TypeOK, OthersTyped
<1>1. \A w \in Deployers : req'[w] \in {req[w], Idle}
  BY DEF TInv, TypeOK, Around, BindAccount, UnbindAccount, SyncDomains, CreateMailbox,
         RemoveZone, Arrive, Receive, Crash, vars
<1>2. req' \in [Deployers -> Request] /\ AllReady'
  BY <1>1, IdleOk DEF TInv, TypeOK, AllReady, Ready, Around, BindAccount, UnbindAccount,
     SyncDomains, CreateMailbox, RemoveZone, Arrive, Receive, Crash, vars
<1>3. OthersTyped'
  <2>1. ASSUME NEW a \in Accounts, BindAccount(a) \/ UnbindAccount(a) PROVE OthersTyped'
    BY <1>0, <2>1 DEF OthersTyped, BindAccount, UnbindAccount
  <2>2. ASSUME NEW a \in Accounts, SyncDomains(a) PROVE OthersTyped'
    <3> DEFINE d == [z \in Zones |-> IF z \in present /\ ZoneHome[z] = Home[a]
                                    THEN [dom[a][z] EXCEPT !.known = TRUE] ELSE dom[a][z]]
    <3>1. d \in [Zones -> Domain]
      <4>1. \A z \in Zones : dom[a][z] \in Domain
        BY <1>0 DEF OthersTyped
      <4>2. ASSUME NEW z \in Zones
            PROVE  (IF z \in present /\ ZoneHome[z] = Home[a]
                      THEN [dom[a][z] EXCEPT !.known = TRUE] ELSE dom[a][z]) \in Domain
        BY <4>1, RowTyped
      <4> QED
        BY <4>2
    <3>2. dom' = [dom EXCEPT ![a] = d]
      BY <2>2 DEF SyncDomains
    <3> HIDE DEF d
    <3> QED
      BY <1>0, <2>2, <3>1, <3>2 DEF OthersTyped, SyncDomains
  <2>3. ASSUME NEW a \in Accounts, NEW z \in Zones, CreateMailbox(a, z) PROVE OthersTyped'
    <3>1. dom[a][z] \in Domain /\ dom[a] \in [Zones -> Domain]
      BY <1>0 DEF OthersTyped
    <3> DEFINE x == [dom[a][z] EXCEPT !.routed = TRUE]
    <3>2. x \in Domain
      BY <3>1, RowTyped
    <3> DEFINE y == [dom[a] EXCEPT ![z] = x]
    <3>3. dom' = [dom EXCEPT ![a] = y]
      BY <2>3 DEF CreateMailbox
    <3> HIDE DEF x
    <3>4. y \in [Zones -> Domain]
      BY <3>1, <3>2
    <3> HIDE DEF y
    <3> QED
      BY <1>0, <2>3, <3>3, <3>4 DEF OthersTyped, CreateMailbox
  <2>4. ASSUME NEW z \in Zones, RemoveZone(z) PROVE OthersTyped'
    BY <1>0, <2>4 DEF OthersTyped, RemoveZone
  <2>5. ASSUME NEW z \in Zones, Arrive(z) PROVE OthersTyped'
    <3> DEFINE e == worker[ZoneHome[z]][NameOf[z]]
    <3>1. e \in Entry /\ NameOf[z] \in Names
      BY <1>0, <2>5, MapsAreTotal DEF OthersTyped, Arrive
    <3>2. wire' = wire \cup {[name |-> NameOf[z], zone |-> e.zone, secret |-> e.secret]}
      BY <2>5 DEF Arrive
    <3> HIDE DEF e
    <3>3. [name |-> NameOf[z], zone |-> e.zone, secret |-> e.secret] \in Message
      BY <3>1 DEF Entry, Message
    <3> QED
      BY <1>0, <2>5, <3>2, <3>3 DEF OthersTyped, Arrive
  <2>6. ASSUME NEW m \in wire, Receive(m) PROVE OthersTyped'
    BY <1>0, <2>6 DEF OthersTyped, Receive
  <2>7. ASSUME Crash \/ UNCHANGED vars PROVE OthersTyped'
    BY <1>0, <2>7 DEF OthersTyped, Crash, vars
  <2> QED
    BY <2>1, <2>2, <2>3, <2>4, <2>5, <2>6, <2>7 DEF Around
<1> QED
  BY <1>2, <1>3 DEF TInv, TypeOK, OthersTyped

(* The type invariant is inductive.                                        *)
THEOREM Typing == Spec => []TInv
<1>1. Init => TInv
  BY IdleOk, SecretsDiffer DEF Init, TInv, TypeOK, AllReady, NoDomain, NoSecrets, Domain
<1>2. TInv /\ [Next]_vars => TInv'
  BY StartTyped, ContinueTyped, AroundTyped DEF Next
<1> QED
  BY <1>1, <1>2, PTL DEF Spec

(* In every reachable state every variable has its type, for any number of *)
(* deployments at the same time.                                           *)
THEOREM TypeCorrect == Spec => []TypeOK
<1>1. TInv => TypeOK
  BY DEF TInv
<1> QED
  BY <1>1, Typing, PTL

-----------------------------------------------------------------------------
(* What the Worker signs with, the platform verifies with.                 *)

(* A row of table domain that holds anything is one of the zone's own      *)
(* account: sync_domains lists the zones of the account it syncs.          *)
RowsAtHome ==
  \A a \in Accounts, z \in Zones :
    dom[a][z].known \/ dom[a][z].routed \/ dom[a][z].secret # None => ZoneHome[z] = Home[a]

(* Secret s is the one the platform stored for zone z, named n.            *)
Signs(n, z, s) ==
  /\ z \in Zones /\ NameOf[z] = n /\ s \in Secrets
  /\ \E a \in Accounts : Home[a] = ZoneHome[z] /\ dom[a][z].secret = s

EntriesSign ==
  \A k \in CfAccounts, n \in Names :
    worker[k][n] # NoEntry => Signs(n, worker[k][n].zone, worker[k][n].secret)

WireSigns == \A m \in wire : Signs(m.name, m.zone, m.secret)

(* A deployment works on zones of its account; what it has in memory is    *)
(* what is stored, except that between the generation of the missing       *)
(* secrets and the commit nothing is stored for those.                     *)
Agrees(w) ==
  req[w].pc # "idle" =>
    \A z \in req[w].mine :
      /\ ZoneHome[z] = Home[req[w].acct]
      /\ IF z \in req[w].minted /\ req[w].pc \in {"enable", "upload", "commit"}
           THEN dom[req[w].acct][z].secret = None
           ELSE dom[req[w].acct][z].secret = req[w].secret[z]

(* When it comes to the catch-all rules the Worker has every secret.       *)
CatchReady(w) ==
  req[w].pc = "catch" =>
    /\ req[w].todo \subseteq req[w].mine
    /\ \A z \in req[w].mine :
         worker[Home[req[w].acct]][NameOf[z]] = [zone |-> z, secret |-> req[w].secret[z]]

SInv ==
  /\ Apart
  /\ RowsAtHome
  /\ EntriesSign
  /\ WireSigns
  /\ \A w \in Deployers : Agrees(w) /\ CatchReady(w)

(* A zone of a Cloudflare account has its domain name to itself there.     *)
NamesApart ==
  \A y, z \in Zones : ZoneHome[y] = ZoneHome[z] /\ NameOf[y] = NameOf[z] => y = z

(* Stored secrets are never replaced.                                      *)
SecretsStay ==
  \A a \in Accounts, z \in Zones : dom[a][z].secret # None => dom'[a][z].secret = dom[a][z].secret

(* A secret the platform stored for the zone is what the lookup returns.   *)
LEMMA LookupFinds ==
  ASSUME BoundOnce, RowsAtHome, NEW n, NEW z, NEW s, Signs(n, z, s)
  PROVE  Resolved(n, z) = {s}
<1>1. PICK a \in Accounts : Home[a] = ZoneHome[z] /\ dom[a][z].secret = s
  BY DEF Signs
<1>2. s # None /\ z \in Zones /\ NameOf[z] = n
  BY SecretsDiffer DEF Signs
<1>3. \A b \in Accounts : dom[b][z].secret # None => b = a
  BY <1>1, <1>2 DEF BoundOnce, RowsAtHome
<1>4. {y \in {z} : NameOf[y] = n} = {z}
  BY <1>2
<1>5. Stored(n, {z}) = {dom[b][z].secret : b \in Accounts} \ {None}
  BY <1>4 DEF Stored
<1>6. Stored(n, {z}) = {s}
  BY <1>1, <1>2, <1>3, <1>5
<1> QED
  BY <1>6 DEF Resolved

(* While stored secrets stay, what signed still does.                      *)
LEMMA SignsStays ==
  ASSUME SecretsStay
  PROVE  \A n, z, s : Signs(n, z, s) => Signs(n, z, s)'
<1> SUFFICES ASSUME NEW n, NEW z, NEW s, Signs(n, z, s)
             PROVE  Signs(n, z, s)'
  OBVIOUS
<1>1. PICK a \in Accounts : Home[a] = ZoneHome[z] /\ dom[a][z].secret = s
  BY DEF Signs
<1>2. dom'[a][z].secret = s
  BY <1>1, SecretsDiffer DEF Signs, SecretsStay
<1> QED
  BY <1>1, <1>2 DEF Signs

LEMMA EntriesStay ==
  ASSUME EntriesSign, SecretsStay,
         \A k \in CfAccounts, n \in Names : worker'[k][n] \in {worker[k][n], NoEntry}
  PROVE  EntriesSign'
<1> SUFFICES ASSUME NEW k \in CfAccounts, NEW n \in Names, worker'[k][n] # NoEntry
             PROVE  Signs(n, worker[k][n].zone, worker[k][n].secret)'
  BY DEF EntriesSign
<1> DEFINE e == worker[k][n]
<1>1. worker'[k][n] = e /\ e # NoEntry
  OBVIOUS
<1>2. \E z, s : z = e.zone /\ s = e.secret
  OBVIOUS
<1>3. PICK z, s : z = e.zone /\ s = e.secret
  BY <1>2
<1>4. Signs(n, z, s)
  BY <1>1, <1>3 DEF EntriesSign
<1>5. Signs(n, z, s)'
  BY <1>4, SignsStays
<1> QED
  BY <1>1, <1>3, <1>5 DEF Signs

LEMMA WireStays ==
  ASSUME WireSigns, SecretsStay, wire' \subseteq wire
  PROVE  WireSigns'
<1>1. \A m \in wire' : Signs(m.name, m.zone, m.secret)
  BY DEF WireSigns
<1>2. \A m \in wire' : Signs(m.name, m.zone, m.secret)'
  BY <1>1, SignsStays
<1> QED
  BY <1>2 DEF WireSigns

(* A step that leaves domain rows and Worker alone and ends the deployment *)
(* or moves it on within a stage keeps the invariant.                      *)
LEMMA QuietStep ==
  ASSUME TInv, SInv, UNCHANGED <<dom, worker, wire>>,
         Apart', \A w \in Deployers : Agrees(w)' /\ CatchReady(w)'
  PROVE  SInv'
<1>1. SecretsStay /\ RowsAtHome'
  BY DEF SInv, SecretsStay, RowsAtHome
<1>2. EntriesSign' /\ WireSigns'
  BY <1>1, EntriesStay, WireStays DEF SInv
<1> QED
  BY <1>1, <1>2 DEF SInv

(* An ended deployment claims nothing.                                     *)
LEMMA EndedAgrees ==
  ASSUME TInv, NEW w \in Deployers, End(w)
  PROVE  Agrees(w)' /\ CatchReady(w)'
<1>1. req'[w] = Idle
  BY DEF TInv, TypeOK, End
<1> QED
  BY <1>1 DEF Agrees, CatchReady, Idle

(* A deployment's step leaves what the others work on alone.               *)
LEMMA ActsAlone ==
  ASSUME TInv, NEW w \in Deployers, Continue(w)
  PROVE  /\ \A v \in Deployers \ {w} : req'[v] = req[v]
         /\ \A a \in Accounts \ {req[w].acct} : dom'[a] = dom[a]
         /\ \A k \in CfAccounts \ {Home[req[w].acct]} : worker'[k] = worker[k]
         /\ req[w] # Idle
<1>1. CASE Check(w)
  BY <1>1 DEF TInv, TypeOK, Check, End, Idle
<1>2. CASE Commit(w)
  BY <1>2 DEF TInv, TypeOK, Commit, Idle
<1>3. CASE Reject(w)
  BY <1>3 DEF TInv, TypeOK, Reject, End, Idle
<1>4. ASSUME NEW x \in Answers, Upload(w, x) \/ SetSecret(w, x)
      PROVE  /\ \A v \in Deployers \ {w} : req'[v] = req[v]
             /\ dom' = dom /\ req[w] # Idle
             /\ \A k \in CfAccounts \ {Home[req[w].acct]} : worker'[k] = worker[k]
  BY <1>4 DEF TInv, TypeOK, Upload, SetSecret, End, Idle
<1>5. ASSUME NEW x \in Answers, NEW z \in Zones, Enable(w, z, x) \/ CatchAll(w, z, x)
      PROVE  /\ \A v \in Deployers \ {w} : req'[v] = req[v]
             /\ dom' = dom /\ worker' = worker /\ req[w] # Idle
  BY <1>5 DEF TInv, TypeOK, Enable, CatchAll, Visited, End, Idle
<1> QED
  BY <1>1, <1>2, <1>3, <1>4, <1>5 DEF Continue

(* Deployments that keep apart go on keeping apart: each stays with its    *)
(* account until it ends.                                                  *)
LEMMA GoingOnStaysApart ==
  ASSUME TInv, Apart, NEW w \in Deployers, Continue(w)
  PROVE  Apart'
<1>1. req[w] # Idle /\ \A v \in Deployers \ {w} : req'[v] = req[v]
  BY ActsAlone
<1>2. req'[w] = Idle \/ req'[w].acct = req[w].acct
  <2>0. req \in [Deployers -> Request]
    BY DEF TInv, TypeOK
  <2>1. CASE Check(w)
    BY <2>0, <2>1 DEF Check, End, Request
  <2>2. CASE Commit(w) \/ Reject(w)
    BY <2>0, <2>2 DEF Commit, Reject, End, Request
  <2>3. ASSUME NEW a \in Answers, Upload(w, a) \/ SetSecret(w, a)
        PROVE  req'[w] = Idle \/ req'[w].acct = req[w].acct
    BY <2>0, <2>3 DEF Upload, SetSecret, End, Request
  <2>4. ASSUME NEW a \in Answers, NEW z \in Zones, Enable(w, z, a) \/ CatchAll(w, z, a)
        PROVE  req'[w] = Idle \/ req'[w].acct = req[w].acct
    BY <2>0, <2>4 DEF Enable, CatchAll, Visited, End, Request
  <2> QED
    BY <2>1, <2>2, <2>3, <2>4 DEF Continue
<1> QED
  BY <1>1, <1>2 DEF Apart

(* Only the start of a deployment could bring it close to another one.     *)
LEMMA ApartStays ==
  ASSUME TInv, Apart, [ApartNext]_vars
  PROVE  [Next /\ Apart']_vars
<1>1. ASSUME Around PROVE Apart'
  <2>1. req' = req \/ req' = [w \in Deployers |-> Idle]
    BY <1>1 DEF Around, BindAccount, UnbindAccount, SyncDomains, CreateMailbox, RemoveZone,
       Arrive, Receive, Crash
  <2> QED
    BY <2>1 DEF Apart
<1> QED
  BY <1>1, GoingOnStaysApart DEF ApartNext, Next

(* So the others' memory still is what is stored: they work on another     *)
(* Cloudflare account.                                                     *)
LEMMA OthersAgree ==
  ASSUME TInv, SInv, NEW w \in Deployers, Continue(w), Agrees(w)' /\ CatchReady(w)'
  PROVE  \A v \in Deployers : Agrees(v)' /\ CatchReady(v)'
<1> SUFFICES ASSUME NEW v \in Deployers, v # w
             PROVE  Agrees(v)' /\ CatchReady(v)'
  OBVIOUS
<1>1. /\ req'[v] = req[v] /\ req[w] # Idle /\ Ready(req[v]) /\ Agrees(v) /\ CatchReady(v)
      /\ req[v] \in Request
  BY ActsAlone DEF TInv, TypeOK, AllReady, SInv
<1>2. CASE req[v].pc = "idle"
  BY <1>1, <1>2 DEF Agrees, CatchReady
<1>3. CASE req[v].pc # "idle"
  <2>1. req[v].acct \in Accounts /\ Home[req[v].acct] \in CfAccounts
    BY <1>1, <1>3, MapsAreTotal DEF Ready
  <2>2. Home[req[v].acct] # Home[req[w].acct]
    BY <1>1, <1>3 DEF SInv, Apart, Idle
  <2>3. dom'[req[v].acct] = dom[req[v].acct] /\ worker'[Home[req[v].acct]] = worker[Home[req[v].acct]]
    BY <2>1, <2>2, ActsAlone
  <2> QED
    BY <1>1, <2>3 DEF Agrees, CatchReady
<1> QED
  BY <1>2, <1>3

(* Starting a deployment: memory is what is stored.                        *)
LEMMA StartSigns ==
  ASSUME TInv, SInv, Apart', NEW w \in Deployers, NEW a \in Accounts, StartDeploy(w, a)
  PROVE  SInv'
<1> DEFINE routed == {z \in Zones : dom[a][z].known /\ dom[a][z].routed}
           q == [pc |-> "check", acct |-> a, mine |-> routed, todo |-> {},
                 minted |-> {}, secret |-> [z \in Zones |-> dom[a][z].secret]]
<1>1. req'[w] = q
  BY DEF TInv, TypeOK, StartDeploy
<1>2. Agrees(w)' /\ CatchReady(w)'
  BY <1>1 DEF Agrees, CatchReady, SInv, RowsAtHome, StartDeploy
<1>3. ASSUME NEW v \in Deployers, v # w PROVE Agrees(v)' /\ CatchReady(v)'
  <2>1. req'[v] = req[v] /\ dom' = dom /\ worker' = worker
    BY <1>3 DEF TInv, TypeOK, StartDeploy
  <2> QED
    BY <2>1 DEF SInv, Agrees, CatchReady
<1> QED
  BY <1>2, <1>3, QuietStep DEF StartDeploy

(* Generating the missing secrets: for those nothing is stored yet.        *)
LEMMA CheckSigns ==
  ASSUME TInv, SInv, Apart', NEW w \in Deployers, Check(w)
  PROVE  SInv'
<1>1. CASE End(w)
  BY <1>1, EndedAgrees, OthersAgree, QuietStep DEF Check, Continue
<1>2. CASE ~End(w)
  <2> DEFINE L == Lacking(w)
  <2>1. PICK f \in [L -> Spare] :
          req' = [req EXCEPT ![w].pc = "enable", ![w].todo = req[w].mine,
                    ![w].minted = L,
                    ![w].secret = [z \in Zones |->
                       IF z \in L THEN f[z] ELSE req[w].secret[z]]]
    BY <1>2 DEF Check
  <2>2. L = {z \in req[w].mine : req[w].secret[z] = None}
    BY DEF Lacking
  <2> HIDE DEF L
  <2>3. req[w] \in Request /\ req[w].pc = "check"
    BY DEF TInv, TypeOK, Check
  <2>4. /\ req'[w].pc = "enable" /\ req'[w].mine = req[w].mine
        /\ req'[w].acct = req[w].acct /\ req'[w].minted = L
        /\ req'[w].secret = [z \in Zones |-> IF z \in L THEN f[z] ELSE req[w].secret[z]]
    BY <2>1, <2>3 DEF TInv, TypeOK, Request
  <2>5. \A z \in req[w].mine :
          ZoneHome[z] = Home[req[w].acct] /\ dom[req[w].acct][z].secret = req[w].secret[z]
    BY <2>3 DEF SInv, Agrees
  <2>6. dom' = dom /\ req[w].mine \subseteq Zones
    BY <2>3 DEF Check, Request
  <2>7. Agrees(w)' /\ CatchReady(w)'
    BY <2>2, <2>4, <2>5, <2>6 DEF Agrees, CatchReady
  <2> QED
    BY <2>7, OthersAgree, QuietStep DEF Check, Continue
<1> QED
  BY <1>1, <1>2

(* The commit stores what the deployment generated, where nothing was.     *)
LEMMA CommitSigns ==
  ASSUME TInv, SInv, Apart', NEW w \in Deployers, Commit(w)
  PROVE  SInv'
<1> DEFINE a == req[w].acct
           M == req[w].minted
           d == [z \in Zones |-> IF z \in M
                                  THEN [dom[a][z] EXCEPT !.secret = req[w].secret[z]]
                                  ELSE dom[a][z]]
<1>1. /\ req[w] \in Request /\ req[w].pc = "commit"
      /\ a \in Accounts /\ M \subseteq req[w].mine /\ req[w].mine \subseteq Zones
  BY DEF TInv, TypeOK, AllReady, Ready, Commit, Request
<1>2. /\ req'[w].pc = "secret" /\ req'[w].mine = req[w].mine /\ req'[w].minted = M
      /\ req'[w].acct = a /\ req'[w].secret = req[w].secret
  BY <1>1 DEF TInv, TypeOK, Commit, Request
<1>3. \A z \in req[w].mine :
        /\ ZoneHome[z] = Home[a]
        /\ dom[a][z].secret = IF z \in M THEN None ELSE req[w].secret[z]
  BY <1>1 DEF SInv, Agrees
<1>4. dom' = [dom EXCEPT ![a] = d] /\ worker' = worker /\ wire' = wire
  BY DEF Commit
<1> HIDE DEF a, M
<1>5. \A z \in Zones : dom[a][z] \in Domain
  BY <1>1 DEF TInv, TypeOK
<1>6. \A z \in Zones :
        /\ z \in M => d[z].secret = req[w].secret[z]
        /\ z \notin M => d[z] = dom[a][z]
  BY <1>5 DEF Domain
<1> HIDE DEF d
<1>7. /\ dom'[a] = d
      /\ \A b \in Accounts : b # a => dom'[b] = dom[b]
  BY <1>1, <1>4 DEF TInv, TypeOK
<1>8. SecretsStay
  BY <1>1, <1>3, <1>6, <1>7 DEF SecretsStay
<1>9. RowsAtHome'
  <2> SUFFICES ASSUME NEW b \in Accounts, NEW z \in Zones,
                      dom'[b][z].known \/ dom'[b][z].routed \/ dom'[b][z].secret # None
               PROVE  ZoneHome[z] = Home[b]
    BY DEF RowsAtHome
  <2>1. CASE b = a /\ z \in M
    BY <1>1, <1>3, <2>1
  <2>2. CASE ~(b = a /\ z \in M)
    <3>1. dom'[b][z] = dom[b][z]
      BY <1>6, <1>7, <2>2
    <3> QED
      BY <3>1 DEF SInv, RowsAtHome
  <2> QED
    BY <2>1, <2>2
<1>10. EntriesSign' /\ WireSigns'
  BY <1>4, <1>8, EntriesStay, WireStays DEF SInv
<1>11. \A z \in req[w].mine : dom'[a][z].secret = req[w].secret[z]
  BY <1>1, <1>3, <1>6, <1>7
<1>12. Agrees(w)' /\ CatchReady(w)'
  BY <1>2, <1>3, <1>11 DEF Agrees, CatchReady
<1>13. \A v \in Deployers : Agrees(v)' /\ CatchReady(v)'
  BY <1>12, OthersAgree DEF Continue
<1> QED
  BY <1>9, <1>10, <1>13 DEF SInv

(* The script's upload takes secrets from the Worker or leaves them.       *)
LEMMA UploadSigns ==
  ASSUME TInv, SInv, Apart', NEW w \in Deployers, NEW x \in Answers, Upload(w, x)
  PROVE  SInv'
<1> DEFINE k == Home[req[w].acct]
<1>0. req[w] \in Request /\ req[w].pc = "upload" /\ k \in CfAccounts
  BY MapsAreTotal DEF TInv, TypeOK, AllReady, Ready, Upload
<1>1. PICK kept \in {worker[k], NoSecrets} : worker' = [worker EXCEPT ![k] = kept]
  BY DEF Upload
<1> HIDE DEF k
<1>2. \A j \in CfAccounts, n \in Names : worker'[j][n] \in {worker[j][n], NoEntry}
  BY <1>0, <1>1 DEF TInv, TypeOK, NoSecrets
<1>3. SecretsStay /\ RowsAtHome' /\ wire' = wire
  BY DEF SInv, SecretsStay, RowsAtHome, Upload
<1>4. EntriesSign' /\ WireSigns'
  BY <1>2, <1>3, EntriesStay, WireStays DEF SInv
<1>5. Agrees(w)' /\ CatchReady(w)'
  <2>1. CASE End(w)
    BY <2>1, EndedAgrees
  <2>2. CASE ~End(w)
    <3>1. req' = [req EXCEPT ![w].pc = "commit"]
      BY <2>2 DEF Upload
    <3>2. /\ req'[w].pc = "commit" /\ req'[w].mine = req[w].mine
          /\ req'[w].minted = req[w].minted
          /\ req'[w].acct = req[w].acct /\ req'[w].secret = req[w].secret
      BY <1>0, <3>1 DEF TInv, TypeOK, Request
    <3> QED
      BY <1>0, <3>2 DEF Upload, SInv, Agrees, CatchReady
  <2> QED
    BY <2>1, <2>2
<1>6. \A v \in Deployers : Agrees(v)' /\ CatchReady(v)'
  BY <1>5, OthersAgree DEF Continue
<1> QED
  BY <1>3, <1>4, <1>6 DEF SInv

(* The Worker's secrets, once set, are the stored ones of its zones.       *)
LEMMA SetSecretSigns ==
  ASSUME TInv, SInv, Apart', NamesApart,
         NEW w \in Deployers, NEW x \in Answers, SetSecret(w, x)
  PROVE  SInv'
<1> DEFINE a == req[w].acct
           M == req[w].mine
<1>1. /\ req[w] \in Request /\ req[w].pc = "secret" /\ a \in Accounts /\ Home[a] \in CfAccounts
      /\ M \subseteq Zones /\ \A z \in M : req[w].secret[z] \in Secrets
  BY MapsAreTotal DEF TInv, TypeOK, AllReady, Ready, SetSecret, Request
<1>2. \A z \in M : ZoneHome[z] = Home[a] /\ dom[a][z].secret = req[w].secret[z]
  BY <1>1 DEF SInv, Agrees
<1>3. worker' = [worker EXCEPT ![Home[a]] = SecretsMap(w)] /\ dom' = dom /\ wire' = wire
  BY DEF SetSecret
<1>4. \A n \in Names, z \in M :
        NameOf[z] = n => SecretsMap(w)[n] = [zone |-> z, secret |-> req[w].secret[z]]
  <2> SUFFICES ASSUME NEW n \in Names, NEW z \in M, NameOf[z] = n
               PROVE  (CHOOSE y \in M : NameOf[y] = n) = z
    BY DEF SecretsMap
  <2>1. \A y \in M : NameOf[y] = n => y = z
    BY <1>1, <1>2 DEF NamesApart
  <2> QED
    BY <2>1
<1>5. \A n \in Names : SecretsMap(w)[n] = NoEntry \/ \E z \in M : NameOf[z] = n
  BY DEF SecretsMap
<1> HIDE DEF a, M
<1>6. EntriesSign'
  <2> SUFFICES ASSUME NEW k \in CfAccounts, NEW n \in Names, worker'[k][n] # NoEntry
               PROVE  \E z, s : worker'[k][n].zone = z /\ worker'[k][n].secret = s /\ Signs(n, z, s)'
    BY DEF EntriesSign, Signs
  <2>1. CASE k = Home[a]
    <3>1. worker'[k][n] = SecretsMap(w)[n]
      BY <1>3, <2>1 DEF TInv, TypeOK
    <3>2. PICK z \in M : NameOf[z] = n
      BY <1>5, <3>1
    <3>3. worker'[k][n].zone = z /\ worker'[k][n].secret = req[w].secret[z]
      <4>1. SecretsMap(w)[n] = [zone |-> z, secret |-> req[w].secret[z]]
        BY <1>4, <3>2
      <4> QED
        BY <3>1, <4>1
    <3> DEFINE s == req[w].secret[z]
    <3>4. PICK t : t = s
      OBVIOUS
    <3>5. Signs(n, z, t)
      BY <1>1, <1>2, <3>2, <3>4 DEF Signs
    <3>6. Signs(n, z, t)'
      BY <1>3, <3>5 DEF Signs
    <3> QED
      BY <3>3, <3>4, <3>6
  <2>2. CASE k # Home[a]
    <3>1. worker'[k][n] = worker[k][n]
      BY <1>3, <2>2 DEF TInv, TypeOK
    <3>2. PICK z, s : z = worker[k][n].zone /\ s = worker[k][n].secret
      OBVIOUS
    <3>3. Signs(n, z, s)
      BY <3>1, <3>2 DEF SInv, EntriesSign
    <3>4. Signs(n, z, s)'
      BY <1>3, <3>3 DEF Signs
    <3> QED
      BY <3>1, <3>2, <3>4
  <2> QED
    BY <2>1, <2>2
<1>7. RowsAtHome' /\ WireSigns'
  BY <1>3 DEF SInv, RowsAtHome, WireSigns, Signs
<1>8. Agrees(w)' /\ CatchReady(w)'
  <2>1. CASE End(w)
    BY <2>1, EndedAgrees
  <2>2. CASE ~End(w)
    <3>1. req' = [req EXCEPT ![w].pc = "catch", ![w].todo = M]
      BY <2>2 DEF SetSecret, M
    <3>2. /\ req'[w].pc = "catch" /\ req'[w].mine = M /\ req'[w].todo = M
          /\ req'[w].minted = req[w].minted
          /\ req'[w].acct = a /\ req'[w].secret = req[w].secret
      BY <1>1, <3>1 DEF TInv, TypeOK, Request, M, a
    <3>3. \A z \in M : worker'[Home[a]][NameOf[z]] = [zone |-> z, secret |-> req[w].secret[z]]
      BY <1>1, <1>3, <1>4, MapsAreTotal DEF TInv, TypeOK
    <3> QED
      BY <1>2, <1>3, <3>2, <3>3 DEF Agrees, CatchReady
  <2> QED
    BY <2>1, <2>2
<1>9. \A v \in Deployers : Agrees(v)' /\ CatchReady(v)'
  BY <1>8, OthersAgree DEF Continue
<1> QED
  BY <1>6, <1>7, <1>9 DEF SInv

(* Switching on routing and the catch-all rules touch no secret.           *)
LEMMA RoundSigns ==
  ASSUME TInv, SInv, Apart', NEW w \in Deployers, NEW x \in Answers, NEW z \in Zones,
         Enable(w, z, x) \/ CatchAll(w, z, x)
  PROVE  SInv'
<1>0. req[w] \in Request /\ UNCHANGED <<dom, worker, wire>>
      /\ req[w].pc \in {"enable", "catch"}
  BY DEF TInv, TypeOK, Enable, CatchAll
<1>1. CASE End(w)
  BY <1>0, <1>1, EndedAgrees, OthersAgree, QuietStep DEF Continue
<1>2. CASE ~End(w)
  <2>1. /\ req'[w].mine = req[w].mine /\ req'[w].minted = req[w].minted
        /\ req'[w].acct = req[w].acct /\ req'[w].secret = req[w].secret
        /\ \/ req'[w].pc = "upload" /\ req[w].pc = "enable"
           \/ req'[w].pc = req[w].pc /\ req'[w].todo \subseteq req[w].todo
    <3>1. CASE req' = [req EXCEPT ![w].todo = req[w].todo \ {z}]
      BY <1>0, <3>1 DEF TInv, TypeOK, Request
    <3>2. CASE req' = [req EXCEPT ![w].todo = {}, ![w].pc = "upload"] /\ req[w].pc = "enable"
      BY <1>0, <3>2 DEF TInv, TypeOK, Request
    <3> QED
      BY <1>2, <3>1, <3>2 DEF Enable, CatchAll, Visited
  <2>2. Agrees(w)' /\ CatchReady(w)'
    BY <1>0, <2>1 DEF SInv, Agrees, CatchReady
  <2> QED
    BY <1>0, <2>2, OthersAgree, QuietStep DEF Continue
<1> QED
  BY <1>1, <1>2

LEMMA ContinueSigns ==
  ASSUME TInv, SInv, Apart', NamesApart, NEW w \in Deployers, Continue(w)
  PROVE  SInv'
<1>1. CASE Reject(w)
  BY <1>1, EndedAgrees, OthersAgree, QuietStep DEF Reject
<1> QED
  BY <1>1, CheckSigns, CommitSigns, UploadSigns, SetSecretSigns, RoundSigns DEF Continue

(* What happens around the deployments replaces no secret; mail is signed  *)
(* with what the Worker has.                                               *)
LEMMA AroundSigns ==
  ASSUME TInv, SInv, Apart', Around \/ UNCHANGED vars
  PROVE  SInv'
<1>0. worker' = worker
  BY DEF Around, BindAccount, UnbindAccount, SyncDomains, CreateMailbox, RemoveZone,
         Arrive, Receive, Crash, vars
<1>1. /\ \A a \in Accounts, z \in Zones : dom'[a][z].secret = dom[a][z].secret
      /\ RowsAtHome'
  <2>1. ASSUME NEW b \in Accounts, SyncDomains(b)
        PROVE  \A a \in Accounts, z \in Zones :
                 /\ dom'[a][z].secret = dom[a][z].secret
                 /\ dom'[a][z] = dom[a][z] \/ ZoneHome[z] = Home[a]
    <3> DEFINE d == [z \in Zones |-> IF z \in present /\ ZoneHome[z] = Home[b]
                                    THEN [dom[b][z] EXCEPT !.known = TRUE] ELSE dom[b][z]]
    <3>1. \A z \in Zones : dom[b][z] \in Domain
      BY DEF TInv, TypeOK
    <3>2. \A z \in Zones : /\ d[z].secret = dom[b][z].secret
                           /\ d[z] = dom[b][z] \/ ZoneHome[z] = Home[b]
      BY <3>1 DEF Domain
    <3>3. dom' = [dom EXCEPT ![b] = d]
      BY <2>1 DEF SyncDomains
    <3> HIDE DEF d
    <3> QED
      BY <3>2, <3>3 DEF TInv, TypeOK
  <2>2. ASSUME NEW b \in Accounts, NEW y \in Zones, CreateMailbox(b, y)
        PROVE  \A a \in Accounts, z \in Zones :
                 /\ dom'[a][z].secret = dom[a][z].secret
                 /\ dom'[a][z] = dom[a][z] \/ ZoneHome[z] = Home[a]
    <3>1. dom[b][y] \in Domain /\ dom[b][y].known /\ ZoneHome[y] = Home[b]
      BY <2>2 DEF TInv, TypeOK, SInv, RowsAtHome, CreateMailbox
    <3> DEFINE r == [dom[b][y] EXCEPT !.routed = TRUE]
    <3>2. r.secret = dom[b][y].secret
      BY <3>1 DEF Domain
    <3>3. dom' = [dom EXCEPT ![b] = [dom[b] EXCEPT ![y] = r]]
      BY <2>2 DEF CreateMailbox
    <3> HIDE DEF r
    <3>4. \A a \in Accounts, z \in Zones :
            dom'[a][z] = IF a = b /\ z = y THEN r ELSE dom[a][z]
      BY <3>3 DEF TInv, TypeOK
    <3> QED
      BY <3>1, <3>2, <3>4
  <2>3. CASE dom' = dom
    BY <2>3 DEF SInv, RowsAtHome
  <2> QED
    BY <2>1, <2>2, <2>3 DEF SInv, RowsAtHome, Around, BindAccount, UnbindAccount, RemoveZone,
       Arrive, Receive, Crash, vars
<1>2. SecretsStay
  BY <1>1 DEF SecretsStay
<1>3. EntriesSign'
  BY <1>0, <1>2, EntriesStay DEF SInv
<1>4. WireSigns'
  <2>1. CASE wire' \subseteq wire
    BY <1>2, <2>1, WireStays DEF SInv
  <2>2. ASSUME NEW z \in Zones, Arrive(z)
        PROVE  WireSigns'
    <3> DEFINE e == worker[ZoneHome[z]][NameOf[z]]
               m == [name |-> NameOf[z], zone |-> e.zone, secret |-> e.secret]
    <3>1. e # NoEntry /\ wire' = wire \cup {m}
      BY <2>2 DEF Arrive
    <3>2. Signs(m.name, m.zone, m.secret)
      BY <3>1, MapsAreTotal DEF SInv, EntriesSign
    <3> HIDE DEF m
    <3>3. \A x \in wire' : Signs(x.name, x.zone, x.secret)
      BY <3>1, <3>2 DEF SInv, WireSigns
    <3>4. \A x \in wire' : Signs(x.name, x.zone, x.secret)'
      BY <1>2, <3>3, SignsStays
    <3> QED
      BY <3>4 DEF WireSigns
  <2> QED
    BY <2>1, <2>2 DEF Around, BindAccount, UnbindAccount, SyncDomains, CreateMailbox,
       RemoveZone, Receive, Crash, vars
<1>5. \A w \in Deployers : Agrees(w)' /\ CatchReady(w)'
  <2> SUFFICES ASSUME NEW w \in Deployers PROVE Agrees(w)' /\ CatchReady(w)'
    OBVIOUS
  <2>1. CASE req'[w] = Idle
    BY <2>1 DEF Agrees, CatchReady, Idle
  <2>2. CASE req'[w] = req[w]
    <3>1. req[w] \in Request /\ Ready(req[w])
      BY DEF TInv, TypeOK, AllReady
    <3>2. Agrees(w)'
      BY <1>1, <2>2, <3>1 DEF SInv, Agrees, Ready, Request
    <3>3. CatchReady(w)'
      BY <1>0, <2>2 DEF SInv, CatchReady
    <3> QED
      BY <3>2, <3>3
  <2> QED
    BY <2>1, <2>2 DEF Around, BindAccount, UnbindAccount, SyncDomains, CreateMailbox,
       RemoveZone, Arrive, Receive, Crash, vars
<1> QED
  BY <1>1, <1>3, <1>4, <1>5 DEF SInv


(* What the Worker holds and what is under way is signed with secrets the  *)
(* platform has stored.                                                    *)
THEOREM Signing ==
  ASSUME NamesApart
  PROVE  ApartSpec => [](TInv /\ SInv)
<1>1. Init => SInv
  BY DEF Init, SInv, Apart, RowsAtHome, EntriesSign, WireSigns, Agrees, CatchReady, NoDomain,
         NoSecrets, Idle
<1>2. TInv /\ SInv /\ [Next /\ Apart']_vars => SInv'
  <2>1. UNCHANGED vars /\ SInv => Apart'
    BY DEF SInv, Apart, vars
  <2> QED
    BY <2>1, StartSigns, ContinueSigns, AroundSigns DEF Next
<1>3. [ApartNext]_vars => [Next]_vars
  BY DEF ApartNext, Next
<1>4. TInv /\ SInv /\ [ApartNext]_vars => SInv'
  BY <1>2, ApartStays DEF SInv
<1> QED
  BY <1>1, <1>3, <1>4, Typing, PTL DEF Spec, ApartSpec

(* With one deployer there is nothing to keep apart.                       *)
THEOREM OneDeployerIsApart ==
  ASSUME \A v, w \in Deployers : v = w
  PROVE  Spec => ApartSpec
<1>1. Apart'
  BY DEF Apart
<1>2. [Next]_vars => [ApartNext]_vars
  BY <1>1 DEF Next, ApartNext
<1> QED
  BY <1>2, PTL DEF Spec, ApartSpec

(* While deployments keep apart and with Cloudflare accounts bound once,   *)
(* the platform verifies every entry of every Worker, at whatever step a   *)
(* deployment stops.                                                       *)
THEOREM EntriesAlwaysVerify ==
  ASSUME NamesApart, BoundOnce
  PROVE  ApartSpec => []EntriesVerify
<1>1. SInv => EntriesVerify
  BY LookupFinds DEF SInv, EntriesSign, EntriesVerify
<1> QED
  BY <1>1, Signing, PTL

(* So it does every webhook request under way, however often the Worker is *)
(* deployed before it arrives.                                             *)
THEOREM SignedMailAlwaysVerifies ==
  ASSUME NamesApart, BoundOnce
  PROVE  ApartSpec => []SignedMailVerifies
<1>1. SInv => SignedMailVerifies
  BY LookupFinds DEF SInv, WireSigns, SignedMailVerifies
<1> QED
  BY <1>1, Signing, PTL

(* A catch-all rule is set only once the Worker signs the domain's mail    *)
(* with the stored secret.                                                 *)
THEOREM CatchAllAlwaysLast ==
  ASSUME NamesApart, BoundOnce
  PROVE  ApartSpec => CatchAllComesLast
<1> DEFINE Signed(z) ==
      LET e == worker[ZoneHome[z]][NameOf[z]]
      IN  e.zone = z /\ Resolved(NameOf[z], z) = {e.secret}
<1>1. TInv /\ SInv /\ [Next]_vars => [\A z \in catchAll' \ catchAll : Signed(z)]_vars
  <2> SUFFICES ASSUME TInv, SInv, Next, NEW z \in catchAll', z \notin catchAll
               PROVE  Signed(z)
    OBVIOUS
  <2>1. PICK w \in Deployers, x \in Answers : CatchAll(w, z, x)
    BY DEF Next, Continue, Around, StartDeploy, Check, Commit, Reject, Upload, SetSecret,
       Enable, CatchAll, BindAccount, UnbindAccount, SyncDomains, CreateMailbox, RemoveZone,
       Arrive, Receive, Crash
  <2>2. req[w] \in Request /\ req[w].pc = "catch" /\ z \in req[w].mine /\ z \in Zones
    BY <2>1 DEF TInv, TypeOK, SInv, CatchReady, CatchAll, Request
  <2> DEFINE s == req[w].secret[z]
  <2>3. /\ ZoneHome[z] = Home[req[w].acct] /\ dom[req[w].acct][z].secret = s
        /\ worker[ZoneHome[z]][NameOf[z]] = [zone |-> z, secret |-> s]
    BY <2>2 DEF SInv, Agrees, CatchReady
  <2>4. req[w].acct \in Accounts /\ s \in Secrets
    BY <2>2 DEF TInv, AllReady, Ready
  <2>5. Signs(NameOf[z], z, s)
    BY <2>2, <2>3, <2>4 DEF Signs
  <2>6. Resolved(NameOf[z], z) = {s}
    BY <2>5, LookupFinds DEF SInv
  <2> QED
    BY <2>3, <2>6
<1>2. TInv /\ SInv /\ [ApartNext]_vars => [\A z \in catchAll' \ catchAll : Signed(z)]_vars
  <2>1. [ApartNext]_vars => [Next]_vars
    BY DEF ApartNext, Next
  <2> QED
    BY <1>1, <2>1
<1> QED
  BY <1>2, Signing, PTL DEF ApartSpec, CatchAllComesLast

=============================================================================
