------------------------------ MODULE Accounts ------------------------------
(***************************************************************************)
(* Binding a Cloudflare account: the check that a pasted API token has     *)
(* every permission the platform needs, one call to Cloudflare after the   *)
(* other, and the row of cf_account that stores the token with the report  *)
(* of its check.  The owner may change the token's permissions at          *)
(* Cloudflare between any two calls, and two requests for one row may run  *)
(* at the same time.                                                       *)
(***************************************************************************)
EXTENDS Naturals, FiniteSets

CONSTANTS
  Workers,     \* requests the platform may handle at the same time
  RowIds,      \* primary keys of cf_account
  Tokens,      \* API tokens users may paste
  CfAccounts,  \* accounts at Cloudflare
  Prefix,      \* what a token starts with: "cfut", "cfat" or "bare"
  UserTokens,  \* tokens that belong to a user, not to an account
  Granted,     \* rights of each token at first: pairs of account and ability
  None,        \* SQL NULL, or a field left empty
  Revocable,   \* rights an owner may take from a token and give back
  Faults,      \* what may go wrong: a subset of FaultKinds
  UpsetBound   \* bounds the edits of permissions and the unexpected answers

FaultKinds == {"odd", "unfiltered", "crash"}

Routing == {"settings", "rules"}
Probed  == {"addresses", "sending", "workers"}
Abilities == {"zone"} \cup Routing \cup Probed
Items     == {"token"} \cup Abilities
Rights    == CfAccounts \X Abilities

ASSUME PrefixesFit ==
  /\ Prefix \in [Tokens -> {"cfut", "cfat", "bare"}]
  /\ UserTokens \subseteq Tokens
  /\ \A t \in Tokens : /\ Prefix[t] = "cfut" => t \in UserTokens
                       /\ Prefix[t] = "cfat" => t \notin UserTokens
ASSUME GrantedFits == Granted \in [Tokens -> SUBSET Rights] /\ Revocable \subseteq Rights
ASSUME NoneIsApart == /\ None \notin RowIds /\ None \notin Tokens
                      /\ None \notin CfAccounts /\ None \notin BOOLEAN
ASSUME FaultsAreKnown == Faults \subseteq FaultKinds
ASSUME UpsetBoundIsNat == UpsetBound \in Nat

VARIABLES
  row,        \* the rows of cf_account
  may,        \* rights each token has at Cloudflare now
  upsets,     \* number of edits and unexpected answers so far
  req,        \* the request each worker handles
  overtaken   \* history: rows whose token was replaced during a refresh

vars == <<row, may, upsets, req, overtaken>>

(* "report" holds the items that passed; the report is passed when all     *)
(* are.  As history, "about" is the token the report was made for,         *)
(* "backing" the rights that token really had when the report's calls used *)
(* them, and "proof" those of the check that let the stored token in.      *)
Row == [st : {"absent", "live", "deleted"}, cf : CfAccounts \cup {None}, token : Tokens \cup {None},
        report : SUBSET Items, about : Tokens \cup {None},
        backing : SUBSET Rights, proof : SUBSET Rights]
NoRow == [st |-> "absent", cf |-> None, token |-> None,
          report |-> {}, about |-> None, backing |-> {}, proof |-> {}]

(* "want" is the account asked for, "cf" the one resolved, "target" says   *)
(* whether mail domains are to be probed, "shown" (history) collects the   *)
(* rights the token had when a call of the check used them.                *)
Request == [pc : {"idle", "identity", "fallback", "zones", "commit"}
                   \cup Routing \cup Probed,
            op : {"none", "bind", "refresh", "update"},
            row : RowIds \cup {None}, token : Tokens \cup {None},
            want : CfAccounts \cup {None}, cf : CfAccounts \cup {None},
            target : BOOLEAN, passed : SUBSET Items,
            shown : SUBSET Rights]
Idle == [pc |-> "idle", op |-> "none", row |-> None, token |-> None,
         want |-> None, cf |-> None, target |-> FALSE, passed |-> {},
         shown |-> {}]

TypeOK ==
  /\ row \in [RowIds -> Row]
  /\ may \in [Tokens -> SUBSET Rights]
  /\ upsets \in 0 .. UpsetBound
  /\ req \in [Workers -> Request]
  /\ overtaken \subseteq RowIds

Init ==
  /\ row = [r \in RowIds |-> NoRow]
  /\ may = Granted
  /\ upsets = 0
  /\ req = [w \in Workers |-> Idle]
  /\ overtaken = {}

Begin(w, q) == req[w] = Idle /\ req' = [req EXCEPT ![w] = q]
End(w) == req' = [req EXCEPT ![w] = Idle]
Live(r) == row[r].st = "live"

-----------------------------------------------------------------------------
(* The requests.  A check always starts by verifying the token.  What the  *)
(* check never looks at is chosen when it is over: whether the token is to *)
(* be bound or was only to be checked.                                     *)

(* Mutant: token and account change places.                                *)
StartBindSwapped(w, t, k) ==
  /\ Begin(w, [Idle EXCEPT !.pc = "identity", !.op = "bind", !.token = k, !.want = t])
  /\ UNCHANGED <<row, may, upsets, overtaken>>

(* A token, with the account it is for or without.                         *)
StartBind(w, t, k) ==
  /\ Begin(w, [Idle EXCEPT !.pc = "identity", !.op = "bind", !.token = t, !.want = k])
  /\ UNCHANGED <<row, may, upsets, overtaken>>

(* The stored token is checked against the stored account; a deployment    *)
(* also has the mail domains probed.                                       *)
StartRefresh(w, r, target) ==
  /\ Live(r)
  /\ Begin(w, [Idle EXCEPT !.pc = "identity", !.op = "refresh", !.row = r,
                           !.token = row[r].token, !.want = row[r].cf,
                           !.target = target])
  /\ UNCHANGED <<row, may, upsets, overtaken>>

(* A new token is checked against the row's account.                       *)
StartUpdate(w, r, t) ==
  /\ Live(r)
  /\ Begin(w, [Idle EXCEPT !.pc = "identity", !.op = "update", !.row = r, !.token = t,
                           !.want = row[r].cf])
  /\ UNCHANGED <<row, may, upsets, overtaken>>

Delete(r) ==
  /\ Live(r)
  /\ row' = [row EXCEPT ![r].st = "deleted"]
  /\ UNCHANGED <<may, upsets, req, overtaken>>

-----------------------------------------------------------------------------
(* inspect_token_permissions.                                              *)

Ask(w, pc) == req[w].pc = pc

(* A failed step ends the check early with a report that has not passed:   *)
(* a refresh stores it, the other requests answer with it.                 *)
Fail(w) ==
  IF req[w].op = "refresh" THEN req' = [req EXCEPT ![w].pc = "commit"] ELSE End(w)
Pass(w, item, pc) ==
  req' = [req EXCEPT ![w].pc = pc, ![w].passed = @ \cup {item}]

(* Whether Cloudflare knows the token where it is asked for.               *)
KnownToUser(t) == t \in UserTokens /\ may[t] # {}
KnownToAccount(t, k) == t \notin UserTokens /\ \E p \in Abilities : <<k, p>> \in may[t]

(* An account token needs its account named.  A token without a known      *)
(* prefix that the user endpoint refuses is tried as an account token.     *)
Identity(w) ==
  LET q == req[w]
      retry == q.want # None /\ Prefix[q.token] = "bare"
  IN  /\ Ask(w, "identity")
      /\ \/ /\ Prefix[q.token] = "cfat"
            /\ IF q.want = None THEN Fail(w) ELSE req' = [req EXCEPT ![w].pc = "fallback"]
         \/ /\ Prefix[q.token] # "cfat" /\ KnownToUser(q.token)
            /\ Pass(w, "token", "zones")
         \/ /\ Prefix[q.token] # "cfat" /\ ~KnownToUser(q.token)
            /\ IF retry THEN req' = [req EXCEPT ![w].pc = "fallback"] ELSE Fail(w)
      /\ UNCHANGED <<row, may, upsets, overtaken>>

AccountIdentity(w) ==
  /\ Ask(w, "fallback")
  /\ IF KnownToAccount(req[w].token, req[w].want) THEN Pass(w, "token", "zones")
                                                   ELSE Fail(w)
  /\ UNCHANGED <<row, may, upsets, overtaken>>

(* Accounts a list of zones may name: those the token may read zones of,   *)
(* within the account asked for unless Cloudflare ignores the filter.      *)
Readable(t) == {k \in CfAccounts : <<k, "zone">> \in may[t]}
ZoneAnswers(t, want) ==
  IF want = None THEN {Readable(t)}
  ELSE {Readable(t) \cap {want}}
         \cup (IF "unfiltered" \in Faults THEN {Readable(t)} ELSE {})

(* Mutant: zones of other accounts in the answer are overlooked.           *)
ResolveAny(want, seen) == IF want # None THEN (IF seen = {} THEN {} ELSE {want}) ELSE seen

(* The account a list of zones stands for: none when it is empty or names  *)
(* another account than the one asked for.                                 *)
Resolve(want, seen) ==
  IF want = None THEN seen ELSE IF seen = {want} THEN {want} ELSE {}

ListZones(w) ==
  LET q == req[w]
  IN  /\ Ask(w, "zones")
      /\ \E seen \in ZoneAnswers(q.token, q.want) :
           IF Resolve(q.want, seen) = {} THEN Fail(w)
           ELSE \E k \in Resolve(q.want, seen) :
                  req' = [req EXCEPT ![w].pc = IF q.target THEN "settings" ELSE "addresses",
                            ![w].cf = k,
                            ![w].passed = @ \cup {"zone"} \cup
                               (IF q.target THEN {} ELSE Routing),
                            ![w].shown = {<<x, "zone">> : x \in Readable(q.token)}]
      /\ UNCHANGED <<row, may, upsets, overtaken>>

(* Mutant: only an answer that denies the permission fails the probe.      *)
PassesUnlessDenied(p, a) == a # "forbidden"

(* The routing settings are read.  Everything else is probed with a write  *)
(* that is invalid on purpose: only its refusal on the merits, or because  *)
(* the script is not there, shows the permission.                          *)
Passes(p, a) ==
  CASE p = "settings" -> a = "read"
    [] p = "workers"  -> a \in {"invalid", "absent"}
    [] OTHER          -> a = "invalid"

(* What Cloudflare answers when all is well.                               *)
Deserved(t, k, p) ==
  IF <<k, p>> \notin may[t] THEN {"forbidden"}
  ELSE CASE p = "settings" -> {"read"}
         [] p = "workers"  -> {"invalid", "absent"}
         [] OTHER          -> {"invalid"}
Odd == {"accepted", "busy", "unknown"}

NextItem == [settings |-> "rules", rules |-> "addresses", addresses |-> "sending",
             sending |-> "workers", workers |-> "commit"]

(* One item: the reads before the probe only add ways to fail.             *)
Answered(w, p, a) ==
  LET q == req[w]
  IN  req' = [req EXCEPT ![w].pc = NextItem[p],
                ![w].passed = IF Passes(p, a) THEN @ \cup {p} ELSE @,
                ![w].shown = @ \cup (may[q.token] \cap {<<q.cf, p>>})]

Probe(w, p) ==
  /\ Ask(w, p)
  /\ \E a \in Deserved(req[w].token, req[w].cf, p) : Answered(w, p, a)
  /\ UNCHANGED <<row, may, upsets, overtaken>>

(* A call gets no answer, or one that is not about the permission at all.  *)
Upset(w) ==
  /\ "odd" \in Faults /\ upsets < UpsetBound
  /\ upsets' = upsets + 1
  /\ \/ /\ req[w].pc \in {"identity", "fallback", "zones"}
        /\ Ask(w, "identity") => Prefix[req[w].token] # "cfat"
        /\ Fail(w)
     \/ \E p \in Routing \cup Probed, a \in Odd :
          Ask(w, p) /\ Answered(w, p, a)
  /\ UNCHANGED <<row, may, overtaken>>

-----------------------------------------------------------------------------
(* What the requests do with the report.                                   *)

AllPassed(w) == req[w].passed = Items

CommitBind(w) ==
  /\ Ask(w, "commit") /\ req[w].op = "bind"
  /\ IF AllPassed(w)
       THEN \E r \in RowIds :
              /\ row[r].st = "absent"
              /\ row' = [row EXCEPT ![r] =
                           [st |-> "live", cf |-> req[w].cf,
                            token |-> req[w].token, report |-> req[w].passed,
                            about |-> req[w].token, backing |-> req[w].shown,
                            proof |-> req[w].shown]]
       ELSE UNCHANGED row
  /\ End(w)
  /\ UNCHANGED <<may, upsets, overtaken>>

(* check-token answers with the report and stores nothing.                 *)
AnswerCheck(w) ==
  /\ Ask(w, "commit") /\ req[w].op = "bind"
  /\ End(w)
  /\ UNCHANGED <<row, may, upsets, overtaken>>

CommitRefresh(w) ==
  LET q == req[w]
  IN  /\ Ask(w, "commit") /\ q.op = "refresh"
      /\ row' = [row EXCEPT ![q.row].report = q.passed, ![q.row].about = q.token,
                           ![q.row].backing = q.shown]
      /\ End(w)
      /\ UNCHANGED <<may, upsets, overtaken>>

Refreshed(w, r) == \E v \in Workers \ {w} : req[v].op = "refresh" /\ req[v].row = r

(* Mutant: the report of the new token is not stored with it.              *)
CommitUpdateTokenOnly(w) ==
  LET q == req[w]
  IN  /\ Ask(w, "commit") /\ q.op = "update"
      /\ row' = IF AllPassed(w)
                  THEN [row EXCEPT ![q.row].token = q.token, ![q.row].proof = q.shown]
                  ELSE row
      /\ End(w)
      /\ UNCHANGED <<may, upsets, overtaken>>

(* A token whose report did not pass, or that stands for another account,  *)
(* changes nothing; otherwise token and report are written together.       *)
CommitUpdate(w) ==
  LET q == req[w]
  IN  /\ Ask(w, "commit") /\ q.op = "update"
      /\ IF ~AllPassed(w) \/ q.cf # q.want
           THEN UNCHANGED <<row, overtaken>>
           ELSE /\ row' = [row EXCEPT ![q.row].token = q.token,
                             ![q.row].report = q.passed, ![q.row].about = q.token,
                             ![q.row].backing = q.shown, ![q.row].proof = q.shown]
                /\ overtaken' = IF Refreshed(w, q.row) THEN overtaken \cup {q.row}
                                                       ELSE overtaken
      /\ End(w)
      /\ UNCHANGED <<may, upsets>>

-----------------------------------------------------------------------------
(* Around the platform.                                                    *)

(* The owner edits a token at Cloudflare: a right less, all of them gone,  *)
(* or all of them back.                                                    *)
Edit(t, rights) ==
  /\ upsets < UpsetBound
  /\ rights # may[t]
  /\ upsets' = upsets + 1
  /\ may' = [may EXCEPT ![t] = rights]
  /\ UNCHANGED <<row, req, overtaken>>

Edited(t) == {{}, Granted[t]} \cup {may[t] \ {x} : x \in Revocable}

(* The process dies: what it was doing is lost, nothing is rolled back.    *)
Crash ==
  /\ "crash" \in Faults
  /\ req' = [w \in Workers |-> Idle]
  /\ UNCHANGED <<row, may, upsets, overtaken>>

Inspect(w) ==
  \/ Identity(w) \/ AccountIdentity(w) \/ ListZones(w) \/ Upset(w)
  \/ \E p \in Routing \cup Probed : Probe(w, p)

Commit(w) ==
  \/ CommitBind(w) \/ AnswerCheck(w)
  \/ CommitRefresh(w) \/ CommitUpdate(w)

Start(w) ==
  \/ \E t \in Tokens, k \in CfAccounts \cup {None} :
       StartBind(w, t, k)
  \/ \E r \in RowIds :
       \/ \E target \in BOOLEAN : StartRefresh(w, r, target)
       \/ \E t \in Tokens : StartUpdate(w, r, t)

Around ==
  \/ \E r \in RowIds : Delete(r)
  \/ \E t \in Tokens : \E rights \in Edited(t) : Edit(t, rights)
  \/ Crash

Next ==
  \/ \E w \in Workers : Start(w) \/ Inspect(w) \/ Commit(w)
  \/ Around

Spec == Init /\ [][Next]_vars

-----------------------------------------------------------------------------
(* Properties.                                                             *)

(* The token stored in a bound account has shown every permission the      *)
(* account level needs, for the very account it is stored under, whichever *)
(* way it got there and whatever Cloudflare answered on the way            *)
(* (bind_cf_account, update_cf_account, inspect_token_permissions).        *)
StoredTokenProved ==
  \A r \in RowIds : Live(r) =>
    \A p \in {"zone"} \cup Probed : <<row[r].cf, p>> \in row[r].proof

(* What a stored report says the account level passed, its token did show, *)
(* also after a refresh that met trouble half-way                          *)
(* (refresh_cf_account_permissions, _classify_write_probe_response).       *)
ReportVouched ==
  \A r \in RowIds : \A p \in row[r].report \cap ({"zone"} \cup Probed) :
    <<row[r].cf, p>> \in row[r].backing

(* The stored report is that of the stored token, unless the token was     *)
(* replaced while a refresh of the old one was on its way: that refresh    *)
(* overwrites the newer report (cf_permission_service.py:710-720).         *)
ReportOfStoredToken ==
  \A r \in RowIds : row[r].about = row[r].token \/ r \in overtaken
=============================================================================
