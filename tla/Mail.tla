-------------------------------- MODULE Mail --------------------------------
(***************************************************************************)
(* Mail out and mail in.  A user sends a message with a session, a public  *)
(* link or an API key: the key is looked up and stamped, the sender        *)
(* resolved, Cloudflare called, and only then a row committed that says    *)
(* what came of it.  A letter that arrives is posted by the Email Worker,  *)
(* stored, and answered.  Answers get lost and the process may die at any  *)
(* step; whoever does not hear of a success tries again.                   *)
(***************************************************************************)
EXTENDS Naturals, FiniteSets

CONSTANTS
  Workers,   \* requests the platform may handle at the same time
  Keys,      \* API keys
  Messages,  \* messages users want to send
  Letters,   \* letters that arrive for the platform's mailboxes
  MaxTries,  \* bounds the attempts for one message or letter
  None,      \* no key: a session or a public link; no message
  Faults     \* what may go wrong: a subset of FaultKinds

FaultKinds == {"refused", "lost", "crash"}
Scopes == {"send", "read_inbound"}

ASSUME MaxTriesIsNat == MaxTries \in Nat
ASSUME NoneIsApart == None \notin Keys /\ None \notin Messages
ASSUME WorkersAreFinite == IsFiniteSet(Workers)
ASSUME FaultsAreKnown == Faults \subseteq FaultKinds

VARIABLES
  key,       \* the rows of api_key
  usable,    \* whether the sender's address and account may be used
  req,       \* the request each worker handles
  row,       \* rows of outbound_email by message and status
  accepted,  \* how often Cloudflare took a message on
  known,     \* messages whose user was answered "sent"
  tries,     \* attempts made for a message or letter
  calls,     \* history: calls made to Cloudflare, by message
  letter,    \* where each letter is
  stored,    \* rows of inbound_email by letter
  doubt,     \* history: messages and letters whose success went unheard
  died       \* history: calls to Cloudflare the process died in, by message

mailVars == <<row, accepted, known, tries, calls, died>>
letterVars == <<letter, stored>>
vars == <<key, usable, req, mailVars, letterVars, doubt>>

Key == [st : {"none", "live", "deleted"}, active : BOOLEAN, scopes : SUBSET Scopes,
        stamped : BOOLEAN]
NoKey == [st |-> "none", active |-> FALSE, scopes |-> {}, stamped |-> FALSE]

(* "seen" is the key's row as loaded, "result" what became of the call.    *)
Request == [pc : {"idle", "stamp", "resolve", "call", "record", "rekey", "dropkey"},
            key : Keys \cup {None}, msg : Messages \cup {None}, seen : Key,
            result : {"none", "sent", "failed"}]
Idle == [pc |-> "idle", key |-> None, msg |-> None, seen |-> NoKey, result |-> "none"]

TypeOK ==
  /\ key \in [Keys -> Key]
  /\ usable \in BOOLEAN
  /\ req \in [Workers -> Request]
  /\ row \in [Messages -> [{"sent", "failed"} -> Nat]]
  /\ accepted \in [Messages -> Nat]
  /\ known \subseteq Messages
  /\ tries \in [Messages \cup Letters -> 0 .. MaxTries]
  /\ calls \in [Messages -> Nat]
  /\ letter \in [Letters -> {"outside", "posted", "stored", "taken"}]
  /\ stored \in [Letters -> Nat]
  /\ doubt \subseteq Messages \cup Letters
  /\ died \in [Messages -> Nat]

Init ==
  /\ key = [k \in Keys |-> NoKey]
  /\ usable = TRUE
  /\ req = [w \in Workers |-> Idle]
  /\ row = [m \in Messages |-> [s \in {"sent", "failed"} |-> 0]]
  /\ accepted = [m \in Messages |-> 0]
  /\ known = {}
  /\ tries = [x \in Messages \cup Letters |-> 0]
  /\ calls = [m \in Messages |-> 0]
  /\ letter = [l \in Letters |-> "outside"]
  /\ stored = [l \in Letters |-> 0]
  /\ doubt = {}
  /\ died = [m \in Messages |-> 0]

Ask(w, pc) == req[w].pc = pc
Begin(w, q) == req[w] = Idle /\ req' = [req EXCEPT ![w] = q]
End(w) == req' = [req EXCEPT ![w] = Idle]
Works(k) == key[k].st = "live" /\ key[k].active

-----------------------------------------------------------------------------
(* API keys, by their owner.                                               *)

CreateKey(k, scopes) ==
  /\ key[k].st = "none"
  /\ key' = [key EXCEPT ![k] = [st |-> "live", active |-> TRUE, scopes |-> scopes,
                                stamped |-> FALSE]]
  /\ UNCHANGED <<usable, req, mailVars, letterVars, doubt>>

StartKey(w, k, pc) ==
  /\ key[k].st = "live"
  /\ Begin(w, [Idle EXCEPT !.pc = pc, !.key = k, !.seen = key[k]])
  /\ UNCHANGED <<key, usable, mailVars, letterVars, doubt>>

(* Only columns that differ from the loaded row are written.               *)
Written(new, seen, now) == IF new = seen THEN now ELSE new

(* update_api_key: is_active and scopes, each given or not.                *)
UpdateKey(w, active, scopes) ==
  LET k == req[w].key
  IN  /\ Ask(w, "rekey")
      /\ key' = [key EXCEPT ![k].active = Written(active, req[w].seen.active, @),
                            ![k].scopes = Written(scopes, req[w].seen.scopes, @)]
      /\ End(w)
      /\ UNCHANGED <<usable, mailVars, letterVars, doubt>>

DeleteKey(w) ==
  LET k == req[w].key
  IN  /\ Ask(w, "dropkey")
      /\ key' = [key EXCEPT ![k].st = "deleted",
                            ![k].active = Written(FALSE, req[w].seen.active, @)]
      /\ End(w)
      /\ UNCHANGED <<usable, mailVars, letterVars, doubt>>

-----------------------------------------------------------------------------
(* Sending.                                                                *)

(* A user who was not told "sent" sends, and who stopped listening may do  *)
(* so while the last request for the message still runs.                   *)
Under(m) == {w \in Workers : req[w].msg = m}
Want(m) ==
  /\ m \notin known /\ tries[m] < MaxTries
  /\ tries' = [tries EXCEPT ![m] = @ + 1]
  /\ Under(m) # {} => "lost" \in Faults
  /\ doubt' = IF Under(m) = {} THEN doubt ELSE doubt \cup {m}

(* A session or a public link.                                             *)
StartSend(w, m) ==
  /\ Want(m)
  /\ Begin(w, [Idle EXCEPT !.pc = "resolve", !.msg = m])
  /\ UNCHANGED <<key, usable, row, accepted, known, calls, died, letterVars>>

(* authenticate_api_key loads a key that works and has the scope; any      *)
(* other answers 401 or 403.                                               *)
StartSendByKey(w, m, k) ==
  /\ Want(m)
  /\ Works(k) /\ "send" \in key[k].scopes
  /\ Begin(w, [Idle EXCEPT !.pc = "stamp", !.msg = m, !.key = k, !.seen = key[k]])
  /\ UNCHANGED <<key, usable, row, accepted, known, calls, died, letterVars>>

(* Mutant: the whole loaded row is written back.                           *)
StampWhole(w) ==
  /\ Ask(w, "stamp")
  /\ key' = [key EXCEPT ![req[w].key] = [req[w].seen EXCEPT !.stamped = TRUE]]
  /\ req' = [req EXCEPT ![w].pc = "resolve"]
  /\ UNCHANGED <<usable, mailVars, letterVars, doubt>>

(* last_used_at alone is written.                                          *)
Stamp(w) ==
  /\ Ask(w, "stamp")
  /\ key' = [key EXCEPT ![req[w].key].stamped = TRUE]
  /\ req' = [req EXCEPT ![w].pc = "resolve"]
  /\ UNCHANGED <<usable, mailVars, letterVars, doubt>>

(* _resolve_sender, send_email_from_address and build_client: an address   *)
(* or account that may not be used ends the request before any record.     *)
Resolve(w) ==
  /\ Ask(w, "resolve")
  /\ IF usable THEN req' = [req EXCEPT ![w].pc = "call"] ELSE End(w)
  /\ UNCHANGED <<key, usable, mailVars, letterVars, doubt>>

Took(m) == accepted' = [accepted EXCEPT ![m] = @ + 1]

(* Mutant: the call's outcome and the step it leads to are mixed up.       *)
CalledSwapped(w, result) ==
  /\ Ask(w, "call")
  /\ req' = [req EXCEPT ![w].pc = result, ![w].result = "record"]
  /\ calls' = [calls EXCEPT ![req[w].msg] = @ + 1]

Called(w, result) ==
  /\ Ask(w, "call")
  /\ req' = [req EXCEPT ![w].pc = "record", ![w].result = result]
  /\ calls' = [calls EXCEPT ![req[w].msg] = @ + 1]

Accept(w) ==
  /\ Called(w, "sent") /\ Took(req[w].msg)
  /\ UNCHANGED <<key, usable, row, known, tries, died, letterVars, doubt>>

Refuse(w) ==
  /\ "refused" \in Faults
  /\ Called(w, "failed")
  /\ UNCHANGED <<key, usable, row, accepted, known, tries, died, letterVars, doubt>>

(* Cloudflare takes the message and its answer is lost or comes too late:  *)
(* to the platform that is an error like any other.                        *)
LoseAcceptance(w) ==
  /\ "lost" \in Faults
  /\ Called(w, "failed") /\ Took(req[w].msg)
  /\ doubt' = doubt \cup {req[w].msg}
  /\ UNCHANGED <<key, usable, row, known, tries, died, letterVars>>

(* Mutant: a failed send leaves no row.                                    *)
RecordedIfSent(r, result) == IF result = "sent" THEN [r EXCEPT ![result] = @ + 1] ELSE r

Recorded(r, result) == [r EXCEPT ![result] = @ + 1]

(* Mutant: every answer tells the user that the send failed.               *)
ToldFailed(m, result, heard) == known

(* A user who hears "sent" is done.                                        *)
Told(m, result, heard) == IF heard /\ result = "sent" THEN known \cup {m} ELSE known

(* The row is committed with the outcome and the user answered, who may    *)
(* have stopped listening.                                                 *)
Record(w, heard) ==
  LET m == req[w].msg
      result == req[w].result
  IN  /\ Ask(w, "record")
      /\ heard \/ "lost" \in Faults
      /\ row' = [row EXCEPT ![m] = Recorded(@, result)]
      /\ known' = Told(m, result, heard)
      /\ doubt' = IF result = "sent" /\ ~heard THEN doubt \cup {m} ELSE doubt
      /\ End(w)
      /\ UNCHANGED <<key, usable, accepted, tries, calls, died, letterVars>>

-----------------------------------------------------------------------------
(* Receiving.                                                              *)

(* The letter's sender hands it to Cloudflare, whose Worker posts it.      *)
Post(l) ==
  /\ letter[l] = "outside" /\ tries[l] < MaxTries
  /\ letter' = [letter EXCEPT ![l] = "posted"]
  /\ tries' = [tries EXCEPT ![l] = @ + 1]
  /\ UNCHANGED <<key, usable, req, row, accepted, known, calls, died, stored, doubt>>

(* Mutant: the Worker is answered before the row is committed.             *)
StoreLate(l) ==
  /\ letter[l] = "posted"
  /\ letter' = [letter EXCEPT ![l] = "stored"]
  /\ UNCHANGED <<key, usable, req, mailVars, stored, doubt>>

(* process_webhook commits a row for what it can verify and parse.         *)
Store(l) ==
  /\ letter[l] = "posted"
  /\ letter' = [letter EXCEPT ![l] = "stored"]
  /\ stored' = [stored EXCEPT ![l] = @ + 1]
  /\ UNCHANGED <<key, usable, req, mailVars, doubt>>

(* A signature that does not verify, a payload too large or invalid.       *)
RejectLetter(l) ==
  /\ "refused" \in Faults
  /\ letter[l] = "posted"
  /\ letter' = [letter EXCEPT ![l] = "outside"]
  /\ UNCHANGED <<key, usable, req, mailVars, stored, doubt>>

(* The Worker hears of the row and takes the letter on.                    *)
Take(l) ==
  /\ letter[l] = "stored"
  /\ letter' = [letter EXCEPT ![l] = "taken"]
  /\ UNCHANGED <<key, usable, req, mailVars, stored, doubt>>

(* It does not: it rejects the letter, whose sender may try again.         *)
LoseAnswer(l) ==
  /\ "lost" \in Faults
  /\ letter[l] = "stored"
  /\ letter' = [letter EXCEPT ![l] = "outside"]
  /\ doubt' = doubt \cup {l}
  /\ UNCHANGED <<key, usable, req, mailVars, stored>>

-----------------------------------------------------------------------------
(* Around both.                                                            *)

(* The sender's address or account is switched off, or on again.           *)
SwitchSender ==
  /\ usable' = ~usable
  /\ UNCHANGED <<key, req, mailVars, letterVars, doubt>>

(* The process dies with what is in memory: a record not yet committed,    *)
(* and whatever it had to answer.                                          *)
Calling(m) == {w \in Workers : req[w].msg = m /\ Ask(w, "record")}
Crash ==
  /\ "crash" \in Faults
  /\ req' = [w \in Workers |-> Idle]
  /\ died' = [m \in Messages |-> died[m] + Cardinality(Calling(m))]
  /\ letter' = [l \in Letters |-> IF letter[l] \in {"posted", "stored"} THEN "outside"
                                                                      ELSE letter[l]]
  /\ doubt' = doubt \cup {m \in Messages : \E w \in Calling(m) : req[w].result = "sent"}
                    \cup {l \in Letters : letter[l] = "stored"}
  /\ UNCHANGED <<key, usable, row, accepted, known, tries, calls, stored>>

Next ==
  \/ \E k \in Keys, scopes \in SUBSET Scopes \ {{}} : CreateKey(k, scopes)
  \/ \E w \in Workers, k \in Keys, pc \in {"rekey", "dropkey"} : StartKey(w, k, pc)
  \/ \E w \in Workers, active \in BOOLEAN, scopes \in SUBSET Scopes \ {{}} :
       UpdateKey(w, active, scopes)
  \/ \E w \in Workers, m \in Messages :
       StartSend(w, m) \/ \E k \in Keys : StartSendByKey(w, m, k)
  \/ \E w \in Workers :
       \/ DeleteKey(w) \/ Stamp(w) \/ Resolve(w)
       \/ Accept(w) \/ Refuse(w) \/ LoseAcceptance(w)
       \/ \E heard \in BOOLEAN : Record(w, heard)
  \/ \E l \in Letters :
       Post(l) \/ Store(l) \/ RejectLetter(l) \/ Take(l) \/ LoseAnswer(l)
  \/ SwitchSender
  \/ Crash

Spec == Init /\ [][Next]_vars

-----------------------------------------------------------------------------
(* Properties.                                                             *)

(* A message goes out twice only when someone did not wait for, or hear,   *)
(* an answer: Cloudflare's or the platform's was lost, the user gave up on *)
(* a request still running, or the process died with it                    *)
(* (_send_with_resolved_sender).                                           *)
TwiceOnlyInDoubt == \A m \in Messages : accepted[m] > 1 => m \in doubt

(* Every call to Cloudflare leaves exactly one row, except for those the   *)
(* process died in, and what Cloudflare took on is on record as sent,      *)
(* except for the answers that were lost; nothing else is                  *)
(* (_send_with_resolved_sender).                                           *)
RecordsAddUp ==
  \A m \in Messages :
    /\ calls[m] = row[m]["sent"] + row[m]["failed"] + died[m] + Cardinality(Calling(m))
    /\ row[m]["sent"] <= accepted[m]
    /\ m \notin doubt => accepted[m] = row[m]["sent"]
         + Cardinality({w \in Calling(m) : req[w].result = "sent"})

(* A letter the Worker took on is stored, and it is stored twice only when *)
(* an answer went unheard (process_webhook, the Worker's email handler).   *)
TakenLettersAreStored ==
  \A l \in Letters : /\ letter[l] = "taken" => stored[l] > 0
                     /\ stored[l] > 1 => l \in doubt

(* A key that was switched off or deleted works again only through an      *)
(* update by its owner, never because a request that had loaded it before  *)
(* stamps its use afterwards (authenticate_api_key).                       *)
KeyOffStaysOff ==
  [][\A k \in Keys : key[k].st # "none" /\ ~Works(k) /\ Works(k)' =>
       \E w \in Workers : Ask(w, "rekey") /\ req[w].key = k]_vars
=============================================================================
