----------------------------- MODULE MailProofs -----------------------------
(***************************************************************************)
(* Theorems about Mail, for any number of workers, keys, messages and      *)
(* letters, and every combination of faults.                               *)
(***************************************************************************)
EXTENDS Mail, FiniteSetTheorems, TLAPS

-----------------------------------------------------------------------------
(* Types.                                                                  *)

(* A request knows the key or the message its next step is about.          *)
ReqOK(q) ==
  /\ q.pc = "idle" => q = Idle
  /\ q.pc \in {"stamp", "rekey", "dropkey"} => q.key \in Keys
  /\ q.pc \in {"stamp", "resolve", "call", "record"} => q.msg \in Messages
  /\ q.pc \in {"rekey", "dropkey"} => q.msg = None
  /\ q.pc = "record" => q.result \in {"sent", "failed"}

TInv == TypeOK /\ \A w \in Workers : ReqOK(req[w])

LEMMA IdleOK == Idle \in Request /\ NoKey \in Key /\ ReqOK(Idle)
  BY DEF Idle, Request, NoKey, Key, ReqOK, Scopes

OthersTyped ==
  /\ key \in [Keys -> Key]
  /\ usable \in BOOLEAN
  /\ row \in [Messages -> [{"sent", "failed"} -> Nat]]
  /\ accepted \in [Messages -> Nat]
  /\ known \subseteq Messages
  /\ tries \in [Messages \cup Letters -> 0 .. MaxTries]
  /\ calls \in [Messages -> Nat]
  /\ letter \in [Letters -> {"outside", "posted", "stored", "taken"}]
  /\ stored \in [Letters -> Nat]
  /\ doubt \subseteq Messages \cup Letters
  /\ died \in [Messages -> Nat]

(* A step that gives one worker a well-formed request keeps the types.     *)
LEMMA ReqKeeps ==
  ASSUME TInv, OthersTyped', NEW w \in Workers, NEW q \in Request, ReqOK(q),
         req' = [req EXCEPT ![w] = q]
  PROVE  TInv'
<1>1. \A x \in Workers : req'[x] = IF x = w THEN q ELSE req[x]
  BY DEF TInv, TypeOK
<1>2. req' \in [Workers -> Request]
  BY DEF TInv, TypeOK
<1> QED
  BY <1>1, <1>2 DEF TInv, TypeOK, OthersTyped, ReqOK

LEMMA EndKeeps ==
  ASSUME TInv, OthersTyped', NEW w \in Workers, End(w)
  PROVE  TInv'
  BY IdleOK, ReqKeeps DEF End

LEMMA KeyTyped ==
  ASSUME TInv, NEW w \in Workers, NEW k \in Keys, NEW pc \in {"rekey", "dropkey"},
         StartKey(w, k, pc)
  PROVE  TInv'
<1> DEFINE q == [Idle EXCEPT !.pc = pc, !.key = k, !.seen = key[k]]
<1>1. q \in Request /\ ReqOK(q)
  BY IdleOK DEF TInv, TypeOK, Idle, Request, ReqOK
<1>2. OthersTyped' /\ req' = [req EXCEPT ![w] = q]
  BY DEF StartKey, Begin, TInv, TypeOK, OthersTyped, mailVars, letterVars
<1> QED
  BY <1>1, <1>2, ReqKeeps

LEMMA OwnerTyped ==
  ASSUME TInv, NEW w \in Workers, NEW active \in BOOLEAN, NEW scopes \in SUBSET Scopes,
         UpdateKey(w, active, scopes) \/ DeleteKey(w)
  PROVE  TInv'
<1>1. req[w].key \in Keys /\ key[req[w].key] \in Key
  BY DEF TInv, TypeOK, ReqOK, UpdateKey, DeleteKey, Ask
<1>2. key' \in [Keys -> Key]
  <2> DEFINE k == req[w].key
             a == Written(active, req[w].seen.active, key[k].active)
             s == Written(scopes, req[w].seen.scopes, key[k].scopes)
             d == Written(FALSE, req[w].seen.active, key[k].active)
  <2>1. a \in BOOLEAN /\ d \in BOOLEAN /\ s \in SUBSET Scopes
    BY <1>1 DEF Written, Key
  <2>2. CASE UpdateKey(w, active, scopes)
    <3>1. [key[k] EXCEPT !.active = a, !.scopes = s] \in Key
      BY <1>1, <2>1 DEF Key
    <3>2. key' = [key EXCEPT ![k] = [key[k] EXCEPT !.active = a, !.scopes = s]]
      BY <2>2 DEF UpdateKey
    <3> QED
      BY <1>1, <3>1, <3>2 DEF TInv, TypeOK
  <2>3. CASE DeleteKey(w)
    <3>1. [key[k] EXCEPT !.st = "deleted", !.active = d] \in Key
      BY <1>1, <2>1 DEF Key
    <3>2. key' = [key EXCEPT ![k] = [key[k] EXCEPT !.st = "deleted", !.active = d]]
      BY <2>3 DEF DeleteKey
    <3> QED
      BY <1>1, <3>1, <3>2 DEF TInv, TypeOK
  <2> QED
    BY <2>2, <2>3
<1>3. End(w) /\ UNCHANGED <<usable, mailVars, letterVars, doubt>>
  BY DEF UpdateKey, DeleteKey
<1>4. OthersTyped'
  BY <1>2, <1>3 DEF TInv, TypeOK, OthersTyped, mailVars, letterVars
<1> QED
  BY <1>3, <1>4, EndKeeps

LEMMA SendTyped ==
  ASSUME TInv, NEW w \in Workers, NEW m \in Messages,
         StartSend(w, m) \/ \E k \in Keys : StartSendByKey(w, m, k)
  PROVE  TInv'
<1>1. tries[m] \in 0 .. MaxTries /\ Want(m)
  BY DEF TInv, TypeOK, StartSend, StartSendByKey
<1>2. tries' \in [Messages \cup Letters -> 0 .. MaxTries] /\ doubt' \subseteq Messages \cup Letters
  <2>1. tries' = [tries EXCEPT ![m] = tries[m] + 1] /\ tries[m] + 1 \in 0 .. MaxTries
    BY <1>1, MaxTriesIsNat DEF Want
  <2> QED
    BY <1>1, <2>1 DEF Want, TInv, TypeOK
<1>3. OthersTyped'
  BY <1>2 DEF StartSend, StartSendByKey, TInv, TypeOK, OthersTyped, letterVars
<1>4. CASE StartSend(w, m)
  <2> DEFINE q == [Idle EXCEPT !.pc = "resolve", !.msg = m]
  <2>1. q \in Request /\ ReqOK(q)
    BY IdleOK DEF Idle, Request, ReqOK
  <2>2. req' = [req EXCEPT ![w] = q]
    BY <1>4 DEF StartSend, Begin
  <2> QED
    BY <1>3, <2>1, <2>2, ReqKeeps
<1>5. ASSUME NEW k \in Keys, StartSendByKey(w, m, k) PROVE TInv'
  <2> DEFINE q == [Idle EXCEPT !.pc = "stamp", !.msg = m, !.key = k, !.seen = key[k]]
  <2>1. q \in Request /\ ReqOK(q)
    BY IdleOK DEF TInv, TypeOK, Idle, Request, ReqOK
  <2>2. req' = [req EXCEPT ![w] = q]
    BY <1>5 DEF StartSendByKey, Begin
  <2> QED
    BY <1>3, <2>1, <2>2, ReqKeeps
<1> QED
  BY <1>4, <1>5

LEMMA StampTyped ==
  ASSUME TInv, NEW w \in Workers, Stamp(w) \/ Resolve(w)
  PROVE  TInv'
<1>1. req[w] \in Request /\ ReqOK(req[w]) /\ req[w].pc \in {"stamp", "resolve"}
  BY DEF TInv, TypeOK, Stamp, Resolve, Ask
<1>2. key' \in [Keys -> Key]
  <2>1. CASE Stamp(w)
    <3>1. req[w].key \in Keys
      BY <1>1, <2>1 DEF Stamp, Ask, ReqOK
    <3>2. key[req[w].key] \in Key
      BY <3>1 DEF TInv, TypeOK
    <3>3. [key[req[w].key] EXCEPT !.stamped = TRUE] \in Key
      BY <3>2 DEF Key
    <3>4. key' = [key EXCEPT ![req[w].key] = [key[req[w].key] EXCEPT !.stamped = TRUE]]
      BY <2>1 DEF Stamp
    <3> QED
      BY <3>1, <3>3, <3>4 DEF TInv, TypeOK
  <2> QED
    BY <2>1 DEF Resolve, TInv, TypeOK
<1>3. OthersTyped'
  BY <1>2 DEF Stamp, Resolve, TInv, TypeOK, OthersTyped, mailVars, letterVars
<1>4. ASSUME NEW pc \in {"resolve", "call"}, req' = [req EXCEPT ![w].pc = pc] PROVE TInv'
  <2> DEFINE q == [req[w] EXCEPT !.pc = pc]
  <2>1. q \in Request /\ ReqOK(q)
    BY <1>1 DEF Request, ReqOK
  <2>2. req' = [req EXCEPT ![w] = q]
    BY <1>4
  <2> QED
    BY <1>3, <2>1, <2>2, ReqKeeps
<1>5. CASE End(w)
  BY <1>3, <1>5, EndKeeps
<1> QED
  BY <1>4, <1>5 DEF Stamp, Resolve

LEMMA CallTyped ==
  ASSUME TInv, NEW w \in Workers, Accept(w) \/ Refuse(w) \/ LoseAcceptance(w)
  PROVE  TInv'
<1>1. PICK result \in {"sent", "failed"} : Called(w, result)
  BY DEF Accept, Refuse, LoseAcceptance
<1>2. req[w] \in Request /\ req[w].pc = "call" /\ req[w].msg \in Messages
  BY <1>1 DEF Called, Ask, TInv, TypeOK, ReqOK
<1>3. calls' \in [Messages -> Nat] /\ accepted' \in [Messages -> Nat]
  <2>1. calls[req[w].msg] + 1 \in Nat /\ accepted[req[w].msg] + 1 \in Nat
    BY <1>2 DEF TInv, TypeOK
  <2>2. calls' = [calls EXCEPT ![req[w].msg] = calls[req[w].msg] + 1]
    BY <1>1 DEF Called
  <2>3. \/ accepted' = accepted
        \/ accepted' = [accepted EXCEPT ![req[w].msg] = accepted[req[w].msg] + 1]
    BY DEF Accept, Refuse, LoseAcceptance, Took
  <2> QED
    BY <2>1, <2>2, <2>3 DEF TInv, TypeOK
<1>4. OthersTyped'
  BY <1>2, <1>3
  DEF Accept, Refuse, LoseAcceptance, TInv, TypeOK, OthersTyped, letterVars
<1> DEFINE q == [req[w] EXCEPT !.pc = "record", !.result = result]
<1>5. q \in Request /\ ReqOK(q)
  BY <1>2 DEF Request, ReqOK
<1>6. req' = [req EXCEPT ![w] = q]
  BY <1>1 DEF Called
<1> QED
  BY <1>4, <1>5, <1>6, ReqKeeps

LEMMA RecordTyped ==
  ASSUME TInv, NEW w \in Workers, NEW heard \in BOOLEAN, Record(w, heard)
  PROVE  TInv'
<1>1. req[w].msg \in Messages /\ req[w].result \in {"sent", "failed"}
  BY DEF Record, Ask, TInv, TypeOK, ReqOK
<1>2. Recorded(row[req[w].msg], req[w].result) \in [{"sent", "failed"} -> Nat]
  BY <1>1 DEF Recorded, TInv, TypeOK
<1>3. row' \in [Messages -> [{"sent", "failed"} -> Nat]]
  BY <1>1, <1>2 DEF Record, TInv, TypeOK
<1>4. known' \subseteq Messages /\ doubt' \subseteq Messages \cup Letters
  BY <1>1 DEF Record, Told, TInv, TypeOK
<1>5. OthersTyped' /\ End(w)
  BY <1>3, <1>4 DEF Record, TInv, TypeOK, OthersTyped, letterVars
<1> QED
  BY <1>5, EndKeeps

LEMMA LetterTyped ==
  ASSUME TInv, NEW l \in Letters,
         Post(l) \/ Store(l) \/ RejectLetter(l) \/ Take(l) \/ LoseAnswer(l)
  PROVE  TInv'
<1>1. CASE Post(l)
  <2>1. tries[l] + 1 \in 0 .. MaxTries
    BY <1>1, MaxTriesIsNat DEF Post, TInv, TypeOK
  <2> QED
    BY <1>1, <2>1 DEF Post, TInv, TypeOK
<1>2. CASE Store(l)
  BY <1>2 DEF Store, TInv, TypeOK, mailVars
<1>3. CASE RejectLetter(l) \/ Take(l) \/ LoseAnswer(l)
  BY <1>3 DEF RejectLetter, Take, LoseAnswer, TInv, TypeOK, mailVars
<1> QED
  BY <1>1, <1>2, <1>3

(* The requests about to be recorded are finitely many.                    *)
LEMMA CallingFinite ==
  ASSUME NEW m \in Messages
  PROVE  IsFiniteSet(Calling(m)) /\ Cardinality(Calling(m)) \in Nat
<1>1. Calling(m) \subseteq Workers
  BY DEF Calling
<1> QED
  BY <1>1, WorkersAreFinite, FS_Subset, FS_CardinalityType

LEMMA CrashTyped == ASSUME TInv, Crash PROVE TInv'
<1>1. died' \in [Messages -> Nat]
  BY CallingFinite DEF Crash, TInv, TypeOK
<1>2. letter' \in [Letters -> {"outside", "posted", "stored", "taken"}]
  BY DEF Crash, TInv, TypeOK
<1>3. doubt' \subseteq Messages \cup Letters
  BY DEF Crash, TInv, TypeOK
<1>4. req' \in [Workers -> Request] /\ \A w \in Workers : ReqOK(req'[w])
  BY IdleOK DEF Crash
<1> QED
  BY <1>1, <1>2, <1>3, <1>4 DEF Crash, TInv, TypeOK, ReqOK

LEMMA TypeStep == ASSUME TInv, [Next]_vars PROVE TInv'
<1>1. ASSUME NEW k \in Keys, NEW scopes \in SUBSET Scopes, CreateKey(k, scopes) PROVE TInv'
  <2>1. [st |-> "live", active |-> TRUE, scopes |-> scopes, stamped |-> FALSE] \in Key
    BY DEF Key
  <2> QED
    BY <1>1, <2>1 DEF CreateKey, TInv, TypeOK, mailVars, letterVars
<1>2. CASE SwitchSender \/ UNCHANGED vars
  BY <1>2 DEF SwitchSender, TInv, TypeOK, vars, mailVars, letterVars
<1> QED
  BY <1>1, <1>2, KeyTyped, OwnerTyped, SendTyped, StampTyped, CallTyped, RecordTyped,
     LetterTyped, CrashTyped DEF Next

LEMMA TypeStarts == ASSUME Init PROVE TInv
  BY IdleOK, MaxTriesIsNat DEF Init, TInv, TypeOK

(* Every reachable state is well typed.                                    *)
THEOREM TypeCorrect == Spec => []TypeOK
<1>1. TInv => TypeOK
  BY DEF TInv
<1> QED
  BY <1>1, TypeStarts, TypeStep, PTL DEF Spec

-----------------------------------------------------------------------------
(* Letters.  A letter no success of which went unheard is stored once when *)
(* it got past process_webhook, and not at all before.                     *)
LetterOK(l) ==
  /\ letter[l] \in {"stored", "taken"} => stored[l] > 0
  /\ l \notin doubt => stored[l] = IF letter[l] \in {"stored", "taken"} THEN 1 ELSE 0

LettersOK == \A l \in Letters : LetterOK(l)

LEMMA LetterStep ==
  ASSUME TInv, LettersOK, [Next]_vars
  PROVE  LettersOK'
<1> SUFFICES ASSUME NEW l \in Letters PROVE LetterOK(l)'
  BY DEF LettersOK
<1> USE DEF LettersOK, LetterOK
<1>1. letter[l] \in {"outside", "posted", "stored", "taken"} /\ stored[l] \in Nat
  BY DEF TInv, TypeOK
<1>2. CASE UNCHANGED letterVars /\ doubt \subseteq doubt'
  BY <1>2 DEF letterVars
<1>3. ASSUME NEW x \in Letters,
             Post(x) \/ Store(x) \/ RejectLetter(x) \/ Take(x) \/ LoseAnswer(x)
      PROVE  LetterOK(l)'
  <2>1. CASE x = l
    BY <1>1, <1>3, <2>1 DEF Post, Store, RejectLetter, Take, LoseAnswer, TInv, TypeOK
  <2>2. CASE x # l
    BY <1>1, <1>3, <2>2 DEF Post, Store, RejectLetter, Take, LoseAnswer, TInv, TypeOK
  <2> QED
    BY <2>1, <2>2
<1>4. CASE Crash
  BY <1>1, <1>4 DEF Crash
<1> QED
  BY <1>2, <1>3, <1>4
  DEF Next, vars, letterVars, CreateKey, StartKey, UpdateKey, DeleteKey, StartSend,
      StartSendByKey, Want, Stamp, Resolve, Accept, Refuse, LoseAcceptance, Record,
      SwitchSender

(* Whatever answers get lost and whenever the process dies, a letter the   *)
(* Worker took on is stored, and a second row means that a success went    *)
(* unheard.                                                                *)
THEOREM NoLetterLost == Spec => []TakenLettersAreStored
<1>1. Init => TInv /\ LettersOK
  BY TypeStarts DEF Init, LettersOK, LetterOK
<1>2. (TInv /\ LettersOK) /\ [Next]_vars => (TInv /\ LettersOK)'
  BY TypeStep, LetterStep
<1>3. TInv /\ LettersOK => TakenLettersAreStored
  BY DEF TInv, TypeOK, LettersOK, LetterOK, TakenLettersAreStored
<1> QED
  BY <1>1, <1>2, <1>3, PTL DEF Spec

-----------------------------------------------------------------------------
(* Keys.                                                                   *)

LEMMA KeyStep ==
  ASSUME TInv, [Next]_vars, NEW k \in Keys, key[k].st # "none", ~Works(k), Works(k)'
  PROVE  \E w \in Workers : Ask(w, "rekey") /\ req[w].key = k
<1>0. key \in [Keys -> Key]
  BY DEF TInv, TypeOK
<1>1. ASSUME NEW x \in Keys, NEW scopes \in SUBSET Scopes, CreateKey(x, scopes) PROVE FALSE
  BY <1>0, <1>1 DEF CreateKey, Works
<1>2. ASSUME NEW w \in Workers, NEW active \in BOOLEAN, NEW scopes \in SUBSET Scopes,
             UpdateKey(w, active, scopes)
      PROVE  Ask(w, "rekey") /\ req[w].key = k
  BY <1>0, <1>2 DEF UpdateKey, Works
<1>3. ASSUME NEW w \in Workers, DeleteKey(w) PROVE FALSE
  <2> DEFINE x == req[w].key
             d == Written(FALSE, req[w].seen.active, key[x].active)
             q == [key[x] EXCEPT !.st = "deleted", !.active = d]
  <2>1. x \in Keys
    BY <1>3 DEF DeleteKey, Ask, TInv, ReqOK
  <2>2. key' = [key EXCEPT ![x] = q]
    BY <1>3 DEF DeleteKey
  <2>3. q.st = "deleted"
    BY <1>0, <2>1 DEF Key
  <2> HIDE DEF q, x
  <2>4. key'[k] = IF k = x THEN q ELSE key[k]
    BY <1>0, <2>1, <2>2
  <2> QED
    BY <2>3, <2>4 DEF Works
<1>4. ASSUME NEW w \in Workers, Stamp(w) PROVE FALSE
  <2>1. key'[k].st = key[k].st /\ key'[k].active = key[k].active
    BY <1>0, <1>4 DEF Stamp, Key
  <2> QED
    BY <2>1 DEF Works
<1>5. CASE UNCHANGED key
  BY <1>5 DEF Works
<1> QED
  BY <1>1, <1>2, <1>3, <1>4, <1>5
  DEF Next, vars, StartKey, StartSend, StartSendByKey, Resolve, Accept, Refuse,
      LoseAcceptance, Record, Post, Store, RejectLetter, Take, LoseAnswer, SwitchSender,
      Crash

(* A request that loaded a key before its owner switched it off never      *)
(* switches it on again by writing what it loaded.                         *)
THEOREM KeysStayOff == Spec => KeyOffStaysOff
<1> DEFINE StaysOff == \A k \in Keys : key[k].st # "none" /\ ~Works(k) /\ Works(k)' =>
                         \E w \in Workers : Ask(w, "rekey") /\ req[w].key = k
<1>1. TInv /\ [Next]_vars => [StaysOff]_vars
  BY KeyStep
<1> QED
  BY <1>1, TypeStarts, TypeStep, PTL DEF Spec, KeyOffStaysOff

-----------------------------------------------------------------------------
(* Sending.  A message nobody is in doubt about has one request at most;   *)
(* Cloudflare took it on only if its user was told, or that request is     *)
(* about to tell him.                                                      *)
AboutToTell(m) == {w \in Calling(m) : req[w].result = "sent"}

OnceOK(m) ==
  m \notin doubt =>
    /\ \A v, w \in Under(m) : v = w
    /\ accepted[m] \in {0, 1}
    /\ accepted[m] = 1 => (m \in known /\ Under(m) = {}) \/ AboutToTell(m) # {}

AllOnce == \A m \in Messages : OnceOK(m)

(* What a step changes for the requests of a message.                      *)
LEMMA Elsewhere ==
  ASSUME NEW m \in Messages, OnceOK(m), doubt \subseteq doubt',
         m \notin doubt' =>
           /\ accepted'[m] = accepted[m]
           /\ m \in known => m \in known'
           /\ Under(m)' = Under(m)
           /\ \A w \in Under(m) : /\ (req'[w].pc = "record") <=> (req[w].pc = "record")
                                  /\ req'[w].result = req[w].result
  PROVE  OnceOK(m)'
<1> SUFFICES ASSUME m \notin doubt' PROVE OnceOK(m)'
  BY DEF OnceOK
<1>1. m \notin doubt
  OBVIOUS
<1>2. /\ accepted'[m] = accepted[m]
      /\ m \in known => m \in known'
      /\ Under(m)' = Under(m)
      /\ \A w \in Under(m) : /\ (req'[w].pc = "record") <=> (req[w].pc = "record")
                             /\ req'[w].result = req[w].result
  BY <1>1
<1>3. \A w : w \in AboutToTell(m) <=> w \in Under(m) /\ req[w].pc = "record"
                                                   /\ req[w].result = "sent"
  BY DEF AboutToTell, Calling, Under, Ask
<1>4. \A w : w \in AboutToTell(m)' <=> w \in Under(m)' /\ req'[w].pc = "record"
                                                     /\ req'[w].result = "sent"
  BY DEF AboutToTell, Calling, Under, Ask
<1>5. AboutToTell(m)' = {} <=> AboutToTell(m) = {}
  BY <1>2, <1>3, <1>4
<1> QED
  BY <1>1, <1>2, <1>5 DEF OnceOK

(* A worker takes up something that is not the message.                    *)
LEMMA OtherWork ==
  ASSUME TInv, NEW m \in Messages, OnceOK(m), NEW w \in Workers, NEW q,
         req' = [req EXCEPT ![w] = q], req[w].msg # m, q.msg # m,
         doubt \subseteq doubt', m \notin doubt' => accepted'[m] = accepted[m],
         m \in known => m \in known'
  PROVE  OnceOK(m)'
<1>1. \A x \in Workers : req'[x] = IF x = w THEN q ELSE req[x]
  BY DEF TInv, TypeOK
<1>2. Under(m)' = Under(m) /\ \A x \in Under(m) : req'[x] = req[x]
  BY <1>1 DEF Under
<1> QED
  BY <1>2, Elsewhere

LEMMA OnceStep ==
  ASSUME TInv, AllOnce, [Next]_vars, NEW m \in Messages
  PROVE  OnceOK(m)'
<1>0. /\ OnceOK(m) /\ req \in [Workers -> Request] /\ accepted \in [Messages -> Nat]
      /\ \A w \in Workers : ReqOK(req[w])
      /\ m # None /\ Idle.msg = None
  BY NoneIsApart DEF AllOnce, TInv, TypeOK, Idle
<1>1. CASE UNCHANGED <<req, accepted, known>> /\ doubt \subseteq doubt'
  BY <1>0, <1>1, Elsewhere DEF Under
<1>2. ASSUME NEW w \in Workers, NEW k \in Keys, NEW pc \in {"rekey", "dropkey"},
             StartKey(w, k, pc)
      PROVE  OnceOK(m)'
  <2>1. req[w].msg # m /\ [Idle EXCEPT !.pc = pc, !.key = k, !.seen = key[k]].msg # m
    BY <1>0, <1>2 DEF StartKey, Begin, Idle
  <2> QED
    BY <1>0, <1>2, <2>1, OtherWork DEF StartKey, Begin, mailVars
<1>3. ASSUME NEW w \in Workers, req[w].pc \in {"rekey", "dropkey"}, End(w),
             UNCHANGED <<accepted, known, doubt>>
      PROVE  OnceOK(m)'
  <2>1. req[w].msg # m
    BY <1>0, <1>3 DEF ReqOK
  <2> QED
    BY <1>0, <1>3, <2>1, OtherWork DEF End
<1>4. ASSUME NEW w \in Workers, NEW x \in Messages, NEW q \in Request, Want(x), Begin(w, q),
             q.msg = x, q.pc # "record", UNCHANGED <<accepted, known>>
      PROVE  OnceOK(m)'
  <2>1. CASE x # m
    BY <1>0, <1>4, <2>1, OtherWork DEF Begin, Want
  <2>2. CASE x = m /\ Under(m) # {}
    BY <1>4, <2>2 DEF Want, OnceOK
  <2>3. CASE x = m /\ Under(m) = {}
    <3>1. Under(m)' = {w} /\ doubt' = doubt /\ m \notin known
      BY <1>0, <1>4, <2>3 DEF Under, Begin, Want
    <3>2. AboutToTell(m) = {}
      BY <2>3 DEF AboutToTell, Calling, Under
    <3> QED
      BY <1>0, <1>4, <3>1, <3>2 DEF OnceOK
  <2> QED
    BY <2>1, <2>2, <2>3
<1>5. ASSUME NEW w \in Workers, NEW q \in Request, req[w].pc \in {"stamp", "resolve"},
             req' = [req EXCEPT ![w] = q], q.msg = req[w].msg, q.result = req[w].result,
             q.pc # "record", UNCHANGED <<accepted, known, doubt>>
      PROVE  OnceOK(m)'
  <2>1. \A x \in Workers : req'[x] = IF x = w THEN q ELSE req[x]
    BY <1>0, <1>5
  <2> QED
    BY <1>0, <1>5, <2>1, Elsewhere DEF Under
<1>6. ASSUME NEW w \in Workers, req[w].pc = "resolve", End(w),
             UNCHANGED <<accepted, known, doubt>>
      PROVE  OnceOK(m)'
  <2>1. CASE req[w].msg # m
    BY <1>0, <1>6, <2>1, OtherWork DEF End
  <2>2. CASE req[w].msg = m
    <3>1. \A x \in Workers : req'[x] = IF x = w THEN Idle ELSE req[x]
      BY <1>0, <1>6 DEF End
    <3>2. m \notin doubt => Under(m) = {w} /\ AboutToTell(m) = {}
      BY <1>0, <1>6, <2>2 DEF OnceOK, Under, AboutToTell, Calling, Ask
    <3>3. Under(m)' = Under(m) \ {w}
      BY <1>0, <3>1 DEF Under
    <3> QED
      BY <1>0, <1>6, <3>2, <3>3 DEF OnceOK
  <2> QED
    BY <2>1, <2>2
<1>7. ASSUME NEW w \in Workers, Accept(w) \/ Refuse(w) \/ LoseAcceptance(w)
      PROVE  OnceOK(m)'
  <2>1. PICK result \in {"sent", "failed"} : Called(w, result)
    BY <1>7 DEF Accept, Refuse, LoseAcceptance
  <2> DEFINE q == [req[w] EXCEPT !.pc = "record", !.result = result]
  <2>2. /\ req' = [req EXCEPT ![w] = q] /\ q \in Request /\ q.msg = req[w].msg
        /\ q.pc = "record" /\ q.result = result /\ req[w].pc = "call"
        /\ req[w].msg \in Messages
    BY <1>0, <2>1 DEF Called, Ask, Request, ReqOK
  <2> HIDE DEF q
  <2>3. doubt \subseteq doubt' /\ UNCHANGED known
    BY <1>7 DEF Accept, Refuse, LoseAcceptance
  <2>4. CASE req[w].msg # m
    <3>1. accepted'[m] = accepted[m]
      BY <1>0, <1>7, <2>4 DEF Accept, Refuse, LoseAcceptance, Took
    <3> QED
      BY <1>0, <2>2, <2>3, <2>4, <3>1, OtherWork
  <2>5. CASE req[w].msg = m
    <3> SUFFICES ASSUME m \notin doubt' PROVE OnceOK(m)'
      BY DEF OnceOK
    <3>1. ~LoseAcceptance(w) /\ m \notin doubt
      BY <2>3, <2>5 DEF LoseAcceptance
    <3>2. Under(m) = {w} /\ AboutToTell(m) = {} /\ accepted[m] = 0
      BY <1>0, <2>2, <2>5, <3>1 DEF OnceOK, Under, AboutToTell, Calling, Ask
    <3>3. \A x \in Workers : req'[x] = IF x = w THEN q ELSE req[x]
      BY <1>0, <2>2
    <3>4. Under(m)' = {w}
      BY <2>2, <2>5, <3>2, <3>3 DEF Under
    <3>5. CASE Accept(w)
      <4>1. req'[w].result = "sent"
        BY <1>0, <3>5 DEF Accept, Called
      <4>2. w \in AboutToTell(m)'
        BY <2>2, <2>5, <3>3, <4>1 DEF AboutToTell, Calling, Ask
      <4>3. accepted'[m] = 1
        BY <1>0, <2>5, <3>2, <3>5 DEF Accept, Took
      <4> QED
        BY <3>4, <4>2, <4>3 DEF OnceOK
    <3>6. CASE Refuse(w)
      BY <3>2, <3>4, <3>6 DEF Refuse, OnceOK
    <3> QED
      BY <1>7, <3>1, <3>5, <3>6
  <2> QED
    BY <2>4, <2>5
<1>8. ASSUME NEW w \in Workers, NEW heard \in BOOLEAN, Record(w, heard)
      PROVE  OnceOK(m)'
  <2>1. req[w].pc = "record" /\ End(w) /\ UNCHANGED accepted /\ req[w].msg \in Messages
    BY <1>0, <1>8 DEF Record, Ask, ReqOK
  <2>2. doubt \subseteq doubt' /\ known \subseteq known'
    BY <1>8 DEF Record, Told
  <2>3. CASE req[w].msg # m
    BY <1>0, <2>1, <2>2, <2>3, OtherWork DEF End
  <2>4. CASE req[w].msg = m
    <3> SUFFICES ASSUME m \notin doubt' PROVE OnceOK(m)'
      BY DEF OnceOK
    <3>1. Under(m) = {w}
      BY <1>0, <2>1, <2>2, <2>4 DEF OnceOK, Under
    <3>2. Under(m)' = {}
      BY <1>0, <2>1, <2>4, <3>1 DEF Under, End
    <3>3. CASE req[w].result = "sent"
      <4>1. heard /\ m \in known' /\ m \notin doubt
        BY <1>8, <2>2, <2>4, <3>3 DEF Record, Told
      <4>2. accepted[m] \in {0, 1}
        BY <1>0, <4>1 DEF OnceOK
      <4>3. accepted'[m] = accepted[m]
        BY <2>1
      <4> QED
        BY <3>2, <4>1, <4>2, <4>3 DEF OnceOK
    <3>4. CASE req[w].result # "sent"
      <4>1. AboutToTell(m) = {}
        BY <3>1, <3>4 DEF AboutToTell, Calling, Under
      <4>2. accepted[m] = 0
        BY <2>2, <3>1, <4>1, <1>0 DEF OnceOK
      <4> QED
        BY <2>1, <3>2, <4>2 DEF OnceOK
    <3> QED
      BY <3>3, <3>4
  <2> QED
    BY <2>3, <2>4
<1>9. CASE Crash
  <2> SUFFICES ASSUME m \notin doubt' PROVE OnceOK(m)'
    BY DEF OnceOK
  <2>1. m \notin doubt /\ AboutToTell(m) = {}
    BY <1>9 DEF Crash, AboutToTell
  <2>2. Under(m)' = {}
    BY <1>0, <1>9 DEF Crash, Under
  <2> QED
    BY <1>0, <1>9, <2>1, <2>2 DEF Crash, OnceOK
<1> QED
  <2>1. ASSUME NEW w \in Workers, NEW k \in Keys, NEW pc \in {"rekey", "dropkey"},
               StartKey(w, k, pc)
        PROVE  OnceOK(m)'
    BY <1>2, <2>1
  <2>2. ASSUME NEW w \in Workers, NEW active \in BOOLEAN, NEW scopes \in SUBSET Scopes,
               UpdateKey(w, active, scopes) \/ DeleteKey(w)
        PROVE  OnceOK(m)'
    BY <1>3, <2>2 DEF UpdateKey, DeleteKey, Ask, mailVars
  <2>3. ASSUME NEW w \in Workers, NEW x \in Messages, StartSend(w, x) PROVE OnceOK(m)'
    <3>1. [Idle EXCEPT !.pc = "resolve", !.msg = x] \in Request
      BY IdleOK DEF Idle, Request
    <3> QED
      BY <1>4, <2>3, <3>1 DEF StartSend, Idle
  <2>4. ASSUME NEW w \in Workers, NEW x \in Messages, NEW k \in Keys, StartSendByKey(w, x, k)
        PROVE  OnceOK(m)'
    <3>1. [Idle EXCEPT !.pc = "stamp", !.msg = x, !.key = k, !.seen = key[k]] \in Request
      BY IdleOK DEF Idle, Request, TInv, TypeOK
    <3> QED
      BY <1>4, <2>4, <3>1 DEF StartSendByKey, Idle
  <2>5. ASSUME NEW w \in Workers, Stamp(w) PROVE OnceOK(m)'
    <3> DEFINE q == [req[w] EXCEPT !.pc = "resolve"]
    <3>1. q \in Request /\ q.msg = req[w].msg /\ q.result = req[w].result /\ q.pc = "resolve"
      BY <1>0 DEF Request
    <3>2. req' = [req EXCEPT ![w] = q] /\ req[w].pc = "stamp"
      BY <2>5 DEF Stamp, Ask
    <3> HIDE DEF q
    <3> QED
      BY <1>5, <2>5, <3>1, <3>2 DEF Stamp, mailVars
  <2>6. ASSUME NEW w \in Workers, Resolve(w) PROVE OnceOK(m)'
    <3> DEFINE q == [req[w] EXCEPT !.pc = "call"]
    <3>1. q \in Request /\ q.msg = req[w].msg /\ q.result = req[w].result /\ q.pc = "call"
      BY <1>0 DEF Request
    <3>2. (req' = [req EXCEPT ![w] = q] \/ End(w)) /\ req[w].pc = "resolve"
      BY <2>6 DEF Resolve, Ask
    <3> HIDE DEF q
    <3> QED
      BY <1>5, <1>6, <2>6, <3>1, <3>2 DEF Resolve, mailVars
  <2>7. ASSUME NEW w \in Workers, Accept(w) \/ Refuse(w) \/ LoseAcceptance(w) PROVE OnceOK(m)'
    BY <1>7, <2>7
  <2>8. ASSUME NEW w \in Workers, NEW heard \in BOOLEAN, Record(w, heard) PROVE OnceOK(m)'
    BY <1>8, <2>8
  <2>9. ASSUME NEW l \in Letters,
               Post(l) \/ Store(l) \/ RejectLetter(l) \/ Take(l) \/ LoseAnswer(l)
        PROVE  OnceOK(m)'
    BY <1>1, <2>9 DEF Post, Store, RejectLetter, Take, LoseAnswer, mailVars
  <2>10. ASSUME NEW k \in Keys, NEW scopes \in SUBSET Scopes, CreateKey(k, scopes)
         PROVE  OnceOK(m)'
    BY <1>1, <2>10 DEF CreateKey, mailVars
  <2>11. CASE SwitchSender \/ UNCHANGED vars
    BY <1>1, <2>11 DEF SwitchSender, vars, mailVars
  <2> QED
    BY <1>9, <2>1, <2>2, <2>3, <2>4, <2>5, <2>6, <2>7, <2>8, <2>9, <2>10, <2>11 DEF Next

(* However often users retry, whatever answers are lost and whenever the   *)
(* process dies, a message nobody was in doubt about goes out once.        *)
THEOREM SentOnce == Spec => []TwiceOnlyInDoubt
<1>1. Init => TInv /\ AllOnce
  <2>1. Init => \A m \in Messages : Under(m) = {}
    BY NoneIsApart DEF Init, Under, Idle
  <2> QED
    BY <2>1, TypeStarts DEF Init, AllOnce, OnceOK
<1>2. (TInv /\ AllOnce) /\ [Next]_vars => (TInv /\ AllOnce)'
  BY TypeStep, OnceStep DEF AllOnce
<1>3. TInv /\ AllOnce => TwiceOnlyInDoubt
  BY DEF TInv, TypeOK, AllOnce, OnceOK, TwiceOnlyInDoubt
<1> QED
  BY <1>1, <1>2, <1>3, PTL DEF Spec

-----------------------------------------------------------------------------
(* What is on record.  The rows of a message and the requests about to     *)
(* commit one account for its calls; of what Cloudflare took on as many    *)
(* are on record as sent, or about to be, except for the doubtful.         *)
CountOK(m) ==
  /\ calls[m] = row[m]["sent"] + row[m]["failed"] + died[m] + Cardinality(Calling(m))
  /\ row[m]["sent"] + Cardinality(AboutToTell(m)) <= accepted[m]
  /\ m \notin doubt => accepted[m] = row[m]["sent"] + Cardinality(AboutToTell(m))

AllCount == \A m \in Messages : CountOK(m)

LEMMA CallersAreFinite ==
  \A m : /\ IsFiniteSet(Calling(m)) /\ IsFiniteSet(AboutToTell(m))
         /\ Cardinality(Calling(m)) \in Nat /\ Cardinality(AboutToTell(m)) \in Nat
<1> TAKE m
<1>1. Calling(m) \in SUBSET Workers /\ AboutToTell(m) \in SUBSET Workers
  BY DEF Calling, AboutToTell
<1> QED
  BY <1>1, WorkersAreFinite, FS_Subset, FS_CardinalityType

(* Nothing about the message is recorded, called or given up.              *)
LEMMA CountElsewhere ==
  ASSUME NEW m \in Messages, CountOK(m), doubt \subseteq doubt',
         calls'[m] = calls[m], row'[m] = row[m], died'[m] = died[m],
         accepted'[m] = accepted[m],
         \A x \in Workers : /\ x \in Calling(m)' <=> x \in Calling(m)
                            /\ x \in Calling(m) => req'[x].result = req[x].result
  PROVE  CountOK(m)'
<1>1. Calling(m)' = Calling(m)
  BY DEF Calling
<1>2. AboutToTell(m)' = AboutToTell(m)
  BY <1>1 DEF AboutToTell, Calling
<1> QED
  BY <1>1, <1>2 DEF CountOK

(* A worker takes a step that neither starts nor ends a call's record.     *)
LEMMA CountOtherWork ==
  ASSUME TInv, NEW m \in Messages, CountOK(m), doubt \subseteq doubt',
         NEW w \in Workers, NEW q, req' = [req EXCEPT ![w] = q],
         req[w].msg # m \/ req[w].pc # "record", q.msg # m \/ q.pc # "record",
         calls'[m] = calls[m], row'[m] = row[m], died'[m] = died[m],
         accepted'[m] = accepted[m]
  PROVE  CountOK(m)'
<1>1. \A x \in Workers : req'[x] = IF x = w THEN q ELSE req[x]
  BY DEF TInv, TypeOK
<1> QED
  BY <1>1, CountElsewhere DEF Calling, Ask

LEMMA CountCalled ==
  ASSUME TInv, NEW m \in Messages, CountOK(m), NEW w \in Workers,
         Accept(w) \/ Refuse(w) \/ LoseAcceptance(w)
  PROVE  CountOK(m)'
<1>0. /\ req \in [Workers -> Request] /\ accepted \in [Messages -> Nat]
      /\ calls \in [Messages -> Nat] /\ died \in [Messages -> Nat]
      /\ row \in [Messages -> [{"sent", "failed"} -> Nat]]
      /\ \A x \in Workers : ReqOK(req[x])
  BY DEF TInv, TypeOK
<1>1. PICK result \in {"sent", "failed"} :
        /\ Called(w, result)
        /\ result = "sent" => Accept(w)
        /\ result = "failed" => Refuse(w) \/ LoseAcceptance(w)
  <2>1. Accept(w) => Called(w, "sent")
    BY DEF Accept
  <2>2. Refuse(w) \/ LoseAcceptance(w) => Called(w, "failed")
    BY DEF Refuse, LoseAcceptance
  <2> QED
    BY <2>1, <2>2
<1> DEFINE q == [req[w] EXCEPT !.pc = "record", !.result = result]
<1>2. /\ req' = [req EXCEPT ![w] = q] /\ q.msg = req[w].msg /\ q.pc = "record"
      /\ q.result = result /\ req[w].pc = "call" /\ req[w].msg \in Messages
      /\ calls' = [calls EXCEPT ![req[w].msg] = @ + 1]
  <2>1. Called(w, result) /\ req \in [Workers -> Request] /\ ReqOK(req[w])
    BY <1>0, <1>1
  <2>2. /\ req' = [req EXCEPT ![w] = q] /\ q \in Request /\ q.msg = req[w].msg
        /\ q.pc = "record" /\ q.result = result /\ req[w].pc = "call"
        /\ req[w].msg \in Messages
    BY <2>1 DEF Called, Ask, Request, ReqOK
  <2>3. calls' = [calls EXCEPT ![req[w].msg] = @ + 1]
    BY <2>1 DEF Called
  <2> HIDE DEF q
  <2> QED
    BY <2>2, <2>3
<1> HIDE DEF q
<1>3. doubt \subseteq doubt' /\ row' = row /\ died' = died
  BY DEF Accept, Refuse, LoseAcceptance
<1>4. \A x \in Workers : req'[x] = IF x = w THEN q ELSE req[x]
  BY <1>0, <1>2
<1>5. CASE req[w].msg # m
  <2>1. accepted'[m] = accepted[m] /\ calls'[m] = calls[m]
    BY <1>0, <1>2, <1>5 DEF Accept, Refuse, LoseAcceptance, Took
  <2> QED
    BY <1>2, <1>3, <1>5, <2>1, CountOtherWork
<1>6. CASE req[w].msg = m
  <2>1. Calling(m)' = Calling(m) \cup {w} /\ w \notin Calling(m)
    BY <1>2, <1>4, <1>6 DEF Calling, Ask
  <2>2. Cardinality(Calling(m)') = Cardinality(Calling(m)) + 1
    BY <2>1, CallersAreFinite, FS_AddElement
  <2>3. calls'[m] = calls[m] + 1
    BY <1>0, <1>2, <1>6
  <2>4. w \notin AboutToTell(m)
    BY <2>1 DEF AboutToTell
  <2>5. CASE result = "sent"
    <3>0. Accept(w)
      BY <1>1, <2>5
    <3>1. AboutToTell(m)' = AboutToTell(m) \cup {w}
      BY <1>2, <1>4, <2>1, <2>5 DEF AboutToTell, Calling
    <3>2. Cardinality(AboutToTell(m)') = Cardinality(AboutToTell(m)) + 1
      BY <2>4, <3>1, CallersAreFinite, FS_AddElement
    <3>3. accepted'[m] = accepted[m] + 1
      BY <1>0, <1>6, <3>0 DEF Accept, Took
    <3> QED
      BY <1>0, <1>3, <2>2, <2>3, <3>2, <3>3, CallersAreFinite DEF CountOK
  <2>6. CASE result = "failed"
    <3>1. AboutToTell(m)' = AboutToTell(m)
      BY <1>2, <1>4, <2>1, <2>4, <2>6 DEF AboutToTell, Calling
    <3>2. CASE Refuse(w)
      <4>1. accepted' = accepted
        BY <3>2 DEF Refuse
      <4> QED
        BY <1>0, <1>3, <2>2, <2>3, <3>1, <4>1, CallersAreFinite DEF CountOK
    <3>3. CASE LoseAcceptance(w)
      <4>1. accepted'[m] = accepted[m] + 1 /\ m \in doubt'
        BY <1>0, <1>6, <3>3 DEF LoseAcceptance, Took
      <4> QED
        BY <1>0, <1>3, <2>2, <2>3, <3>1, <4>1, CallersAreFinite DEF CountOK
    <3> QED
      BY <1>1, <2>6, <3>2, <3>3
  <2> QED
    BY <2>5, <2>6
<1> QED
  BY <1>5, <1>6

LEMMA CountRecorded ==
  ASSUME TInv, NEW m \in Messages, CountOK(m), NEW w \in Workers, NEW heard \in BOOLEAN,
         Record(w, heard)
  PROVE  CountOK(m)'
<1>0. /\ req \in [Workers -> Request] /\ accepted \in [Messages -> Nat]
      /\ calls \in [Messages -> Nat] /\ died \in [Messages -> Nat]
      /\ row \in [Messages -> [{"sent", "failed"} -> Nat]]
      /\ ReqOK(req[w])
  BY DEF TInv, TypeOK
<1>1. /\ req[w].pc = "record" /\ req[w].msg \in Messages
      /\ req[w].result \in {"sent", "failed"}
  BY <1>0 DEF Record, Ask, ReqOK
<1>2. /\ req' = [req EXCEPT ![w] = Idle] /\ Idle.pc = "idle"
      /\ UNCHANGED <<accepted, calls, died>> /\ doubt \subseteq doubt'
      /\ row' = [row EXCEPT ![req[w].msg] = Recorded(@, req[w].result)]
  BY DEF Record, End, Idle
<1>3. \A x \in Workers : req'[x] = IF x = w THEN Idle ELSE req[x]
  BY <1>0, <1>2
<1>4. CASE req[w].msg # m
  <2>1. row'[m] = row[m]
    BY <1>0, <1>2, <1>4
  <2> QED
    BY <1>2, <1>4, <2>1, CountOtherWork
<1>5. CASE req[w].msg = m
  <2>1. Calling(m)' = Calling(m) \ {w} /\ w \in Calling(m)
    BY <1>1, <1>2, <1>3, <1>5 DEF Calling, Ask
  <2>2. Cardinality(Calling(m)') = Cardinality(Calling(m)) - 1
    BY <2>1, CallersAreFinite, FS_RemoveElement
  <2>3. row'[m] = [row[m] EXCEPT ![req[w].result] = @ + 1]
    BY <1>0, <1>2, <1>5 DEF Recorded
  <2>4. AboutToTell(m)' = AboutToTell(m) \ {w}
    BY <1>3, <2>1 DEF AboutToTell, Calling
  <2>5. CASE req[w].result = "sent"
    <3>1. /\ row'[m]["sent"] = row[m]["sent"] + 1
          /\ row'[m]["failed"] = row[m]["failed"]
      BY <1>0, <2>3, <2>5
    <3>2. w \in AboutToTell(m)
      BY <2>1, <2>5 DEF AboutToTell
    <3>3. Cardinality(AboutToTell(m)') = Cardinality(AboutToTell(m)) - 1
      BY <2>4, <3>2, CallersAreFinite, FS_RemoveElement
    <3> QED
      BY <1>0, <1>2, <2>2, <3>1, <3>3, CallersAreFinite DEF CountOK
  <2>6. CASE req[w].result = "failed"
    <3>1. /\ row'[m]["failed"] = row[m]["failed"] + 1
          /\ row'[m]["sent"] = row[m]["sent"]
      BY <1>0, <2>3, <2>6
    <3>2. AboutToTell(m)' = AboutToTell(m)
      BY <2>4, <2>6 DEF AboutToTell
    <3> QED
      BY <1>0, <1>2, <2>2, <3>1, <3>2, CallersAreFinite DEF CountOK
  <2> QED
    BY <1>1, <2>5, <2>6
<1> QED
  BY <1>4, <1>5

(* The calls the process died in are counted; what they were told "sent"   *)
(* is in doubt.                                                            *)
LEMMA CountCrashed == ASSUME TInv, NEW m \in Messages, CountOK(m), Crash PROVE CountOK(m)'
<1>1. \A w \in Workers : req'[w].pc = "idle"
  BY DEF Crash, Idle
<1>2. Calling(m)' = {} /\ AboutToTell(m)' = {}
  BY <1>1 DEF AboutToTell, Calling, Ask
<1>3. Cardinality(Calling(m)') = 0 /\ Cardinality(AboutToTell(m)') = 0
  BY <1>2, FS_EmptySet
<1>4. /\ died'[m] = died[m] + Cardinality(Calling(m))
      /\ UNCHANGED <<row, accepted, calls>> /\ doubt \subseteq doubt'
      /\ m \notin doubt' => AboutToTell(m) = {}
  BY DEF Crash, AboutToTell
<1>5. m \notin doubt' => Cardinality(AboutToTell(m)) = 0
  BY <1>4, FS_EmptySet
<1>6. row[m]["sent"] \in Nat /\ row[m]["failed"] \in Nat /\ died[m] \in Nat /\ accepted[m] \in Nat
  BY DEF TInv, TypeOK
<1> QED
  BY <1>3, <1>4, <1>5, <1>6, CallersAreFinite DEF CountOK

LEMMA CountStep ==
  ASSUME TInv, AllCount, [Next]_vars, NEW m \in Messages
  PROVE  CountOK(m)'
<1>0. /\ CountOK(m) /\ req \in [Workers -> Request]
      /\ \A w \in Workers : ReqOK(req[w])
      /\ Idle.pc = "idle"
  BY DEF AllCount, TInv, TypeOK, Idle
<1>1. CASE UNCHANGED <<req, calls, row, died, accepted>> /\ doubt \subseteq doubt'
  BY <1>0, <1>1, CountElsewhere DEF Calling, Ask
<1>2. ASSUME NEW w \in Workers, NEW q, req' = [req EXCEPT ![w] = q], req[w].pc # "record",
             q.pc # "record", UNCHANGED <<calls, row, died, accepted>>, doubt \subseteq doubt'
      PROVE  CountOK(m)'
  BY <1>0, <1>2, CountOtherWork
<1>3. ASSUME NEW w \in Workers, End(w), req[w].pc # "record",
             UNCHANGED <<calls, row, died, accepted>>, doubt \subseteq doubt'
      PROVE  CountOK(m)'
  BY <1>0, <1>2, <1>3 DEF End
<1>4. ASSUME NEW w \in Workers, NEW k \in Keys, NEW pc \in {"rekey", "dropkey"},
             StartKey(w, k, pc)
      PROVE  CountOK(m)'
  <2> DEFINE q == [Idle EXCEPT !.pc = pc, !.key = k, !.seen = key[k]]
  <2>1. q.pc # "record"
    BY DEF Idle
  <2>2. req' = [req EXCEPT ![w] = q] /\ req[w].pc # "record"
    BY <1>0, <1>4 DEF StartKey, Begin
  <2> HIDE DEF q
  <2> QED
    BY <1>2, <1>4, <2>1, <2>2 DEF StartKey, mailVars
<1>5. ASSUME NEW w \in Workers, NEW active \in BOOLEAN, NEW scopes \in SUBSET Scopes,
             UpdateKey(w, active, scopes) \/ DeleteKey(w)
      PROVE  CountOK(m)'
  BY <1>3, <1>5 DEF UpdateKey, DeleteKey, Ask, mailVars
<1>6. ASSUME NEW w \in Workers, NEW x \in Messages,
             StartSend(w, x) \/ \E k \in Keys : StartSendByKey(w, x, k)
      PROVE  CountOK(m)'
  <2>1. UNCHANGED <<calls, row, died, accepted>> /\ doubt \subseteq doubt'
    <3>1. StartSend(w, x) => Want(x) /\ UNCHANGED <<calls, row, died, accepted>>
      BY DEF StartSend
    <3>2. \A k \in Keys : StartSendByKey(w, x, k) =>
            Want(x) /\ UNCHANGED <<calls, row, died, accepted>>
      BY DEF StartSendByKey
    <3>3. Want(x) => doubt \subseteq doubt'
      BY DEF Want
    <3> QED
      BY <1>6, <3>1, <3>2, <3>3
  <2>2. ASSUME NEW q, Begin(w, q), q.pc # "record" PROVE CountOK(m)'
    BY <1>0, <1>2, <2>1, <2>2 DEF Begin
  <2>3. CASE StartSend(w, x)
    <3> DEFINE q == [Idle EXCEPT !.pc = "resolve", !.msg = x]
    <3>1. q.pc # "record"
      BY DEF Idle
    <3>2. Begin(w, q)
      BY <2>3 DEF StartSend
    <3> HIDE DEF q
    <3> QED
      BY <2>2, <3>1, <3>2
  <2>4. ASSUME NEW k \in Keys, StartSendByKey(w, x, k) PROVE CountOK(m)'
    <3> DEFINE q == [Idle EXCEPT !.pc = "stamp", !.msg = x, !.key = k, !.seen = key[k]]
    <3>1. q.pc # "record"
      BY DEF Idle
    <3>2. Begin(w, q)
      BY <2>4 DEF StartSendByKey
    <3> HIDE DEF q
    <3> QED
      BY <2>2, <3>1, <3>2
  <2> QED
    BY <1>6, <2>3, <2>4
<1>7. ASSUME NEW w \in Workers, Stamp(w) \/ Resolve(w)
      PROVE  CountOK(m)'
  <2>1. req[w].pc # "record" /\ UNCHANGED <<calls, row, died, accepted, doubt>>
    BY <1>7 DEF Stamp, Resolve, Ask, mailVars
  <2>2. End(w) \/ \E pc \in {"resolve", "call"} :
                   req' = [req EXCEPT ![w] = [req[w] EXCEPT !.pc = pc]]
    BY <1>7 DEF Stamp, Resolve
  <2>3. \A pc \in {"resolve", "call"} : [req[w] EXCEPT !.pc = pc].pc # "record"
    BY <1>0 DEF Request
  <2> QED
    BY <1>2, <1>3, <2>1, <2>2, <2>3
<1> QED
  <2>1. ASSUME NEW l \in Letters,
               Post(l) \/ Store(l) \/ RejectLetter(l) \/ Take(l) \/ LoseAnswer(l)
        PROVE  CountOK(m)'
    BY <1>1, <2>1 DEF Post, Store, RejectLetter, Take, LoseAnswer, mailVars
  <2>2. ASSUME NEW k \in Keys, NEW scopes \in SUBSET Scopes, CreateKey(k, scopes)
        PROVE  CountOK(m)'
    BY <1>1, <2>2 DEF CreateKey, mailVars
  <2>3. CASE SwitchSender \/ UNCHANGED vars
    BY <1>1, <2>3 DEF SwitchSender, vars, mailVars
  <2> QED
    BY <1>0, <1>4, <1>5, <1>6, <1>7, <2>1, <2>2, <2>3, CountCalled, CountRecorded,
       CountCrashed
    DEF Next

(* Whatever fails, each call to Cloudflare has left one row unless the     *)
(* process died in it, and what was sent is on record as sent unless an    *)
(* answer was lost (_send_with_resolved_sender).                           *)
THEOREM RecordsTellAll == Spec => []RecordsAddUp
<1>1. Init => TInv /\ AllCount
  <2> SUFFICES ASSUME Init PROVE AllCount
    BY TypeStarts
  <2>1. ASSUME NEW m \in Messages PROVE CountOK(m)
    <3>1. Calling(m) = {} /\ AboutToTell(m) = {}
      BY DEF Init, Idle, Calling, AboutToTell, Ask
    <3>2. Cardinality(Calling(m)) = 0 /\ Cardinality(AboutToTell(m)) = 0
      BY <3>1, FS_EmptySet
    <3>3. /\ calls[m] = 0 /\ died[m] = 0 /\ accepted[m] = 0
          /\ row[m]["sent"] = 0 /\ row[m]["failed"] = 0
      BY DEF Init
    <3> QED
      BY <3>2, <3>3 DEF CountOK
  <2> QED
    BY <2>1 DEF AllCount
<1>2. (TInv /\ AllCount) /\ [Next]_vars => (TInv /\ AllCount)'
  BY TypeStep, CountStep DEF AllCount
<1>3. TInv /\ AllCount => RecordsAddUp
  <2> SUFFICES ASSUME TInv, AllCount, NEW m \in Messages
               PROVE  /\ calls[m] = row[m]["sent"] + row[m]["failed"] + died[m]
                                       + Cardinality(Calling(m))
                      /\ row[m]["sent"] <= accepted[m]
                      /\ m \notin doubt => accepted[m] = row[m]["sent"]
                            + Cardinality({w \in Calling(m) : req[w].result = "sent"})
    BY DEF RecordsAddUp
  <2>1. row[m]["sent"] \in Nat /\ accepted[m] \in Nat
    BY DEF TInv, TypeOK
  <2>2. CountOK(m)
    BY DEF AllCount
  <2>3. AboutToTell(m) = {w \in Calling(m) : req[w].result = "sent"}
    BY DEF AboutToTell
  <2>4. Cardinality(AboutToTell(m)) \in Nat
    BY CallersAreFinite
  <2>5. row[m]["sent"] <= accepted[m]
    BY <2>1, <2>2, <2>4 DEF CountOK
  <2> QED
    BY <2>2, <2>3, <2>5 DEF CountOK
<1> QED
  BY <1>1, <1>2, <1>3, PTL DEF Spec
=============================================================================
