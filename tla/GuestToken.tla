------------------------------ MODULE GuestToken ------------------------------
(***************************************************************************)
(* The guest links of one share (services/auth-guest): a link is sent when *)
(* the share is created, redeemed for a session, and renewed, with a PIN   *)
(* if the guest still has a session.  Requests run concurrently; they read *)
(* the record of the share, ask the gateway for the share, and write the   *)
(* record back under its file lock, if it has not changed in between.      *)
(*                                                                         *)
(* Link, PIN and nonce of one renewal have one number: n.  PIN and nonce   *)
(* are set, cleared and expire together, so that one field holds both.  No *)
(* PIN, no link and no time are 0.  The event stream, the gateway and the  *)
(* session tokens are external.                                            *)
(***************************************************************************)
EXTENDS Integers, Sequences, FiniteSetsExt

CONSTANTS
    Requests,           \* requests that may run at the same time
    NoRecord,           \* the share has no record
    guestLinkTokenTTL, PinTTL,
    MaxAttempts, BackoffBase, BackoffCap,   \* of the backoff limiter
    DailyCap, Cooldown, Window,             \* of the two quota limiters, by session
    MaxTime,            \* bound: clock ticks
    MaxLinks,           \* bound: links that are issued
    MaxRequests,        \* bound: requests
    MaxFaults           \* bound: crashes and calls that fail

renewMaxAttempts == 3

Quotas == [count : Nat, notBefore : Nat, windowStart : Nat]
Backoffs == [count : Nat, notBefore : Int]

Records == [secret : Nat, expiry : Nat, redeemed : BOOLEAN, pin : Nat, pinExpiry : Nat,
            backoff : Backoffs, quota : [BOOLEAN -> Quotas], revision : Nat]

ASSUME NoRecordAssumption == NoRecord \notin Records

ASSUME GuestAssumption ==
    /\ {guestLinkTokenTTL, PinTTL, MaxAttempts, BackoffBase, BackoffCap} \subseteq Nat \ {0}
    /\ \A q \in {DailyCap, Cooldown, Window} : q \in [BOOLEAN -> Nat]
    /\ {MaxTime, MaxLinks, MaxRequests, MaxFaults} \subseteq Nat

VARIABLES
    rec,            \* the record of the share, or NoRecord
    share,          \* does the share exist
    clock,
    req,            \* the requests that are running
    issued,         \* the number of links that were generated
    sent, published,\* the links that went out; the ones reported as published
    nonces,         \* the nonces that browsers hold
    requests, faults,
    sessions,       \* history: by link, the sessions it was exchanged for
    pinSessions,    \* history: by PIN, the sessions it was exchanged for
    guesses,        \* history: by PIN, when it was guessed wrong
    renewals,       \* history: by kind, when the published renewals began
    current,        \* history: the links in the order they entered the record
    orphaned        \* history: the record was left with a link that nobody got

storeVars == <<rec, current>>
historyVars == <<sessions, pinSessions, guesses, renewals, orphaned>>
mailVars == <<sent, published, nonces>>
boundVars == <<issued, requests, faults>>
envVars == <<share, clock>>
vars == <<storeVars, historyVars, mailVars, boundVars, envVars, req>>

Links == 1 .. MaxLinks

Idle == [op |-> "none", pc |-> "done", link |-> 0, right |-> FALSE, session |-> FALSE,
         now |-> 0, seen |-> NoRecord, updated |-> NoRecord, tries |-> 0]

FreshQuota == [count |-> 0, notBefore |-> 0, windowStart |-> 0]
FreshBackoff == [count |-> 0, notBefore |-> 0]

NewRecord(n) ==
    [secret |-> n, expiry |-> clock + guestLinkTokenTTL, redeemed |-> FALSE,
     pin |-> 0, pinExpiry |-> 0, backoff |-> FreshBackoff,
     quota |-> [s \in BOOLEAN |-> FreshQuota], revision |-> 0]

Init ==
    /\ rec = NoRecord /\ share = TRUE /\ clock = 1
    /\ req = [r \in Requests |-> Idle]
    /\ issued = 0 /\ sent = {} /\ published = {} /\ nonces = {}
    /\ requests = 0 /\ faults = 0
    /\ sessions = [n \in Links |-> 0] /\ pinSessions = [n \in Links |-> 0]
    /\ guesses = [n \in Links |-> <<>>]
    /\ renewals = [s \in BOOLEAN |-> <<>>]
    /\ current = <<>> /\ orphaned = FALSE

-----------------------------------------------------------------------------
(* The limiters.                                                           *)

\* min(base * 2^(failures - 1), cap)
Delay(failures) == Min({BackoffBase * 2 ^ (failures - 1), BackoffCap})

Blocked(limiter, now) == limiter.notBefore > now

QuotaExceeded(q, s, now) ==
    \/ Window[s] > 0 /\ q.windowStart # 0 /\ now - q.windowStart < Window[s] /\ q.count >= DailyCap[s]
    \/ Blocked(q, now)

QuotaRecord(q, s, now) ==
    LET new == Window[s] > 0 /\ (q.windowStart = 0 \/ now - q.windowStart >= Window[s]) IN
    [count |-> (IF new THEN 0 ELSE q.count) + 1, notBefore |-> now + Cooldown[s],
     windowStart |-> IF new THEN now ELSE q.windowStart]

BackoffRecord(b, now) == [count |-> b.count + 1, notBefore |-> now + Delay(b.count + 1)]

-----------------------------------------------------------------------------
(* The store.  UpdateFrom writes if the record is the one that was seen.   *)

Changed(seen) == seen.revision < rec.revision

Update(r) == rec' = [r EXCEPT !.revision = rec.revision + 1]

UpdateFrom(seen, r) == rec' = [r EXCEPT !.revision = seen.revision + 1]

linkRedeemable(r, now) == ~r.redeemed /\ r.expiry >= now

-----------------------------------------------------------------------------
At(r, op, pc) == req[r].op = op /\ req[r].pc = pc

Go(r, pc) == req' = [req EXCEPT ![r].pc = pc]

\* The request is answered.
Done(r) == req' = [req EXCEPT ![r] = Idle]

Fault == faults < MaxFaults /\ faults' = faults + 1 /\ UNCHANGED <<issued, requests>>

Begin(r, op, pc, link, right, session) ==
    /\ req[r] = Idle
    /\ requests < MaxRequests /\ requests' = requests + 1
    /\ req' = [req EXCEPT ![r] = [Idle EXCEPT !.op = op, !.pc = pc, !.link = link, !.right = right,
                                             !.session = session, !.now = clock]]
    /\ UNCHANGED <<storeVars, historyVars, mailVars, envVars, issued, faults>>

\* ShareCreated arrives (or SpaceShared), once or again, as long as the share
\* exists.  There is one consumer of events: it handles one at a time.
Consuming == \E r \in Requests : req[r].op = "Create"

BeginCreate(r) ==
    /\ share /\ ~Consuming /\ issued < MaxLinks
    /\ Begin(r, "Create", "add", 0, FALSE, FALSE)

BeginVerifyToken(r) == \E n \in sent : Begin(r, "VerifyToken", "get", n, FALSE, FALSE)

\* A renewal is authorized by a session, of a link or of a PIN.
BeginRenew(r) ==
    /\ issued < MaxLinks
    /\ \E s \in BOOLEAN :
          /\ s => \E n \in Links : sessions[n] + pinSessions[n] > 0
          /\ Begin(r, "Renew", "get", 0, FALSE, s)

\* The PIN is right if it is the one that came with the nonce.
BeginVerifyPin(r) == \E n \in nonces, right \in BOOLEAN : Begin(r, "VerifyPin", "get", n, right, FALSE)

-----------------------------------------------------------------------------
(* CreateToken, then the event with the link.                              *)

CreateToken(r) ==
    /\ At(r, "Create", "add") /\ issued < MaxLinks
    /\ issued' = issued + 1
    /\ IF rec = NoRecord
       THEN /\ rec' = NewRecord(issued + 1) /\ current' = Append(current, rec'.secret)
            /\ req' = [req EXCEPT ![r].pc = "publish", ![r].link = issued + 1]
       ELSE Done(r) /\ UNCHANGED storeVars
    /\ UNCHANGED <<historyVars, mailVars, envVars, requests, faults>>

PublishCreated(r) ==
    /\ At(r, "Create", "publish")
    /\ \/ /\ sent' = sent \cup {req[r].link} /\ published' = published \cup {req[r].link}
          /\ UNCHANGED <<boundVars, orphaned>>
       \/ /\ Fault /\ orphaned' = TRUE
          /\ UNCHANGED <<sent, published>>
    /\ Done(r)
    /\ UNCHANGED <<storeVars, sessions, pinSessions, guesses, renewals, nonces, envVars>>

\* ShareRemoved, ShareExpired and their space counterparts.
CleanupShare ==
    /\ ~share /\ ~Consuming /\ rec # NoRecord
    /\ rec' = NoRecord
    /\ UNCHANGED <<current, historyVars, mailVars, boundVars, envVars, req>>

-----------------------------------------------------------------------------
(* The remote check that the share still exists; a renewal then generates  *)
(* its link and its PIN.                                                   *)

NextPc(op) == CASE op = "VerifyToken" -> "redeem" [] op = "Renew" -> "read" [] op = "VerifyPin" -> "attempt"

validateShare(r) ==
    /\ req[r].pc = "validate"
    /\ \/ /\ share /\ req[r].op # "Renew"
          /\ Go(r, NextPc(req[r].op)) /\ UNCHANGED boundVars
       \/ /\ share /\ req[r].op = "Renew" /\ issued < MaxLinks
          /\ req' = [req EXCEPT ![r].pc = "read", ![r].link = issued + 1]
          /\ issued' = issued + 1 /\ UNCHANGED <<requests, faults>>
       \/ ~share /\ Done(r) /\ UNCHANGED boundVars
       \/ Fault /\ Done(r)
    /\ UNCHANGED <<storeVars, historyVars, mailVars, envVars>>

-----------------------------------------------------------------------------
(* VerifyToken.                                                            *)

verifyToken(r) ==
    /\ At(r, "VerifyToken", "get")
    /\ IF rec # NoRecord /\ req[r].link = rec.secret /\ linkRedeemable(rec, clock)
       THEN req' = [req EXCEPT ![r].pc = "validate", ![r].seen = rec]
       ELSE Done(r)
    /\ UNCHANGED <<storeVars, historyVars, mailVars, boundVars, envVars>>

\* The session is signed after the link was marked; that may fail.
Sign(r, counter) ==
    \/ counter' = [counter EXCEPT ![req[r].link] = @ + 1] /\ UNCHANGED boundVars
    \/ Fault /\ UNCHANGED counter

\* Mutant: the record may have changed since it was seen.
RedeemChanged(r) ==
    /\ At(r, "VerifyToken", "redeem")
    /\ IF rec # NoRecord /\ ~rec.redeemed
       THEN UpdateFrom(rec, [rec EXCEPT !.redeemed = TRUE]) /\ Sign(r, sessions)
       ELSE UNCHANGED <<rec, sessions, boundVars>>
    /\ Done(r)
    /\ UNCHANGED <<current, pinSessions, guesses, renewals, orphaned, mailVars, envVars>>

Redeem(r) ==
    /\ At(r, "VerifyToken", "redeem")
    /\ IF rec # NoRecord /\ ~Changed(req[r].seen) /\ ~rec.redeemed
       THEN UpdateFrom(req[r].seen, [rec EXCEPT !.redeemed = TRUE]) /\ Sign(r, sessions)
       ELSE UNCHANGED <<rec, sessions, boundVars>>
    /\ Done(r)
    /\ UNCHANGED <<current, pinSessions, guesses, renewals, orphaned, mailVars, envVars>>

-----------------------------------------------------------------------------
(* Renew.  All of its times are those of its beginning.                    *)

RenewRefused(r) ==
    \/ ~req[r].session /\ linkRedeemable(rec, req[r].now)
    \/ QuotaExceeded(rec.quota[req[r].session], req[r].session, req[r].now)

RenewGet(r) ==
    /\ At(r, "Renew", "get")
    /\ IF rec = NoRecord \/ RenewRefused(r) THEN Done(r) ELSE Go(r, "validate")
    /\ UNCHANGED <<storeVars, historyVars, mailVars, boundVars, envVars>>

\* rotateGuestToken reads the record, and tries to write it.
RotateRead(r) ==
    /\ At(r, "Renew", "read")
    /\ IF rec = NoRecord THEN Done(r)
       ELSE req' = [req EXCEPT ![r].pc = "rotate", ![r].seen = rec, ![r].tries = @ + 1]
    /\ UNCHANGED <<storeVars, historyVars, mailVars, boundVars, envVars>>

Rotated(r) ==
    LET q == req[r]
        link == [rec EXCEPT !.secret = q.link, !.expiry = q.now + guestLinkTokenTTL, !.redeemed = FALSE,
                            !.quota[q.session] = QuotaRecord(@, q.session, q.now)] IN
    IF q.session
    THEN [link EXCEPT !.pin = q.link, !.pinExpiry = q.now + PinTTL, !.backoff = FreshBackoff]
    ELSE link

RotateWrite(r) ==
    /\ UpdateFrom(req[r].seen, Rotated(r))
    /\ current' = Append(current, rec'.secret)
    /\ req' = [req EXCEPT ![r].pc = "publish", ![r].updated = rec']

\* Mutant: the quota is only checked before the share is validated.
RotateUnchecked(r) ==
    /\ At(r, "Renew", "rotate")
    /\ \/ rec = NoRecord /\ Done(r) /\ UNCHANGED storeVars
       \/ /\ rec # NoRecord /\ Changed(req[r].seen)
          /\ IF req[r].tries < renewMaxAttempts THEN Go(r, "read") ELSE Done(r)
          /\ UNCHANGED storeVars
       \/ /\ rec # NoRecord /\ ~Changed(req[r].seen)
          /\ RotateWrite(r)
    /\ UNCHANGED <<historyVars, mailVars, boundVars, envVars>>

Rotate(r) ==
    /\ At(r, "Renew", "rotate")
    /\ \/ rec = NoRecord /\ Done(r) /\ UNCHANGED storeVars
       \/ /\ rec # NoRecord /\ Changed(req[r].seen)
          /\ IF req[r].tries < renewMaxAttempts THEN Go(r, "read") ELSE Done(r)
          /\ UNCHANGED storeVars
       \/ /\ rec # NoRecord /\ ~Changed(req[r].seen)
          /\ IF RenewRefused(r) THEN Done(r) /\ UNCHANGED storeVars ELSE RotateWrite(r)
    /\ UNCHANGED <<historyVars, mailVars, boundVars, envVars>>

\* The event goes out, or is reported lost, which it may not be.  The nonce
\* is for the browser that asked.
PublishRenewed(r) ==
    /\ At(r, "Renew", "publish")
    /\ LET q == req[r] IN
       \/ /\ sent' = sent \cup {q.link} /\ published' = published \cup {q.link}
          /\ nonces' = IF q.session THEN nonces \cup {q.link} ELSE nonces
          /\ renewals' = [renewals EXCEPT ![q.session] = Append(@, q.now)]
          /\ Done(r) /\ UNCHANGED boundVars
       \/ /\ Fault
          /\ sent' \in {sent, sent \cup {q.link}}
          /\ Go(r, "rollback") /\ UNCHANGED <<published, nonces, renewals>>
    /\ UNCHANGED <<storeVars, sessions, pinSessions, guesses, orphaned, envVars>>

\* Mutant: the record is put back whatever happened to it.
RollbackAlways(r) ==
    /\ At(r, "Renew", "rollback")
    /\ IF rec # NoRecord THEN Update(req[r].seen) ELSE UNCHANGED rec
    /\ Done(r)
    /\ UNCHANGED <<current, historyVars, mailVars, boundVars, envVars>>

\* The record is put back if it is still the one that was written.  What is in
\* it then may be the link of another renewal that nobody got.
Stranded(r) ==
    /\ rec' # NoRecord /\ rec'.secret \notin sent
    /\ \A x \in Requests \ {r} : req[x].pc \in {"publish", "rollback"} => req[x].link # rec'.secret

Rollback(r) ==
    /\ At(r, "Renew", "rollback")
    /\ IF rec # NoRecord /\ ~Changed(req[r].updated)
       THEN UpdateFrom(req[r].updated, req[r].seen) ELSE UNCHANGED rec
    /\ orphaned' = (orphaned \/ Stranded(r))
    /\ Done(r)
    /\ UNCHANGED <<current, sessions, pinSessions, guesses, renewals, mailVars, boundVars, envVars>>

-----------------------------------------------------------------------------
(* VerifyPin.                                                              *)

checkPinRequest(r) ==
    /\ rec # NoRecord
    /\ rec.pin # 0 /\ rec.pin = req[r].link /\ rec.pinExpiry >= clock
    /\ ~Blocked(rec.backoff, clock)

precheckPin(r) ==
    /\ At(r, "VerifyPin", "get")
    /\ IF checkPinRequest(r) THEN Go(r, "validate") ELSE Done(r)
    /\ UNCHANGED <<storeVars, historyVars, mailVars, boundVars, envVars>>

\* A right PIN and the last wrong one end its life.
PinTried(r) ==
    LET b == BackoffRecord(rec.backoff, clock) IN
    IF req[r].right \/ b.count >= MaxAttempts
    THEN [rec EXCEPT !.pin = 0, !.pinExpiry = 0, !.backoff = FreshBackoff]
    ELSE [rec EXCEPT !.backoff = b]

PinAttempt(r) ==
    /\ Update(PinTried(r))
    /\ IF req[r].right THEN Sign(r, pinSessions) /\ UNCHANGED guesses
       ELSE /\ guesses' = [guesses EXCEPT ![req[r].link] = Append(@, clock)]
            /\ UNCHANGED <<pinSessions, boundVars>>

\* Mutant: the request is only checked before the share is validated.
verifyPinUnchecked(r) ==
    /\ At(r, "VerifyPin", "attempt")
    /\ IF rec # NoRecord /\ rec.pin = req[r].link THEN PinAttempt(r)
       ELSE UNCHANGED <<rec, pinSessions, guesses, boundVars>>
    /\ Done(r)
    /\ UNCHANGED <<current, sessions, renewals, orphaned, mailVars, envVars>>

verifyPinAttempt(r) ==
    /\ At(r, "VerifyPin", "attempt")
    /\ IF checkPinRequest(r) THEN PinAttempt(r)
       ELSE UNCHANGED <<rec, pinSessions, guesses, boundVars>>
    /\ Done(r)
    /\ UNCHANGED <<current, sessions, renewals, orphaned, mailVars, envVars>>

-----------------------------------------------------------------------------
(* The rest of the world.                                                  *)

Tick ==
    /\ clock < MaxTime /\ clock' = clock + 1
    /\ UNCHANGED <<storeVars, historyVars, mailVars, boundVars, share, req>>

ShareEnds ==
    /\ share /\ share' = FALSE
    /\ UNCHANGED <<storeVars, historyVars, mailVars, boundVars, clock, req>>

\* The service is restarted: the record is on disk, the requests are gone.
Crash ==
    /\ Fault
    /\ req' = [r \in Requests |-> Idle]
    /\ orphaned' = (orphaned \/ \E r \in Requests : req[r].pc \in {"publish", "rollback"})
    /\ UNCHANGED <<storeVars, sessions, pinSessions, guesses, renewals, mailVars, envVars>>

Serve(r) ==
    \/ CreateToken(r) \/ PublishCreated(r)
    \/ validateShare(r)
    \/ verifyToken(r) \/ Redeem(r)
    \/ RenewGet(r) \/ RotateRead(r) \/ Rotate(r) \/ PublishRenewed(r) \/ Rollback(r)
    \/ precheckPin(r) \/ verifyPinAttempt(r)

Next ==
    \/ \E r \in Requests :
          \/ BeginCreate(r) \/ BeginVerifyToken(r) \/ BeginRenew(r) \/ BeginVerifyPin(r)
          \/ Serve(r)
    \/ CleanupShare \/ Tick \/ ShareEnds \/ Crash

Spec == Init /\ [][Next]_vars

-----------------------------------------------------------------------------
(* Properties.                                                             *)

\* A link is exchanged for one session at most, whatever requests run at the
\* same time and whatever renewal is rolled back meanwhile (service.go,
\* VerifyToken and Renew; README: "one-time guest link token").
LinkRedeemedOnce == \A n \in Links : sessions[n] <= 1

\* A PIN is good for one session, and for MaxAttempts wrong guesses with the
\* growing wait of the backoff limiter between them, also when the guesses
\* are sent at the same time (service.go, VerifyPin: precheckPin runs before
\* the remote call, verifyPinAttempt after it).
GuessesLimited ==
    \A n \in Links :
        LET g == guesses[n] IN
        /\ pinSessions[n] <= 1 /\ Len(g) <= MaxAttempts
        /\ \A i \in 1 .. Len(g) - 1 : g[i + 1] - g[i] >= Delay(i)

\* Two published renewals of a kind are at least the cooldown apart, although
\* the quota of a failed one is given back (service.go, Renew).
RenewalsSpaced ==
    \A s \in BOOLEAN : \A i, j \in 1 .. Len(renewals[s]) :
        i # j => renewals[s][i] - renewals[s][j] >= Cooldown[s]
                 \/ renewals[s][j] - renewals[s][i] >= Cooldown[s]

InFlight == {req[r].link : r \in {x \in Requests : req[x].pc \in {"publish", "rollback"}}}

\* Outside of a renewal the record holds the newest link that was published:
\* neither a failing renewal nor its roll-back takes away the link that the
\* guest was sent (service.go, Renew: "cancel the link the guest just got"),
\* unless a link that nobody got was left in the record before: by a process
\* that ended between update and event, or by a roll-back that gave way to a
\* later update or restored what an overlapping renewal had written.
NewestLinkWorks ==
    rec # NoRecord /\ ~orphaned /\ rec.secret \notin InFlight =>
        \A i \in 1 .. Len(current) :
            /\ current[i] \in published
            /\ \A j \in i + 1 .. Len(current) : current[j] \notin sent
            => rec.secret = current[i]
================================================================================
