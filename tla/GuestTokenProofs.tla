--------------------------- MODULE GuestTokenProofs ---------------------------
(***************************************************************************)
(* Proofs about the guest links of a share (module GuestToken).            *)
(*                                                                         *)
(* The argument is about two kinds of records: the one on disk, and the    *)
(* one that a failing renewal may put back.  Because every write raises    *)
(* the revision, and a write from a stale record is refused, at most one   *)
(* renewal can put a record back, and it is the one that wrote last        *)
(* (Locked).  What a link was exchanged for, how a PIN was guessed and     *)
(* when renewals went out is written down in both kinds (Accounted).       *)
(***************************************************************************)
EXTENDS GuestToken, TLAPS

MaybeRecord == Records \cup {NoRecord}

RequestStates ==
    [op : {"none", "Create", "VerifyToken", "Renew", "VerifyPin"},
     pc : {"done", "add", "get", "validate", "redeem", "read", "rotate", "publish", "rollback", "attempt"},
     link : 0 .. MaxLinks, right : BOOLEAN, session : BOOLEAN,
     now : Nat, seen : MaybeRecord, updated : MaybeRecord, tries : Nat]

TypeOK ==
    /\ rec \in MaybeRecord /\ req \in [Requests -> RequestStates]
    /\ clock \in Nat /\ issued \in 0 .. MaxLinks
    /\ sent \subseteq Links /\ published \subseteq Links /\ nonces \subseteq Links
    /\ sessions \in [Links -> Nat] /\ pinSessions \in [Links -> Nat]
    /\ guesses \in [Links -> Seq(Nat)] /\ renewals \in [BOOLEAN -> Seq(Nat)]
    /\ current \in Seq(Links)

\* The request has written the record and not yet settled the event.
Written(r) == req[r].pc \in {"publish", "rollback"}

\* The request has a link of its own.
Holding(r) == Written(r) \/ req[r].pc \in {"read", "rotate"}

\* What the place of a request says about what it carries.
PlacedAt(q) ==
    /\ q.pc \in {"read", "rotate", "rollback"} => q.op = "Renew"
    /\ q.pc = "publish" => q.op \in {"Create", "Renew"}
    /\ q.pc = "redeem" => q.op = "VerifyToken"
    /\ q.pc = "validate" => q.op \in {"VerifyToken", "Renew", "VerifyPin"}
    /\ q.pc \in {"rotate", "publish", "rollback"} /\ q.op = "Renew" => q.seen \in Records
    /\ q.pc \in {"publish", "rollback"} /\ q.op = "Renew" => q.updated \in Records
    /\ q.pc \in {"validate", "redeem"} /\ q.op = "VerifyToken" => q.seen \in Records /\ q.seen.secret = q.link

Placed == \A r \in Requests : PlacedAt(req[r])

\* The record is the one that was seen if its revision is.
UpToDate(x) == x # NoRecord => x.revision <= rec.revision /\ (x.revision = rec.revision => rec = x)

\* The renewal may still put back what it has seen.
Restorable(r) ==
    /\ Written(r) /\ rec # NoRecord /\ req[r].updated # NoRecord
    /\ req[r].updated.revision = rec.revision

\* The record is created once: a share that has lost its record gets no other.
CreatedOnce ==
    /\ rec = NoRecord /\ current # <<>> => ~share /\ \A r \in Requests : req[r].op # "Create"
    /\ current = <<>> =>
          /\ rec = NoRecord
          /\ \A r \in Requests : req[r].seen = NoRecord /\ req[r].updated = NoRecord /\ ~Written(r)

\* A record that is seen again with its revision is the same, and only the last
\* to write it may put back what was there.
Locked ==
    /\ CreatedOnce
    /\ rec # NoRecord => \A r \in Requests : UpToDate(req[r].seen) /\ UpToDate(req[r].updated)
    /\ \A r, x \in Requests : Restorable(r) /\ Restorable(x) => r = x

InCurrent(n) == \E i \in 1 .. Len(current) : current[i] = n

Named(x) == x # NoRecord => InCurrent(x.secret) /\ (x.pin # 0 => InCurrent(x.pin))

\* Every link and every PIN is new when it is issued.
Fresh ==
    /\ \A i \in 1 .. Len(current) : current[i] <= issued
    /\ Named(rec) /\ \A r \in Requests : Named(req[r].seen)
    /\ \A r \in Requests : req[r].pc \in {"read", "rotate"} =>
          req[r].link \in 1 .. issued /\ ~InCurrent(req[r].link)
    /\ \A r \in Requests : Written(r) => InCurrent(req[r].link) /\ req[r].link \notin published
    /\ \A r, x \in Requests : Holding(r) /\ Holding(x) /\ req[r].link = req[x].link => r = x
    /\ \A n \in sent : InCurrent(n)
    /\ published \subseteq sent
    /\ \A n \in Links : ~InCurrent(n) => sessions[n] = 0 /\ pinSessions[n] = 0 /\ guesses[n] = <<>>

-----------------------------------------------------------------------------
(* What the record x says about the past.                                  *)

LinkAccounted(x) == sessions[x.secret] = 0 \/ x.redeemed

PinAccounted(x) ==
    LET g == guesses[x.pin] IN
    x.pin # 0 =>
        /\ pinSessions[x.pin] = 0 /\ Len(g) = x.backoff.count /\ x.backoff.count < MaxAttempts
        /\ Len(g) > 0 => x.backoff.notBefore = g[Len(g)] + Delay(Len(g))

\* The renewal of kind s that is at its event.
Renewing(r, s) == req[r].op = "Renew" /\ req[r].pc = "publish" /\ req[r].session = s

QuotaAccounted(x, others) ==
    \A s \in BOOLEAN :
        /\ \A i \in 1 .. Len(renewals[s]) : renewals[s][i] + Cooldown[s] <= x.quota[s].notBefore
        /\ \A r \in others : Renewing(r, s) => req[r].now + Cooldown[s] <= x.quota[s].notBefore

Apart(a, b, s) == a - b >= Cooldown[s] \/ b - a >= Cooldown[s]

\* The renewals that were published or are about to be are apart.
PendingSpaced ==
    \A s \in BOOLEAN, r \in Requests : Renewing(r, s) =>
        /\ \A i \in 1 .. Len(renewals[s]) : Apart(renewals[s][i], req[r].now, s)
        /\ \A x \in Requests : x # r /\ Renewing(x, s) => Apart(req[x].now, req[r].now, s)

SpacedInv ==
    /\ rec # NoRecord => QuotaAccounted(rec, Requests)
    /\ \A r \in Requests : Restorable(r) => QuotaAccounted(req[r].seen, Requests \ {r})
    /\ RenewalsSpaced
    /\ PendingSpaced
    /\ current = <<>> => \A s \in BOOLEAN : Len(renewals[s]) = 0

\* No link after place i, up to place n, was published or is about to be.
NoneAfter(i, n) ==
    \A j \in i + 1 .. n :
        current[j] \notin published /\ \A r \in Requests : req[r].pc = "publish" => req[r].link # current[j]

\* The link is that of a request that has not settled its event.
Flying(n) == \E r \in Requests : Written(r) /\ req[r].link = n

NewestInv ==
    /\ \A i, j \in 1 .. Len(current) : current[i] = current[j] => i = j
    /\ rec # NoRecord /\ ~orphaned => rec.secret \in sent \/ Flying(rec.secret)
    /\ rec # NoRecord => \A i \in 1 .. Len(current) : current[i] = rec.secret => NoneAfter(i, Len(current))
    /\ \A r \in Requests : Restorable(r) =>
          /\ current[Len(current)] = req[r].link
          /\ \A i \in 1 .. Len(current) : current[i] = req[r].seen.secret => NoneAfter(i, Len(current) - 1)

LinkInv ==
    /\ LinkRedeemedOnce
    /\ rec # NoRecord => LinkAccounted(rec)
    /\ \A r \in Requests : Restorable(r) => LinkAccounted(req[r].seen)

PinInv ==
    /\ GuessesLimited
    /\ rec # NoRecord => PinAccounted(rec)
    /\ \A r \in Requests : Restorable(r) => PinAccounted(req[r].seen)

-----------------------------------------------------------------------------
(* Types.                                                                  *)

\* A wait is a number, whatever base and cap are.
LEMMA DelayType == \A k \in Nat \ {0} : Delay(k) \in Int
<1> SUFFICES ASSUME NEW k \in Nat \ {0} PROVE Delay(k) \in Int
    OBVIOUS
<1>1. 2 ^ (k - 1) \in Int
    OBVIOUS
<1>2. BackoffBase * 2 ^ (k - 1) \in Int
    BY <1>1, GuestAssumption
<1>3. Delay(k) \in {BackoffBase * 2 ^ (k - 1), BackoffCap}
    BY <1>2, GuestAssumption DEF Delay, Min
<1> QED BY <1>2, <1>3, GuestAssumption

\* A request that is not running has the type of a request.
LEMMA IdleType == Idle \in RequestStates
BY GuestAssumption DEF Idle, RequestStates, MaybeRecord

\* Records: what the writes leave.
LEMMA NewRecordType ==
    ASSUME clock \in Nat, NEW n \in Nat
    PROVE  /\ NewRecord(n) \in Records
           /\ NewRecord(n).secret = n /\ NewRecord(n).pin = 0
           /\ \A s \in BOOLEAN : NewRecord(n).quota[s].notBefore = 0
BY GuestAssumption DEF NewRecord, Records, FreshBackoff, FreshQuota, Backoffs, Quotas

\* A quota that is used is not available before the cooldown is over.
LEMMA QuotaType ==
    ASSUME NEW q \in Quotas, NEW s \in BOOLEAN, NEW now \in Nat
    PROVE  QuotaRecord(q, s, now) \in Quotas /\ QuotaRecord(q, s, now).notBefore = now + Cooldown[s]
BY GuestAssumption DEF QuotaRecord, Quotas

WithLink(x, n, e, s, v) == [x EXCEPT !.secret = n, !.expiry = e, !.redeemed = FALSE, !.quota[s] = v]
WithPin(x, n, e, f) == [x EXCEPT !.pin = n, !.pinExpiry = e, !.backoff = f]
WithBackoff(x, f) == [x EXCEPT !.backoff = f]
WithRedeemed(x) == [x EXCEPT !.redeemed = TRUE]
WithRevision(x, k) == [x EXCEPT !.revision = k]

\* Marking a link as redeemed leaves the rest of the record.
LEMMA RedeemedWritten ==
    ASSUME NEW x \in Records, NEW y, y = WithRedeemed(x)
    PROVE  /\ y \in Records /\ y.redeemed /\ y.secret = x.secret /\ y.pin = x.pin
           /\ y.backoff = x.backoff /\ y.quota = x.quota
BY DEF Records, WithRedeemed

\* Entering a link leaves the PIN and the other quota.
LEMMA LinkWritten ==
    ASSUME NEW x \in Records, NEW n \in Nat, NEW e \in Nat, NEW s \in BOOLEAN, NEW v \in Quotas, NEW y,
           y = WithLink(x, n, e, s, v)
    PROVE  /\ y \in Records /\ y.secret = n /\ ~y.redeemed /\ y.quota[s] = v
           /\ \A z \in BOOLEAN : z # s => y.quota[z] = x.quota[z]
           /\ y.pin = x.pin /\ y.backoff = x.backoff
BY DEF Records, WithLink

\* Entering or clearing a PIN leaves the link and the quotas.
LEMMA PinWritten ==
    ASSUME NEW x \in Records, NEW n \in Nat, NEW e \in Nat, NEW f \in Backoffs, NEW y, y = WithPin(x, n, e, f)
    PROVE  /\ y \in Records /\ y.secret = x.secret /\ y.redeemed = x.redeemed /\ y.quota = x.quota
           /\ y.pin = n /\ y.backoff = f
BY DEF Records, WithPin

\* Counting a wrong guess leaves link, PIN and quotas.
LEMMA BackoffWritten ==
    ASSUME NEW x \in Records, NEW f \in Backoffs, NEW y, y = WithBackoff(x, f)
    PROVE  /\ y \in Records /\ y.secret = x.secret /\ y.redeemed = x.redeemed /\ y.quota = x.quota
           /\ y.pin = x.pin /\ y.backoff = f
BY DEF Records, WithBackoff

\* Raising the revision leaves everything else.
LEMMA RevisionWritten ==
    ASSUME NEW x \in Records, NEW k \in Nat, NEW y, y = WithRevision(x, k)
    PROVE  /\ y \in Records /\ y.revision = k /\ y.secret = x.secret /\ y.redeemed = x.redeemed
           /\ y.quota = x.quota /\ y.pin = x.pin /\ y.backoff = x.backoff
BY DEF Records, WithRevision

\* What rotateGuestToken writes.
LEMMA RotatedType ==
    ASSUME TypeOK, NEW r \in Requests, rec \in Records, NEW y, y = Rotated(r)
    PROVE  /\ y \in Records /\ y.secret = req[r].link /\ ~y.redeemed
           /\ \A s \in BOOLEAN : y.quota[s].notBefore =
                 IF s = req[r].session THEN req[r].now + Cooldown[s] ELSE rec.quota[s].notBefore
           /\ req[r].session => y.pin = req[r].link /\ y.backoff = FreshBackoff
           /\ ~req[r].session => y.pin = rec.pin /\ y.backoff = rec.backoff
<1> DEFINE q == req[r]
           v == QuotaRecord(rec.quota[q.session], q.session, q.now)
           e == q.now + guestLinkTokenTTL
           f == q.now + PinTTL
           link == WithLink(rec, q.link, e, q.session, v)
           pin == WithPin(link, q.link, f, FreshBackoff)
<1>0. q \in RequestStates
    BY DEF TypeOK
<1>1. q.session \in BOOLEAN /\ q.now \in Nat /\ q.link \in Nat /\ e \in Nat /\ f \in Nat
    BY <1>0, GuestAssumption DEF RequestStates
<1>2. rec.quota[q.session] \in Quotas
    BY <1>1 DEF Records
<1>3. v \in Quotas /\ v.notBefore = q.now + Cooldown[q.session]
    BY <1>1, <1>2, QuotaType
<1>4. /\ link \in Records /\ link.secret = q.link /\ ~link.redeemed
      /\ link.quota[q.session] = v
      /\ \A s \in BOOLEAN : s # q.session => link.quota[s] = rec.quota[s]
      /\ link.pin = rec.pin /\ link.backoff = rec.backoff
    <2> HIDE DEF v, e, q
    <2>1. PICK y1 : y1 = link
        OBVIOUS
    <2> HIDE DEF link
    <2>2. y1 = WithLink(rec, q.link, e, q.session, v)
        BY <2>1 DEF link
    <2>3. /\ y1 \in Records /\ y1.secret = q.link /\ ~y1.redeemed /\ y1.quota[q.session] = v
          /\ \A z \in BOOLEAN : z # q.session => y1.quota[z] = rec.quota[z]
          /\ y1.pin = rec.pin /\ y1.backoff = rec.backoff
        <3>1. PICK n \in Nat, e1 \in Nat, s1 \in BOOLEAN : n = q.link /\ e1 = e /\ s1 = q.session
            BY <1>1
        <3>2. y1 = WithLink(rec, n, e1, s1, v)
            BY <2>2, <3>1
        <3>3. /\ y1 \in Records /\ y1.secret = n /\ ~y1.redeemed /\ y1.quota[s1] = v
              /\ \A z \in BOOLEAN : z # s1 => y1.quota[z] = rec.quota[z]
              /\ y1.pin = rec.pin /\ y1.backoff = rec.backoff
            BY <3>2, <1>3, LinkWritten
        <3> QED BY <3>1, <3>3
    <2> QED BY <2>1, <2>3
<1>5. y = IF q.session THEN pin ELSE link
    BY DEF Rotated, WithLink, WithPin
<1>6. FreshBackoff \in Backoffs
    BY DEF FreshBackoff, Backoffs
<1>7. CASE q.session
    <2>1. y = pin
        BY <1>5, <1>7
    <2> HIDE DEF v, e, f, q, link
    <2>2. /\ y \in Records /\ y.secret = link.secret /\ y.redeemed = link.redeemed /\ y.quota = link.quota
          /\ y.pin = q.link /\ y.backoff = FreshBackoff
        <3>1. PICK n \in Nat, e1 \in Nat : n = q.link /\ e1 = f
            BY <1>1
        <3>2. y = WithPin(link, n, e1, FreshBackoff)
            BY <2>1, <3>1
        <3>3. /\ y \in Records /\ y.secret = link.secret /\ y.redeemed = link.redeemed /\ y.quota = link.quota
              /\ y.pin = n /\ y.backoff = FreshBackoff
            BY <3>2, <1>4, <1>6, PinWritten
        <3> QED BY <3>1, <3>3
    <2> QED BY <2>2, <1>1, <1>3, <1>4, <1>7 DEF q
<1>8. CASE ~q.session
    <2>1. y = link
        BY <1>5, <1>8
    <2> HIDE DEF v, e, f, q, link
    <2> QED BY <2>1, <1>1, <1>3, <1>4, <1>8 DEF q
<1> QED BY <1>7, <1>8

\* What verifyPinAttempt writes: a PIN that is gone, or one more wrong guess.
LEMMA PinTriedType ==
    ASSUME TypeOK, NEW r \in Requests, rec \in Records, NEW y, y = PinTried(r)
    PROVE  /\ y \in Records /\ y.secret = rec.secret /\ y.redeemed = rec.redeemed /\ y.quota = rec.quota
           /\ \/ y.pin = 0
              \/ /\ ~req[r].right /\ rec.backoff.count + 1 < MaxAttempts /\ y.pin = rec.pin
                 /\ y.backoff.count = rec.backoff.count + 1
                 /\ y.backoff.notBefore = clock + Delay(rec.backoff.count + 1)
<1> DEFINE b == BackoffRecord(rec.backoff, clock)
<1>1. rec.backoff \in Backoffs /\ clock \in Nat
    BY DEF TypeOK, Records
<1>2. rec.backoff.count \in Nat
    BY <1>1 DEF Backoffs
<1>3. Delay(rec.backoff.count + 1) \in Int
    BY <1>2, DelayType
<1>4. b \in Backoffs /\ b.count = rec.backoff.count + 1 /\ b.notBefore = clock + Delay(rec.backoff.count + 1)
    BY <1>1, <1>2, <1>3 DEF BackoffRecord, Backoffs
<1>5. FreshBackoff \in Backoffs
    BY DEF FreshBackoff, Backoffs
<1>6. y = IF req[r].right \/ b.count >= MaxAttempts
          THEN WithPin(rec, 0, 0, FreshBackoff) ELSE WithBackoff(rec, b)
    BY DEF PinTried, WithPin, WithBackoff
<1> HIDE DEF b
<1>7. CASE req[r].right \/ b.count >= MaxAttempts
    <2>1. y = WithPin(rec, 0, 0, FreshBackoff)
        BY <1>6, <1>7
    <2> QED BY <2>1, <1>5, PinWritten
<1>8. CASE ~(req[r].right \/ b.count >= MaxAttempts)
    <2>1. y = WithBackoff(rec, b)
        BY <1>6, <1>8
    <2>2. /\ y \in Records /\ y.secret = rec.secret /\ y.redeemed = rec.redeemed /\ y.quota = rec.quota
          /\ y.pin = rec.pin /\ y.backoff = b
        BY <2>1, <1>4, BackoffWritten
    <2>3. ~req[r].right /\ ~(rec.backoff.count + 1 >= MaxAttempts)
        BY <1>4, <1>8
    <2>4. rec.backoff.count + 1 < MaxAttempts
        BY <2>3, <1>2, GuestAssumption
    <2> QED BY <2>2, <2>3, <2>4, <1>4
<1> QED BY <1>7, <1>8

-----------------------------------------------------------------------------
(* What a step of a request does, said without the requests' records.      *)

Frame(r) == req' \in [Requests -> RequestStates] /\ \A x \in Requests \ {r} : req'[x] = req[x]

AfterPc(q, p) == [q EXCEPT !.pc = p]
AfterLink(q, p, n) == [q EXCEPT !.pc = p, !.link = n]
AfterSeen(q, p, x) == [q EXCEPT !.pc = p, !.seen = x]
AfterRead(q, p, x, t) == [q EXCEPT !.pc = p, !.seen = x, !.tries = t]
AfterUpdate(q, p, x) == [q EXCEPT !.pc = p, !.updated = x]

Pcs == {"done", "add", "get", "validate", "redeem", "read", "rotate", "publish", "rollback", "attempt"}

\* All but the named fields of a request are kept.
Same(y, q) == y.op = q.op /\ y.right = q.right /\ y.session = q.session /\ y.now = q.now

\* A request that goes on.
LEMMA AfterPcType ==
    ASSUME NEW q \in RequestStates, NEW p \in Pcs, NEW y, y = AfterPc(q, p)
    PROVE  y \in RequestStates /\ Same(y, q) /\ y.pc = p /\ y.link = q.link /\ y.seen = q.seen /\ y.updated = q.updated
BY DEF RequestStates, Same, AfterPc, Pcs

\* A request that gets its link.
LEMMA AfterLinkType ==
    ASSUME NEW q \in RequestStates, NEW p \in Pcs, NEW n \in 0 .. MaxLinks, NEW y, y = AfterLink(q, p, n)
    PROVE  y \in RequestStates /\ Same(y, q) /\ y.pc = p /\ y.link = n /\ y.seen = q.seen /\ y.updated = q.updated
BY DEF RequestStates, Same, AfterLink, Pcs

\* A request that has read the record.
LEMMA AfterSeenType ==
    ASSUME NEW q \in RequestStates, NEW p \in Pcs, NEW x \in MaybeRecord, NEW y, y = AfterSeen(q, p, x)
    PROVE  y \in RequestStates /\ Same(y, q) /\ y.pc = p /\ y.link = q.link /\ y.seen = x /\ y.updated = q.updated
BY DEF RequestStates, Same, AfterSeen, Pcs

\* A renewal that has read the record to write it.
LEMMA AfterReadType ==
    ASSUME NEW q \in RequestStates, NEW p \in Pcs, NEW x \in MaybeRecord, NEW t \in Nat, NEW y,
           y = AfterRead(q, p, x, t)
    PROVE  y \in RequestStates /\ Same(y, q) /\ y.pc = p /\ y.link = q.link /\ y.seen = x /\ y.updated = q.updated
BY DEF RequestStates, Same, AfterRead, Pcs

\* A renewal that has written the record.
LEMMA AfterUpdateType ==
    ASSUME NEW q \in RequestStates, NEW p \in Pcs, NEW x \in MaybeRecord, NEW y, y = AfterUpdate(q, p, x)
    PROVE  y \in RequestStates /\ Same(y, q) /\ y.pc = p /\ y.link = q.link /\ y.seen = q.seen /\ y.updated = x
BY DEF RequestStates, Same, AfterUpdate, Pcs

\* One request changes, the others do not.
LEMMA FrameStep ==
    ASSUME req \in [Requests -> RequestStates], NEW r \in Requests, NEW y \in RequestStates,
           req' = [req EXCEPT ![r] = y]
    PROVE  Frame(r) /\ req'[r] = y
BY DEF Frame

\* What an answered request carries: nothing.
LEMMA IdleFields ==
    /\ Idle \in RequestStates /\ PlacedAt(Idle)
    /\ Idle.op = "none" /\ Idle.pc = "done" /\ Idle.link = 0
    /\ Idle.seen = NoRecord /\ Idle.updated = NoRecord
BY IdleType DEF Idle, PlacedAt

\* The ways in which req changes, each with what it leaves of the request.
LEMMA Dones ==
    ASSUME TypeOK, NEW r \in Requests, Done(r)
    PROVE  Frame(r) /\ req'[r] = Idle
<1>1. req' = [req EXCEPT ![r] = Idle]
    BY DEF Done
<1> QED BY <1>1, IdleFields, FrameStep DEF TypeOK

\* The request only goes to another place.
LEMMA Goes ==
    ASSUME TypeOK, NEW r \in Requests, NEW p \in Pcs, Go(r, p)
    PROVE  /\ Frame(r) /\ Same(req'[r], req[r]) /\ req'[r].pc = p
           /\ req'[r].link = req[r].link /\ req'[r].seen = req[r].seen /\ req'[r].updated = req[r].updated
<1> DEFINE y == AfterPc(req[r], p)
<1>0. req[r] \in RequestStates /\ req \in [Requests -> RequestStates]
    BY DEF TypeOK
<1>1. req' = [req EXCEPT ![r] = y]
    BY <1>0 DEF Go, AfterPc
<1> HIDE DEF y
<1>2. /\ y \in RequestStates /\ Same(y, req[r]) /\ y.pc = p
      /\ y.link = req[r].link /\ y.seen = req[r].seen /\ y.updated = req[r].updated
    BY <1>0, AfterPcType DEF y
<1>3. Frame(r) /\ req'[r] = y
    BY <1>0, <1>1, <1>2, FrameStep
<1> QED BY <1>2, <1>3

\* The request also gets a link.
LEMMA Linked ==
    ASSUME TypeOK, NEW r \in Requests, NEW p \in Pcs, NEW n \in 0 .. MaxLinks,
           req' = [req EXCEPT ![r].pc = p, ![r].link = n]
    PROVE  /\ Frame(r) /\ Same(req'[r], req[r]) /\ req'[r].pc = p
           /\ req'[r].link = n /\ req'[r].seen = req[r].seen /\ req'[r].updated = req[r].updated
<1> DEFINE y == AfterLink(req[r], p, n)
<1>0. req[r] \in RequestStates /\ req \in [Requests -> RequestStates]
    BY DEF TypeOK
<1>1. req' = [req EXCEPT ![r] = y]
    BY <1>0 DEF AfterLink
<1> HIDE DEF y
<1>2. /\ y \in RequestStates /\ Same(y, req[r]) /\ y.pc = p
      /\ y.link = n /\ y.seen = req[r].seen /\ y.updated = req[r].updated
    BY <1>0, AfterLinkType DEF y
<1>3. Frame(r) /\ req'[r] = y
    BY <1>0, <1>1, <1>2, FrameStep
<1> QED BY <1>2, <1>3

\* The request also keeps the record it has read.
LEMMA Sees ==
    ASSUME TypeOK, NEW r \in Requests, NEW p \in Pcs, NEW x \in MaybeRecord,
           \/ req' = [req EXCEPT ![r].pc = p, ![r].seen = x]
           \/ req' = [req EXCEPT ![r].pc = p, ![r].seen = x, ![r].tries = @ + 1]
    PROVE  /\ Frame(r) /\ Same(req'[r], req[r]) /\ req'[r].pc = p
           /\ req'[r].link = req[r].link /\ req'[r].seen = x /\ req'[r].updated = req[r].updated
<1> DEFINE t == req[r].tries + 1
           y == AfterSeen(req[r], p, x)
           z == AfterRead(req[r], p, x, t)
<1>0. req[r] \in RequestStates /\ req \in [Requests -> RequestStates]
    BY DEF TypeOK
<1>1. t \in Nat
    BY <1>0 DEF RequestStates
<1>2. CASE req' = [req EXCEPT ![r].pc = p, ![r].seen = x]
    <2>1. req' = [req EXCEPT ![r] = y]
        BY <1>0, <1>2 DEF AfterSeen
    <2> HIDE DEF y, t, z
    <2>2. /\ y \in RequestStates /\ Same(y, req[r]) /\ y.pc = p
          /\ y.link = req[r].link /\ y.seen = x /\ y.updated = req[r].updated
        BY <1>0, AfterSeenType DEF y
    <2>3. Frame(r) /\ req'[r] = y
        BY <1>0, <2>1, <2>2, FrameStep
    <2> QED BY <2>2, <2>3
<1>3. CASE req' = [req EXCEPT ![r].pc = p, ![r].seen = x, ![r].tries = @ + 1]
    <2>1. req' = [req EXCEPT ![r] = z]
        BY <1>0, <1>3 DEF AfterRead
    <2> HIDE DEF y, z, t
    <2>2. /\ z \in RequestStates /\ Same(z, req[r]) /\ z.pc = p
          /\ z.link = req[r].link /\ z.seen = x /\ z.updated = req[r].updated
        BY <1>0, <1>1, AfterReadType DEF z
    <2>3. Frame(r) /\ req'[r] = z
        BY <1>0, <2>1, <2>2, FrameStep
    <2> QED BY <2>2, <2>3
<1> QED BY <1>2, <1>3

\* The request also keeps the record it has written.
LEMMA Updates ==
    ASSUME TypeOK, NEW r \in Requests, NEW p \in Pcs, NEW x \in MaybeRecord,
           req' = [req EXCEPT ![r].pc = p, ![r].updated = x]
    PROVE  /\ Frame(r) /\ Same(req'[r], req[r]) /\ req'[r].pc = p
           /\ req'[r].link = req[r].link /\ req'[r].seen = req[r].seen /\ req'[r].updated = x
<1> DEFINE y == AfterUpdate(req[r], p, x)
<1>0. req[r] \in RequestStates /\ req \in [Requests -> RequestStates]
    BY DEF TypeOK
<1>1. req' = [req EXCEPT ![r] = y]
    BY <1>0 DEF AfterUpdate
<1> HIDE DEF y
<1>2. /\ y \in RequestStates /\ Same(y, req[r]) /\ y.pc = p
      /\ y.link = req[r].link /\ y.seen = req[r].seen /\ y.updated = x
    BY <1>0, AfterUpdateType DEF y
<1>3. Frame(r) /\ req'[r] = y
    BY <1>0, <1>1, <1>2, FrameStep
<1> QED BY <1>2, <1>3

-----------------------------------------------------------------------------
(* The steps, by what they mean for the record, the links and the history. *)

\* The request moves on before it has written anything, or is answered.
Advances(r) ==
    /\ Frame(r) /\ PlacedAt(req'[r]) /\ ~Written(r) /\ ~Written(r)'
    /\ req'[r].seen \in {NoRecord, rec, req[r].seen}
    /\ req'[r].updated \in {NoRecord, req[r].updated}
    /\ req'[r].op = "Create" => req[r].op = "Create" \/ share
    /\ issued' \in {issued, issued + 1} /\ issued' <= MaxLinks
    /\ Holding(r)' => \/ Holding(r) /\ req'[r].link = req[r].link
                      \/ issued' = issued + 1 /\ req'[r].link = issued + 1
    /\ UNCHANGED <<storeVars, historyVars, mailVars, envVars>>

\* A request or the world changes neither the record nor the history.
Waits ==
    /\ share' => share
    /\ clock' \in Nat
    /\ UNCHANGED <<storeVars, historyVars, mailVars, issued, req>>

Creates(r) ==
    /\ Frame(r) /\ req[r].op = "Create" /\ req[r].pc = "add" /\ Same(req'[r], req[r])
    /\ req'[r].pc = "publish" /\ req'[r].link = issued + 1
    /\ req'[r].seen = req[r].seen /\ req'[r].updated = req[r].updated
    /\ issued' = issued + 1 /\ issued + 1 <= MaxLinks
    /\ rec = NoRecord /\ rec' \in Records /\ rec'.secret = issued + 1 /\ rec'.pin = 0
    /\ \A s \in BOOLEAN : rec'.quota[s].notBefore = 0
    /\ current' = Append(current, rec'.secret)
    /\ UNCHANGED <<historyVars, mailVars, envVars>>

Answers(r) == Frame(r) /\ req'[r] = Idle

Settles(r) ==
    /\ Answers(r) /\ req[r].pc = "publish"
    /\ sent' = sent \cup {req[r].link} /\ published' = published \cup {req[r].link}
    /\ nonces' \subseteq nonces \cup {req[r].link}
    /\ \/ req[r].op = "Create" /\ renewals' = renewals
       \/ /\ req[r].op = "Renew"
          /\ renewals' = [renewals EXCEPT ![req[r].session] = Append(@, req[r].now)]
    /\ UNCHANGED <<storeVars, sessions, pinSessions, guesses, orphaned, issued, envVars>>

Loses(r) ==
    /\ Answers(r) /\ req[r].pc = "publish" /\ req[r].op = "Create" /\ orphaned' = TRUE
    /\ UNCHANGED <<storeVars, sessions, pinSessions, guesses, renewals, mailVars, issued, envVars>>

Fails(r) ==
    /\ Frame(r) /\ req[r].pc = "publish" /\ req[r].op = "Renew" /\ Same(req'[r], req[r])
    /\ req'[r].pc = "rollback" /\ req'[r].link = req[r].link
    /\ req'[r].seen = req[r].seen /\ req'[r].updated = req[r].updated
    /\ sent' \in {sent, sent \cup {req[r].link}}
    /\ UNCHANGED <<storeVars, historyVars, published, nonces, issued, envVars>>

\* A write over the record that is there.
Writes == rec \in Records /\ rec' \in Records /\ rec'.revision = rec.revision + 1

Redeems(r) ==
    /\ Answers(r) /\ ~Written(r) /\ Writes
    /\ rec.secret = req[r].link /\ ~rec.redeemed
    /\ rec'.redeemed /\ rec'.secret = rec.secret
    /\ rec'.pin = rec.pin /\ rec'.backoff = rec.backoff /\ rec'.quota = rec.quota
    /\ sessions' \in {sessions, [sessions EXCEPT ![rec.secret] = @ + 1]}
    /\ UNCHANGED <<current, pinSessions, guesses, renewals, orphaned, mailVars, issued, envVars>>

Rotates(r) ==
    /\ Frame(r) /\ Writes /\ req[r].op = "Renew" /\ req[r].pc = "rotate" /\ Same(req'[r], req[r])
    /\ req[r].seen = rec /\ req'[r].seen = rec /\ req'[r].updated = rec'
    /\ req'[r].pc = "publish" /\ req'[r].link = req[r].link
    /\ rec.quota[req[r].session].notBefore <= req[r].now
    /\ rec'.secret = req[r].link /\ ~rec'.redeemed
    /\ \A s \in BOOLEAN : rec'.quota[s].notBefore =
          IF s = req[r].session THEN req[r].now + Cooldown[s] ELSE rec.quota[s].notBefore
    /\ \/ rec'.pin = req[r].link /\ rec'.backoff = FreshBackoff
       \/ rec'.pin = rec.pin /\ rec'.backoff = rec.backoff
    /\ current' = Append(current, rec'.secret)
    /\ UNCHANGED <<historyVars, mailVars, issued, envVars>>

RollsBack(r) ==
    /\ Answers(r) /\ req[r].pc = "rollback" /\ Restorable(r) /\ Writes
    /\ rec'.secret = req[r].seen.secret /\ rec'.redeemed = req[r].seen.redeemed
    /\ rec'.pin = req[r].seen.pin /\ rec'.backoff = req[r].seen.backoff /\ rec'.quota = req[r].seen.quota
    /\ orphaned' = (orphaned \/ Stranded(r))
    /\ UNCHANGED <<current, sessions, pinSessions, guesses, renewals, mailVars, issued, envVars>>

GivesWay(r) ==
    /\ Answers(r) /\ req[r].pc = "rollback" /\ rec' = rec
    /\ orphaned' = (orphaned \/ Stranded(r))
    /\ UNCHANGED <<current, sessions, pinSessions, guesses, renewals, mailVars, issued, envVars>>

TriesPin(r) ==
    /\ Answers(r) /\ ~Written(r) /\ Writes
    /\ rec.pin # 0 /\ rec.pin = req[r].link /\ rec.backoff.notBefore <= clock
    /\ rec'.secret = rec.secret /\ rec'.redeemed = rec.redeemed /\ rec'.quota = rec.quota
    /\ \/ /\ rec'.pin = 0
          /\ \/ pinSessions' \in {pinSessions, [pinSessions EXCEPT ![rec.pin] = @ + 1]} /\ guesses' = guesses
             \/ pinSessions' = pinSessions /\ guesses' = [guesses EXCEPT ![rec.pin] = Append(@, clock)]
       \/ /\ rec.backoff.count + 1 < MaxAttempts /\ rec'.pin = rec.pin
          /\ rec'.backoff.count = rec.backoff.count + 1
          /\ rec'.backoff.notBefore = clock + Delay(rec.backoff.count + 1)
          /\ pinSessions' = pinSessions /\ guesses' = [guesses EXCEPT ![rec.pin] = Append(@, clock)]
    /\ UNCHANGED <<current, sessions, renewals, orphaned, mailVars, issued, envVars>>

Cleans ==
    /\ ~share /\ (\A r \in Requests : req[r].op # "Create") /\ rec' = NoRecord
    /\ UNCHANGED <<current, historyVars, mailVars, issued, envVars, req>>

Crashes ==
    /\ req' \in [Requests -> RequestStates] /\ \A r \in Requests : req'[r] = Idle
    /\ orphaned' = (orphaned \/ \E r \in Requests : req[r].pc \in {"publish", "rollback"})
    /\ UNCHANGED <<storeVars, sessions, pinSessions, guesses, renewals, mailVars, issued, envVars>>

Steps ==
    \/ \E r \in Requests :
          \/ Advances(r) \/ Creates(r) \/ Settles(r) \/ Loses(r) \/ Fails(r)
          \/ Redeems(r) \/ Rotates(r) \/ RollsBack(r) \/ GivesWay(r) \/ TriesPin(r)
    \/ Waits \/ Cleans \/ Crashes

Beginning(op, pc, n, right, s, now) ==
    [Idle EXCEPT !.op = op, !.pc = pc, !.link = n, !.right = right, !.session = s, !.now = now]

\* What a request carries when it begins.
LEMMA BeginFields ==
    ASSUME TypeOK,
           NEW op \in {"Create", "VerifyToken", "Renew", "VerifyPin"}, NEW pc \in {"add", "get"},
           NEW n \in 0 .. MaxLinks, NEW right \in BOOLEAN, NEW s \in BOOLEAN, NEW now \in Nat, NEW y,
           y = Beginning(op, pc, n, right, s, now)
    PROVE  y \in RequestStates /\ y.op = op /\ y.pc = pc /\ y.seen = NoRecord /\ y.updated = NoRecord
BY IdleType DEF Idle, RequestStates, MaybeRecord, Beginning

\* A request that begins has written nothing.
LEMMA BeginAdvances ==
    ASSUME TypeOK, NEW r \in Requests,
           NEW op \in {"Create", "VerifyToken", "Renew", "VerifyPin"}, NEW pc \in {"add", "get"},
           NEW n \in 0 .. MaxLinks, NEW right \in BOOLEAN, NEW s \in BOOLEAN,
           Begin(r, op, pc, n, right, s), op = "Create" => share
    PROVE  Advances(r)
<1>0. PICK now \in Nat : now = clock
    BY DEF TypeOK
<1> DEFINE z == Beginning(op, pc, n, right, s, now)
<1>1. req' = [req EXCEPT ![r] = z]
    BY <1>0 DEF Begin, Beginning
<1>a. PICK y : y = z
    OBVIOUS
<1>2. y \in RequestStates /\ y.op = op /\ y.pc = pc /\ y.seen = NoRecord /\ y.updated = NoRecord
    BY <1>a, BeginFields
<1>b. req' = [req EXCEPT ![r] = y]
    BY <1>1, <1>a
<1> HIDE DEF z
<1>3. Frame(r) /\ req'[r] = y
    BY <1>b, <1>2, FrameStep DEF TypeOK
<1>4. PlacedAt(y)
    BY <1>2 DEF PlacedAt
<1>5. req[r].pc = "done"
    BY IdleFields DEF Begin
<1>6. issued' = issued /\ issued \in 0 .. MaxLinks /\ UNCHANGED <<storeVars, historyVars, mailVars, envVars>>
    BY DEF Begin, TypeOK
<1>7. issued' <= MaxLinks
    BY <1>6, GuestAssumption
<1> QED BY <1>2, <1>3, <1>4, <1>5, <1>6, <1>7 DEF Advances, Written, Holding

\* A request that is answered before it wrote anything.
LEMMA DoneAdvances ==
    ASSUME TypeOK, NEW r \in Requests, Done(r), ~Written(r), issued' \in {issued, issued + 1}, issued' <= MaxLinks,
           UNCHANGED <<storeVars, historyVars, mailVars, envVars>>
    PROVE  Advances(r)
<1>1. Frame(r) /\ req'[r] = Idle
    BY Dones
<1> QED BY <1>1, IdleFields DEF Advances, Written, Holding

\* A request that goes on before it wrote anything.
LEMMA GoAdvances ==
    ASSUME TypeOK, Placed, NEW r \in Requests, ~Written(r), NEW p \in {"validate", "redeem", "read", "attempt"},
           Go(r, p), p = "redeem" => req[r].pc = "validate" /\ req[r].op = "VerifyToken",
           p = "read" => req[r].pc = "rotate",
           p = "validate" => req[r].op \in {"Renew", "VerifyPin"},
           issued' = issued, UNCHANGED <<storeVars, historyVars, mailVars, envVars>>
    PROVE  Advances(r)
<1>1. /\ Frame(r) /\ Same(req'[r], req[r]) /\ req'[r].pc = p
      /\ req'[r].link = req[r].link /\ req'[r].seen = req[r].seen /\ req'[r].updated = req[r].updated
    BY Goes DEF Pcs
<1>2. PlacedAt(req[r])
    BY DEF Placed
<1>3. PlacedAt(req'[r])
    BY <1>1, <1>2 DEF PlacedAt, Same
<1>4. issued' <= MaxLinks
    BY GuestAssumption DEF TypeOK
<1> QED BY <1>1, <1>3, <1>4 DEF Advances, Written, Holding, Same

\* The actions that begin a request or check it first.
LEMMA StepRequest ==
    ASSUME TypeOK, Placed, Locked, NEW r \in Requests
    PROVE  /\ BeginCreate(r) \/ BeginVerifyToken(r) \/ BeginRenew(r) \/ BeginVerifyPin(r) => Advances(r)
           /\ RenewGet(r) \/ precheckPin(r) => Advances(r)
<1>0. 0 \in 0 .. MaxLinks
    BY GuestAssumption
<1>1. BeginCreate(r) => Advances(r)
    BY <1>0, BeginAdvances DEF BeginCreate
<1>2. BeginVerifyToken(r) => Advances(r)
    <2> SUFFICES ASSUME NEW n \in sent, Begin(r, "VerifyToken", "get", n, FALSE, FALSE) PROVE Advances(r)
        BY DEF BeginVerifyToken
    <2>1. n \in 0 .. MaxLinks
        BY GuestAssumption DEF TypeOK, Links
    <2> QED BY <2>1, BeginAdvances
<1>3. BeginRenew(r) => Advances(r)
    BY <1>0, BeginAdvances DEF BeginRenew
<1>4. BeginVerifyPin(r) => Advances(r)
    <2> SUFFICES ASSUME NEW n \in nonces, NEW right \in BOOLEAN, Begin(r, "VerifyPin", "get", n, right, FALSE)
                 PROVE Advances(r)
        BY DEF BeginVerifyPin
    <2>1. n \in 0 .. MaxLinks
        BY GuestAssumption DEF TypeOK, Links
    <2> QED BY <2>1, BeginAdvances
<1>5. issued \in 0 .. MaxLinks /\ issued <= MaxLinks
    BY GuestAssumption DEF TypeOK
<1>6. RenewGet(r) => Advances(r)
    <2> SUFFICES ASSUME RenewGet(r) PROVE Advances(r)
        OBVIOUS
    <2>1. /\ req[r].op = "Renew" /\ req[r].pc = "get" /\ ~Written(r) /\ (Done(r) \/ Go(r, "validate"))
          /\ issued' = issued /\ UNCHANGED <<storeVars, historyVars, mailVars, envVars>>
        BY DEF RenewGet, At, Written, boundVars
    <2> QED BY <2>1, <1>5, DoneAdvances, GoAdvances
<1>7. precheckPin(r) => Advances(r)
    <2> SUFFICES ASSUME precheckPin(r) PROVE Advances(r)
        OBVIOUS
    <2>1. /\ req[r].op = "VerifyPin" /\ req[r].pc = "get" /\ ~Written(r) /\ (Done(r) \/ Go(r, "validate"))
          /\ issued' = issued /\ UNCHANGED <<storeVars, historyVars, mailVars, envVars>>
        BY DEF precheckPin, At, Written, boundVars
    <2> QED BY <2>1, <1>5, DoneAdvances, GoAdvances
<1> QED BY <1>1, <1>2, <1>3, <1>4, <1>6, <1>7

\* The two actions of CreateToken and its event.
LEMMA StepCreate ==
    ASSUME TypeOK, Placed, Locked, NEW r \in Requests
    PROVE  /\ CreateToken(r) => Creates(r) \/ Advances(r)
           /\ PublishCreated(r) => Settles(r) \/ Loses(r)
<1>1. ASSUME CreateToken(r) PROVE Creates(r) \/ Advances(r)
    <2>1. /\ req[r].op = "Create" /\ req[r].pc = "add" /\ ~Written(r)
          /\ issued' = issued + 1 /\ issued < MaxLinks
          /\ UNCHANGED <<historyVars, mailVars, envVars>>
        BY <1>1 DEF CreateToken, At, Written
    <2>2. issued \in Nat /\ issued + 1 \in 0 .. MaxLinks /\ issued' <= MaxLinks /\ clock \in Nat
        BY <2>1, GuestAssumption DEF TypeOK
    <2>3. CASE rec = NoRecord
        <3>1. /\ rec' = NewRecord(issued + 1) /\ current' = Append(current, rec'.secret)
              /\ req' = [req EXCEPT ![r].pc = "publish", ![r].link = issued + 1]
            BY <1>1, <2>3 DEF CreateToken
        <3>2. PICK n \in Nat : n = issued + 1
            BY <2>2
        <3>3. rec' \in Records /\ rec'.secret = n /\ rec'.pin = 0 /\ \A s \in BOOLEAN : rec'.quota[s].notBefore = 0
            BY <3>1, <3>2, <2>2, NewRecordType
        <3>4. PICK m \in 0 .. MaxLinks : m = issued + 1
            BY <2>2
        <3>5. /\ Frame(r) /\ Same(req'[r], req[r]) /\ req'[r].pc = "publish"
              /\ req'[r].link = m /\ req'[r].seen = req[r].seen /\ req'[r].updated = req[r].updated
            BY <3>1, <3>4, Linked DEF Pcs
        <3> QED BY <2>1, <2>2, <2>3, <3>1, <3>2, <3>3, <3>4, <3>5 DEF Creates
    <2>4. CASE rec # NoRecord
        <3>1. Done(r) /\ UNCHANGED storeVars
            BY <1>1, <2>4 DEF CreateToken
        <3> QED BY <2>1, <2>2, <3>1, DoneAdvances
    <2> QED BY <2>3, <2>4
<1>2. ASSUME PublishCreated(r) PROVE Settles(r) \/ Loses(r)
    <2>1. /\ req[r].op = "Create" /\ req[r].pc = "publish" /\ Answers(r)
        BY <1>2, Dones DEF PublishCreated, At, Answers
    <2> QED BY <1>2, <2>1 DEF PublishCreated, Settles, Loses, Fault, boundVars, mailVars, envVars
<1> QED BY <1>1, <1>2

\* The remote check writes nothing.
LEMMA StepValidate ==
    ASSUME TypeOK, Placed, Locked, NEW r \in Requests, validateShare(r)
    PROVE  Advances(r)
<1>1. req[r].pc = "validate" /\ ~Written(r) /\ UNCHANGED <<storeVars, historyVars, mailVars, envVars>>
    BY DEF validateShare, Written
<1>2. issued \in 0 .. MaxLinks /\ issued <= MaxLinks /\ issued \in Nat
    BY GuestAssumption DEF TypeOK
<1>3. CASE share /\ req[r].op # "Renew" /\ Go(r, NextPc(req[r].op)) /\ UNCHANGED boundVars
    <2>1. req[r].op \in {"none", "Create", "VerifyToken", "VerifyPin"}
        BY <1>3 DEF TypeOK, RequestStates
    <2>2. issued' = issued
        BY <1>3 DEF boundVars
    <2>3. CASE req[r].op = "VerifyToken"
        <3>1. NextPc(req[r].op) = "redeem"
            BY <2>3 DEF NextPc
        <3> QED BY <1>1, <1>3, <2>2, <2>3, <3>1, GoAdvances
    <2>4. CASE req[r].op = "VerifyPin"
        <3>1. NextPc(req[r].op) = "attempt"
            BY <2>4 DEF NextPc
        <3> QED BY <1>1, <1>3, <2>2, <2>4, <3>1, GoAdvances
    <2>5. CASE req[r].op \in {"none", "Create"}
        BY <1>1, <2>5 DEF Placed, PlacedAt
    <2> QED BY <2>1, <2>3, <2>4, <2>5
<1>4. CASE /\ share /\ req[r].op = "Renew" /\ issued < MaxLinks
           /\ req' = [req EXCEPT ![r].pc = "read", ![r].link = issued + 1]
           /\ issued' = issued + 1 /\ UNCHANGED <<requests, faults>>
    <2>1. PICK m \in 0 .. MaxLinks : m = issued + 1
        BY <1>2, <1>4, GuestAssumption
    <2>2. /\ Frame(r) /\ Same(req'[r], req[r]) /\ req'[r].pc = "read"
          /\ req'[r].link = m /\ req'[r].seen = req[r].seen /\ req'[r].updated = req[r].updated
        BY <1>4, <2>1, Linked DEF Pcs
    <2>3. PlacedAt(req'[r])
        BY <1>4, <2>2 DEF PlacedAt, Same
    <2>4. issued' <= MaxLinks
        BY <1>2, <1>4, GuestAssumption
    <2> QED BY <1>1, <1>4, <2>1, <2>2, <2>3, <2>4 DEF Advances, Written, Holding, Same
<1>5. CASE Done(r) /\ issued' = issued
    BY <1>1, <1>2, <1>5, DoneAdvances
<1> QED BY <1>3, <1>4, <1>5 DEF validateShare, Fault, boundVars

\* The actions of VerifyToken, and the read of a renewal.
LEMMA StepToken ==
    ASSUME TypeOK, Placed, Locked, NEW r \in Requests
    PROVE  /\ verifyToken(r) => Advances(r)
           /\ Redeem(r) => Redeems(r) \/ Advances(r)
           /\ RotateRead(r) => Advances(r)
<1>0. issued \in 0 .. MaxLinks /\ issued <= MaxLinks /\ issued \in Nat /\ rec \in MaybeRecord
    BY GuestAssumption DEF TypeOK
<1>1. ASSUME verifyToken(r) PROVE Advances(r)
    <2>1. /\ req[r].op = "VerifyToken" /\ req[r].pc = "get" /\ ~Written(r) /\ issued' = issued
          /\ UNCHANGED <<storeVars, historyVars, mailVars, envVars>>
        BY <1>1 DEF verifyToken, At, Written, boundVars
    <2>2. CASE Done(r)
        BY <1>0, <2>1, <2>2, DoneAdvances
    <2>3. CASE /\ rec # NoRecord /\ req[r].link = rec.secret
               /\ req' = [req EXCEPT ![r].pc = "validate", ![r].seen = rec]
        <3>1. /\ Frame(r) /\ Same(req'[r], req[r]) /\ req'[r].pc = "validate"
              /\ req'[r].link = req[r].link /\ req'[r].seen = rec /\ req'[r].updated = req[r].updated
            BY <1>0, <2>3, Sees DEF Pcs
        <3>2. PlacedAt(req'[r])
            BY <1>0, <2>1, <2>3, <3>1 DEF PlacedAt, Same, MaybeRecord
        <3> QED BY <1>0, <2>1, <3>1, <3>2 DEF Advances, Written, Holding, Same
    <2> QED BY <1>1, <2>2, <2>3 DEF verifyToken
<1>2. ASSUME RotateRead(r) PROVE Advances(r)
    <2>1. /\ req[r].op = "Renew" /\ req[r].pc = "read" /\ ~Written(r) /\ issued' = issued
          /\ UNCHANGED <<storeVars, historyVars, mailVars, envVars>>
        BY <1>2 DEF RotateRead, At, Written, boundVars
    <2>2. CASE Done(r)
        BY <1>0, <2>1, <2>2, DoneAdvances
    <2>3. CASE rec # NoRecord /\ req' = [req EXCEPT ![r].pc = "rotate", ![r].seen = rec, ![r].tries = @ + 1]
        <3>1. /\ Frame(r) /\ Same(req'[r], req[r]) /\ req'[r].pc = "rotate"
              /\ req'[r].link = req[r].link /\ req'[r].seen = rec /\ req'[r].updated = req[r].updated
            BY <1>0, <2>3, Sees DEF Pcs
        <3>2. PlacedAt(req'[r])
            BY <1>0, <2>1, <2>3, <3>1 DEF PlacedAt, Same, MaybeRecord
        <3> QED BY <1>0, <2>1, <3>1, <3>2 DEF Advances, Written, Holding, Same
    <2> QED BY <1>2, <2>2, <2>3 DEF RotateRead
<1>3. ASSUME Redeem(r) PROVE Redeems(r) \/ Advances(r)
    <2>1. /\ req[r].op = "VerifyToken" /\ req[r].pc = "redeem" /\ ~Written(r) /\ Done(r) /\ Answers(r)
          /\ UNCHANGED <<current, pinSessions, guesses, renewals, orphaned, mailVars, envVars>>
        BY <1>3, Dones DEF Redeem, At, Written, Answers
    <2>2. CASE UNCHANGED <<rec, sessions, boundVars>>
        BY <1>0, <2>1, <2>2, DoneAdvances DEF storeVars, historyVars, boundVars
    <2>3. CASE /\ rec # NoRecord /\ ~Changed(req[r].seen) /\ ~rec.redeemed
               /\ UpdateFrom(req[r].seen, [rec EXCEPT !.redeemed = TRUE]) /\ Sign(r, sessions)
        <3>1. req[r].seen \in Records /\ req[r].seen.secret = req[r].link
            BY <2>1 DEF Placed, PlacedAt
        <3>2. rec \in Records /\ rec.revision \in Nat /\ req[r].seen.revision \in Nat
            BY <1>0, <2>3, <3>1 DEF MaybeRecord, Records
        <3>3. UpToDate(req[r].seen) /\ ~(req[r].seen.revision < rec.revision)
            BY <2>3 DEF Locked, Changed
        <3>4. rec = req[r].seen
            BY <3>1, <3>2, <3>3, NoRecordAssumption DEF UpToDate
        <3> DEFINE y == WithRedeemed(rec)
        <3>5. /\ y \in Records /\ y.redeemed /\ y.secret = rec.secret /\ y.pin = rec.pin
              /\ y.backoff = rec.backoff /\ y.quota = rec.quota
            BY <3>2, RedeemedWritten
        <3>6. PICK k \in Nat : k = rec.revision + 1
            BY <3>2
        <3>7. rec' = WithRevision(y, k)
            BY <2>3, <3>4, <3>6 DEF UpdateFrom, WithRevision, WithRedeemed
        <3> HIDE DEF y
        <3>8. /\ rec' \in Records /\ rec'.revision = k /\ rec'.secret = y.secret /\ rec'.redeemed = y.redeemed
              /\ rec'.quota = y.quota /\ rec'.pin = y.pin /\ rec'.backoff = y.backoff
            BY <3>5, <3>7, RevisionWritten
        <3>9. Writes
            BY <3>2, <3>6, <3>8 DEF Writes
        <3>10. issued' = issued /\ sessions' \in {sessions, [sessions EXCEPT ![rec.secret] = @ + 1]}
            BY <2>3, <3>1, <3>4 DEF Sign, Fault, boundVars
        <3> QED BY <2>1, <2>3, <3>1, <3>4, <3>5, <3>8, <3>9, <3>10 DEF Redeems
    <2> QED BY <1>3, <2>2, <2>3 DEF Redeem
<1> QED BY <1>1, <1>2, <1>3

\* The write, the event and the roll-back of a renewal.
LEMMA StepRenew ==
    ASSUME TypeOK, Placed, Locked, NEW r \in Requests
    PROVE  /\ Rotate(r) => Rotates(r) \/ Advances(r)
           /\ PublishRenewed(r) => Settles(r) \/ Fails(r)
           /\ Rollback(r) => RollsBack(r) \/ GivesWay(r)
<1>0. issued \in 0 .. MaxLinks /\ issued <= MaxLinks /\ issued \in Nat /\ rec \in MaybeRecord
    BY GuestAssumption DEF TypeOK
<1>1. ASSUME Rotate(r) PROVE Rotates(r) \/ Advances(r)
    <2>1. /\ req[r].op = "Renew" /\ req[r].pc = "rotate" /\ ~Written(r) /\ issued' = issued
          /\ UNCHANGED <<historyVars, mailVars, envVars>>
        BY <1>1 DEF Rotate, At, Written, boundVars
    <2>2. CASE Done(r) /\ UNCHANGED storeVars
        BY <1>0, <2>1, <2>2, DoneAdvances
    <2>3. CASE Go(r, "read") /\ UNCHANGED storeVars
        BY <1>0, <2>1, <2>3, GoAdvances
    <2>4. CASE rec # NoRecord /\ ~Changed(req[r].seen) /\ ~RenewRefused(r) /\ RotateWrite(r)
        <3>1. req[r].seen \in Records
            BY <2>1 DEF Placed, PlacedAt
        <3>2. rec \in Records /\ rec.revision \in Nat /\ req[r].seen.revision \in Nat
            BY <1>0, <2>4, <3>1 DEF MaybeRecord, Records
        <3>3. UpToDate(req[r].seen) /\ ~(req[r].seen.revision < rec.revision)
            BY <2>4 DEF Locked, Changed
        <3>4. rec = req[r].seen
            BY <3>1, <3>2, <3>3, NoRecordAssumption DEF UpToDate
        <3> DEFINE y == Rotated(r)
        <3>5. /\ y \in Records /\ y.secret = req[r].link /\ ~y.redeemed
              /\ \A s \in BOOLEAN : y.quota[s].notBefore =
                    IF s = req[r].session THEN req[r].now + Cooldown[s] ELSE rec.quota[s].notBefore
              /\ req[r].session => y.pin = req[r].link /\ y.backoff = FreshBackoff
              /\ ~req[r].session => y.pin = rec.pin /\ y.backoff = rec.backoff
            BY <3>2, RotatedType
        <3>6. PICK k \in Nat : k = rec.revision + 1
            BY <3>2
        <3>7. rec' = WithRevision(y, k)
            BY <2>4, <3>4, <3>6 DEF RotateWrite, UpdateFrom, WithRevision
        <3>8. /\ req' = [req EXCEPT ![r].pc = "publish", ![r].updated = rec']
              /\ current' = Append(current, rec'.secret)
            BY <2>4 DEF RotateWrite
        <3> HIDE DEF y
        <3>9. /\ rec' \in Records /\ rec'.revision = k /\ rec'.secret = y.secret /\ rec'.redeemed = y.redeemed
              /\ rec'.quota = y.quota /\ rec'.pin = y.pin /\ rec'.backoff = y.backoff
            BY <3>5, <3>7, RevisionWritten
        <3>10. Writes
            BY <3>2, <3>6, <3>9 DEF Writes
        <3>11. PICK x \in MaybeRecord : x = rec'
            BY <3>9 DEF MaybeRecord
        <3>12. /\ Frame(r) /\ Same(req'[r], req[r]) /\ req'[r].pc = "publish"
               /\ req'[r].link = req[r].link /\ req'[r].seen = req[r].seen /\ req'[r].updated = x
            BY <3>8, <3>11, Updates DEF Pcs
        <3>13. rec.quota[req[r].session].notBefore <= req[r].now
            <4>1. ~(rec.quota[req[r].session].notBefore > req[r].now)
                BY <2>4 DEF RenewRefused, QuotaExceeded, Blocked
            <4>2. req[r] \in RequestStates
                BY DEF TypeOK
            <4>3. req[r].session \in BOOLEAN /\ req[r].now \in Nat
                BY <4>2 DEF RequestStates
            <4>4. rec.quota[req[r].session] \in Quotas
                BY <3>2, <4>3 DEF Records
            <4> QED BY <4>1, <4>3, <4>4 DEF Quotas
        <3>14. \A s \in BOOLEAN : rec'.quota[s].notBefore =
                  IF s = req[r].session THEN req[r].now + Cooldown[s] ELSE rec.quota[s].notBefore
            BY <3>5, <3>9
        <3>15. \/ rec'.pin = req[r].link /\ rec'.backoff = FreshBackoff
               \/ rec'.pin = rec.pin /\ rec'.backoff = rec.backoff
            BY <3>5, <3>9
        <3>16. rec'.secret = req[r].link /\ ~rec'.redeemed
            BY <3>5, <3>9
        <3> QED BY <2>1, <3>4, <3>8, <3>10, <3>11, <3>12, <3>13, <3>14, <3>15, <3>16 DEF Rotates
    <2> QED BY <1>1, <2>2, <2>3, <2>4 DEF Rotate
<1>2. ASSUME PublishRenewed(r) PROVE Settles(r) \/ Fails(r)
    <2>1. /\ req[r].op = "Renew" /\ req[r].pc = "publish"
          /\ UNCHANGED <<storeVars, sessions, pinSessions, guesses, orphaned, envVars>>
        BY <1>2 DEF PublishRenewed, At
    <2>2. CASE /\ sent' = sent \cup {req[r].link} /\ published' = published \cup {req[r].link}
               /\ nonces' = IF req[r].session THEN nonces \cup {req[r].link} ELSE nonces
               /\ renewals' = [renewals EXCEPT ![req[r].session] = Append(@, req[r].now)]
               /\ Done(r) /\ UNCHANGED boundVars
        <3>1. Answers(r) /\ issued' = issued
            BY <2>2, Dones DEF Answers, boundVars
        <3>2. nonces' \subseteq nonces \cup {req[r].link}
            BY <2>2
        <3> QED BY <2>1, <2>2, <3>1, <3>2 DEF Settles
    <2>3. CASE /\ Fault /\ sent' \in {sent, sent \cup {req[r].link}}
               /\ Go(r, "rollback") /\ UNCHANGED <<published, nonces, renewals>>
        <3>1. /\ Frame(r) /\ Same(req'[r], req[r]) /\ req'[r].pc = "rollback"
              /\ req'[r].link = req[r].link /\ req'[r].seen = req[r].seen /\ req'[r].updated = req[r].updated
            BY <2>3, Goes DEF Pcs
        <3> QED BY <2>1, <2>3, <3>1 DEF Fails, Fault, historyVars
    <2> QED BY <1>2, <2>2, <2>3 DEF PublishRenewed
<1>3. ASSUME Rollback(r) PROVE RollsBack(r) \/ GivesWay(r)
    <2>1. /\ req[r].op = "Renew" /\ req[r].pc = "rollback" /\ Answers(r) /\ issued' = issued
          /\ orphaned' = (orphaned \/ Stranded(r))
          /\ UNCHANGED <<current, sessions, pinSessions, guesses, renewals, mailVars, envVars>>
        BY <1>3, Dones DEF Rollback, At, boundVars, Answers
    <2>2. CASE rec' = rec
        BY <2>1, <2>2 DEF GivesWay
    <2>3. CASE rec # NoRecord /\ ~Changed(req[r].updated) /\ UpdateFrom(req[r].updated, req[r].seen)
        <3>1. req[r].updated \in Records /\ req[r].seen \in Records
            BY <2>1 DEF Placed, PlacedAt
        <3>2. rec \in Records /\ rec.revision \in Nat /\ req[r].updated.revision \in Nat
            BY <1>0, <2>3, <3>1 DEF MaybeRecord, Records
        <3>3. UpToDate(req[r].updated) /\ ~(req[r].updated.revision < rec.revision)
            BY <2>3 DEF Locked, Changed
        <3>4. req[r].updated.revision = rec.revision /\ req[r].updated # NoRecord
            BY <3>1, <3>2, <3>3, NoRecordAssumption DEF UpToDate
        <3>5. Restorable(r)
            BY <2>1, <2>3, <3>4 DEF Restorable, Written
        <3>6. PICK k \in Nat : k = rec.revision + 1
            BY <3>2
        <3>7. PICK x \in Records : x = req[r].seen
            BY <3>1
        <3>8. rec' = WithRevision(x, k)
            BY <2>3, <3>4, <3>6, <3>7 DEF UpdateFrom, WithRevision
        <3>9. /\ rec' \in Records /\ rec'.revision = k /\ rec'.secret = x.secret /\ rec'.redeemed = x.redeemed
              /\ rec'.quota = x.quota /\ rec'.pin = x.pin /\ rec'.backoff = x.backoff
            BY <3>8, RevisionWritten
        <3>10. Writes
            BY <3>2, <3>6, <3>9 DEF Writes
        <3> QED BY <2>1, <3>5, <3>7, <3>9, <3>10 DEF RollsBack
    <2> QED BY <1>3, <2>2, <2>3 DEF Rollback
<1> QED BY <1>1, <1>2, <1>3

\* The attempt of a PIN.
LEMMA StepPin ==
    ASSUME TypeOK, Placed, Locked, NEW r \in Requests, verifyPinAttempt(r)
    PROVE  TriesPin(r) \/ Advances(r)
<1>0. issued \in 0 .. MaxLinks /\ issued <= MaxLinks /\ issued \in Nat /\ rec \in MaybeRecord /\ clock \in Nat
    BY GuestAssumption DEF TypeOK
<1>1. /\ req[r].op = "VerifyPin" /\ req[r].pc = "attempt" /\ ~Written(r) /\ Done(r) /\ Answers(r)
      /\ UNCHANGED <<current, sessions, renewals, orphaned, mailVars, envVars>>
    BY Dones DEF verifyPinAttempt, At, Written, Answers
<1>2. CASE UNCHANGED <<rec, pinSessions, guesses, boundVars>>
    BY <1>0, <1>1, <1>2, DoneAdvances DEF storeVars, historyVars, boundVars
<1>3. CASE checkPinRequest(r) /\ PinAttempt(r)
    <2>1. /\ rec \in Records /\ rec.revision \in Nat /\ rec.backoff \in Backoffs
          /\ rec.pin # 0 /\ rec.pin = req[r].link /\ ~(rec.backoff.notBefore > clock)
        BY <1>0, <1>3 DEF checkPinRequest, MaybeRecord, Records, Blocked
    <2>2. rec.backoff.notBefore <= clock
        BY <1>0, <2>1 DEF Backoffs
    <2> DEFINE y == PinTried(r)
    <2>3. /\ y \in Records /\ y.secret = rec.secret /\ y.redeemed = rec.redeemed /\ y.quota = rec.quota
          /\ \/ y.pin = 0
             \/ /\ ~req[r].right /\ rec.backoff.count + 1 < MaxAttempts /\ y.pin = rec.pin
                /\ y.backoff.count = rec.backoff.count + 1
                /\ y.backoff.notBefore = clock + Delay(rec.backoff.count + 1)
        BY <2>1, PinTriedType
    <2>4. PICK k \in Nat : k = rec.revision + 1
        BY <2>1
    <2>5. rec' = WithRevision(y, k)
        BY <1>3, <2>4 DEF PinAttempt, Update, WithRevision
    <2> HIDE DEF y
    <2>6. /\ rec' \in Records /\ rec'.revision = k /\ rec'.secret = y.secret /\ rec'.redeemed = y.redeemed
          /\ rec'.quota = y.quota /\ rec'.pin = y.pin /\ rec'.backoff = y.backoff
        BY <2>3, <2>5, RevisionWritten
    <2>7. Writes
        BY <2>1, <2>4, <2>6 DEF Writes
    <2>8. issued' = issued
        BY <1>3 DEF PinAttempt, Sign, Fault, boundVars
    <2>9. CASE req[r].right
        <3>1. pinSessions' \in {pinSessions, [pinSessions EXCEPT ![rec.pin] = @ + 1]} /\ guesses' = guesses
            BY <1>3, <2>1, <2>9 DEF PinAttempt, Sign
        <3>2. rec'.pin = 0
            BY <2>3, <2>6, <2>9
        <3> QED BY <1>1, <2>1, <2>2, <2>3, <2>6, <2>7, <2>8, <3>1, <3>2 DEF TriesPin
    <2>10. CASE ~req[r].right
        <3>1. pinSessions' = pinSessions /\ guesses' = [guesses EXCEPT ![rec.pin] = Append(@, clock)]
            BY <1>3, <2>1, <2>10 DEF PinAttempt
        <3> QED BY <1>1, <2>1, <2>2, <2>3, <2>6, <2>7, <2>8, <3>1 DEF TriesPin
    <2> QED BY <2>9, <2>10
<1> QED BY <1>2, <1>3 DEF verifyPinAttempt

\* The actions of nobody's request.
LEMMA StepWorld ==
    ASSUME TypeOK, Placed, Locked
    PROVE  /\ CleanupShare => Cleans
           /\ Tick \/ ShareEnds \/ UNCHANGED vars => Waits
           /\ Crash => Crashes
<1>1. CleanupShare => Cleans
    BY DEF CleanupShare, Cleans, Consuming, boundVars
<1>2. Tick => Waits
    BY DEF Tick, Waits, boundVars, TypeOK
<1>3. ShareEnds => Waits
    BY DEF ShareEnds, Waits, boundVars, TypeOK
<1>4. UNCHANGED vars => Waits
    BY DEF Waits, boundVars, envVars, vars, TypeOK
<1>5. ASSUME Crash PROVE Crashes
    <2>1. req' \in [Requests -> RequestStates] /\ \A r \in Requests : req'[r] = Idle
        BY <1>5, IdleFields DEF Crash
    <2> QED BY <1>5, <2>1 DEF Crash, Crashes, Fault
<1> QED BY <1>1, <1>2, <1>3, <1>4, <1>5

\* Every step is one of the kinds above.
LEMMA StepKinds ==
    ASSUME TypeOK, Placed, Locked, [Next]_vars
    PROVE  Steps
<1>1. ASSUME NEW r \in Requests, BeginCreate(r) \/ BeginVerifyToken(r) \/ BeginRenew(r) \/ BeginVerifyPin(r)
      PROVE  Advances(r)
    BY <1>1, StepRequest
<1>2. ASSUME NEW r \in Requests, Serve(r)
      PROVE  \/ Advances(r) \/ Creates(r) \/ Settles(r) \/ Loses(r) \/ Fails(r)
             \/ Redeems(r) \/ Rotates(r) \/ RollsBack(r) \/ GivesWay(r) \/ TriesPin(r)
    BY <1>2, StepRequest, StepCreate, StepValidate, StepToken, StepRenew, StepPin DEF Serve
<1> QED BY <1>1, <1>2, StepWorld DEF Next, Steps

-----------------------------------------------------------------------------
(* Types and places are kept.                                              *)

\* The initial states have their types.
LEMMA TypeInit == Init => TypeOK /\ Placed
<1> SUFFICES ASSUME Init PROVE TypeOK /\ Placed
    OBVIOUS
<1>1. req \in [Requests -> RequestStates] /\ \A r \in Requests : req[r] = Idle
    BY IdleFields DEF Init
<1> QED BY <1>1, IdleFields, GuestAssumption DEF Init, TypeOK, Placed, MaybeRecord, Links

\* A write leaves a record.
LEMMA WritesType == Writes => rec' \in MaybeRecord
BY DEF Writes, MaybeRecord

\* Only links are entered.
LEMMA CurrentLinks ==
    ASSUME TypeOK
    PROVE  \A n : InCurrent(n) => n \in Links
BY DEF TypeOK, InCurrent

\* A new link is entered at the end.
LEMMA CurrentGrows ==
    ASSUME TypeOK, Fresh, NEW r \in Requests, Creates(r) \/ Rotates(r)
    PROVE  /\ rec'.secret \in Links /\ rec'.secret = req'[r].link
           /\ current \in Seq(Links) /\ current' \in Seq(Links) /\ current' # <<>> /\ Len(current') = Len(current) + 1
           /\ current'[Len(current) + 1] = rec'.secret
           /\ \A i \in 1 .. Len(current) : current'[i] = current[i]
<1>1. rec'.secret \in Links /\ rec'.secret = req'[r].link
    BY GuestAssumption DEF Creates, Rotates, Fresh, TypeOK, Links
<1>2. PICK n \in Links : n = rec'.secret
    BY <1>1
<1>3. current' = Append(current, n) /\ current \in Seq(Links)
    BY <1>2 DEF Creates, Rotates, TypeOK
<1> QED BY <1>1, <1>2, <1>3

\* Every kind of step keeps the types and the places.
LEMMA TypeStep ==
    ASSUME TypeOK, Placed, Locked, Fresh, Steps
    PROVE  TypeOK' /\ Placed'
<1> USE DEF storeVars, historyVars, mailVars, envVars
<1>1. ASSUME NEW r \in Requests, Advances(r) PROVE TypeOK' /\ Placed'
    <2>1. issued' \in 0 .. MaxLinks
        BY <1>1, GuestAssumption DEF Advances, TypeOK
    <2> QED BY <1>1, <2>1 DEF Advances, TypeOK, Placed, Frame
<1>2. ASSUME NEW r \in Requests, Creates(r) PROVE TypeOK' /\ Placed'
    <2>1. issued' \in 0 .. MaxLinks /\ issued + 1 \in Links
        BY <1>2, GuestAssumption DEF Creates, TypeOK, Links
    <2>2. current' \in Seq(Links)
        BY <1>2, <2>1 DEF Creates, TypeOK
    <2>3. PlacedAt(req'[r])
        BY <1>2 DEF Creates, PlacedAt, Same
    <2> QED BY <1>2, <2>1, <2>2, <2>3 DEF Creates, TypeOK, Placed, Frame, MaybeRecord
<1>3. ASSUME NEW r \in Requests, Settles(r) PROVE TypeOK' /\ Placed'
    <2>0. req[r].link \in Links
        BY <1>3, CurrentLinks DEF Settles, Fresh, Written
    <2>1. renewals' \in [BOOLEAN -> Seq(Nat)]
        <3>1. req[r] \in RequestStates
            BY DEF TypeOK
        <3>2. req[r].now \in Nat /\ req[r].session \in BOOLEAN
            BY <3>1 DEF RequestStates
        <3>3. PICK now \in Nat, k \in BOOLEAN : now = req[r].now /\ k = req[r].session
            BY <3>2
        <3>4. CASE renewals' = [renewals EXCEPT ![k] = Append(@, now)]
            BY <3>4 DEF TypeOK
        <3> QED BY <1>3, <3>3, <3>4 DEF Settles, TypeOK
    <2> QED BY <1>3, <2>0, <2>1, IdleFields DEF Settles, Answers, TypeOK, Placed, Frame
<1>4. ASSUME NEW r \in Requests, Loses(r) PROVE TypeOK' /\ Placed'
    BY <1>4, IdleFields DEF Loses, Answers, TypeOK, Placed, Frame
<1>5. ASSUME NEW r \in Requests, Fails(r) PROVE TypeOK' /\ Placed'
    <2>0. req[r].link \in Links
        BY <1>5, CurrentLinks DEF Fails, Fresh, Written
    <2>1. PlacedAt(req'[r])
        BY <1>5 DEF Fails, PlacedAt, Placed, Same
    <2> QED BY <1>5, <2>0, <2>1 DEF Fails, TypeOK, Placed, Frame
<1>6. ASSUME NEW r \in Requests, Redeems(r) PROVE TypeOK' /\ Placed'
    <2>1. rec.secret \in Links
        BY <1>6, CurrentLinks, NoRecordAssumption DEF Redeems, Writes, Fresh, Named
    <2>2. sessions' \in [Links -> Nat]
        <3>1. PICK n \in Links : n = rec.secret
            BY <2>1
        <3>2. CASE sessions' = [sessions EXCEPT ![n] = @ + 1]
            BY <3>2 DEF TypeOK
        <3> QED BY <1>6, <3>1, <3>2 DEF Redeems, TypeOK
    <2> QED BY <1>6, <2>2, WritesType, IdleFields DEF Redeems, Answers, TypeOK, Placed, Frame
<1>7. ASSUME NEW r \in Requests, Rotates(r) PROVE TypeOK' /\ Placed'
    <2>1. req[r].link \in Links
        BY <1>7, GuestAssumption DEF Rotates, Fresh, TypeOK, Links
    <2>2. current' \in Seq(Links)
        BY <1>7, <2>1 DEF Rotates, TypeOK
    <2>3. PlacedAt(req'[r])
        BY <1>7 DEF Rotates, Writes, PlacedAt, Same
    <2> QED BY <1>7, <2>2, <2>3, WritesType DEF Rotates, TypeOK, Placed, Frame
<1>8. ASSUME NEW r \in Requests, RollsBack(r) PROVE TypeOK' /\ Placed'
    BY <1>8, WritesType, IdleFields DEF RollsBack, Answers, TypeOK, Placed, Frame
<1>9. ASSUME NEW r \in Requests, GivesWay(r) PROVE TypeOK' /\ Placed'
    BY <1>9, IdleFields DEF GivesWay, Answers, TypeOK, Placed, Frame
<1>10. ASSUME NEW r \in Requests, TriesPin(r) PROVE TypeOK' /\ Placed'
    <2>1. rec.pin \in Links
        BY <1>10, CurrentLinks, NoRecordAssumption DEF TriesPin, Writes, Fresh, Named
    <2>2. PICK n \in Links : n = rec.pin
        BY <2>1
    <2>5. pinSessions' \in [Links -> Nat]
        <3>1. CASE pinSessions' = [pinSessions EXCEPT ![n] = @ + 1]
            BY <3>1 DEF TypeOK
        <3> QED BY <1>10, <2>2, <3>1 DEF TriesPin, TypeOK
    <2>6. guesses' \in [Links -> Seq(Nat)]
        <3>1. CASE guesses' = [guesses EXCEPT ![n] = Append(@, clock)]
            BY <3>1 DEF TypeOK
        <3> QED BY <1>10, <2>2, <3>1 DEF TriesPin, TypeOK
    <2> QED BY <1>10, <2>5, <2>6, WritesType, IdleFields DEF TriesPin, Answers, TypeOK, Placed, Frame
<1>11. ASSUME Waits PROVE TypeOK' /\ Placed'
    BY <1>11 DEF Waits, TypeOK, Placed
<1>12. ASSUME Cleans PROVE TypeOK' /\ Placed'
    BY <1>12 DEF Cleans, TypeOK, Placed, MaybeRecord
<1>13. ASSUME Crashes PROVE TypeOK' /\ Placed'
    BY <1>13, IdleFields DEF Crashes, TypeOK, Placed
<1> QED BY <1>1, <1>2, <1>3, <1>4, <1>5, <1>6, <1>7, <1>8, <1>9, <1>10, <1>11, <1>12, <1>13 DEF Steps

-----------------------------------------------------------------------------
(* The optimistic lock.                                                    *)

\* The lock holds initially.
LEMMA LockedInit == Init => Locked
<1> SUFFICES ASSUME Init PROVE Locked
    OBVIOUS
<1>1. \A r \in Requests : req[r] = Idle
    BY DEF Init
<1> QED BY <1>1, IdleFields DEF Init, Locked, CreatedOnce, Written, Restorable

\* No step creates the record a second time.
LEMMA CreatedOnceStep ==
    ASSUME TypeOK, Placed, Locked, Fresh, Steps
    PROVE  CreatedOnce'
<1> USE DEF storeVars, historyVars, mailVars, envVars
<1>0. rec \in Records => rec # NoRecord
    BY NoRecordAssumption
<1>a. rec' \in Records => rec' # NoRecord
    BY NoRecordAssumption
<1>1. ASSUME NEW r \in Requests, Advances(r) PROVE CreatedOnce'
    BY <1>1 DEF Advances, Frame, Locked, CreatedOnce, Written
<1>2. ASSUME NEW r \in Requests, Creates(r) PROVE CreatedOnce'
    BY <1>2, <1>a, CurrentGrows DEF Creates, CreatedOnce
<1>3. ASSUME NEW r \in Requests, Settles(r) \/ Loses(r) \/ GivesWay(r) PROVE CreatedOnce'
    BY <1>3, IdleFields DEF Settles, Loses, GivesWay, Answers, Frame, Locked, CreatedOnce, Written
<1>4. ASSUME NEW r \in Requests, Fails(r) PROVE CreatedOnce'
    BY <1>4 DEF Fails, Frame, Locked, CreatedOnce, Written, Same
<1>5. ASSUME NEW r \in Requests, Redeems(r) \/ RollsBack(r) \/ TriesPin(r) PROVE CreatedOnce'
    BY <1>5, <1>0, <1>a DEF Redeems, RollsBack, TriesPin, Writes, Locked, CreatedOnce
<1>6. ASSUME NEW r \in Requests, Rotates(r) PROVE CreatedOnce'
    BY <1>6, <1>a, CurrentGrows DEF Rotates, Writes, CreatedOnce
<1>7. ASSUME Waits PROVE CreatedOnce'
    BY <1>7 DEF Waits, Locked, CreatedOnce, Written
<1>8. ASSUME Cleans PROVE CreatedOnce'
    BY <1>8 DEF Cleans, Locked, CreatedOnce, Written
<1>9. ASSUME Crashes PROVE CreatedOnce'
    BY <1>9, IdleFields DEF Crashes, Locked, CreatedOnce, Written
<1> QED BY <1>1, <1>2, <1>3, <1>4, <1>5, <1>6, <1>7, <1>8, <1>9 DEF Steps

\* After a write nothing that was seen before is up to date.
LEMMA WriteOutdates ==
    ASSUME TypeOK, Locked, Writes
    PROVE  /\ rec # NoRecord /\ rec' # NoRecord /\ rec.revision \in Nat
           /\ \A x \in Requests :
                 /\ req[x].seen # NoRecord => req[x].seen.revision \in Nat /\ req[x].seen.revision < rec'.revision
                 /\ req[x].updated # NoRecord =>
                       req[x].updated.revision \in Nat /\ req[x].updated.revision < rec'.revision
<1>1. rec # NoRecord /\ rec' # NoRecord /\ rec.revision \in Nat /\ rec'.revision = rec.revision + 1
    BY NoRecordAssumption DEF Writes, Records
<1> SUFFICES ASSUME NEW x \in Requests
             PROVE  /\ req[x].seen # NoRecord => req[x].seen.revision \in Nat /\ req[x].seen.revision < rec'.revision
                    /\ req[x].updated # NoRecord =>
                          req[x].updated.revision \in Nat /\ req[x].updated.revision < rec'.revision
    BY <1>1
<1>2. req[x].seen \in MaybeRecord /\ req[x].updated \in MaybeRecord
    BY DEF TypeOK, RequestStates
<1>3. \A y \in Records : y.revision \in Nat
    BY DEF Records
<1>4. UpToDate(req[x].seen) /\ UpToDate(req[x].updated)
    BY <1>1 DEF Locked
<1> QED BY <1>1, <1>2, <1>3, <1>4 DEF UpToDate, MaybeRecord

\* Every kind of step keeps the optimistic lock.
LEMMA LockedStep ==
    ASSUME TypeOK, Placed, Locked, Fresh, Steps
    PROVE  Locked'
<1> USE DEF storeVars, historyVars, mailVars, envVars
<1>0. CreatedOnce'
    BY CreatedOnceStep
<1> DEFINE Ups == rec' # NoRecord => \A x \in Requests : UpToDate(req[x].seen)' /\ UpToDate(req[x].updated)'
           Ones == \A x, y \in Requests : Restorable(x)' /\ Restorable(y)' => x = y
<1>1. ASSUME NEW r \in Requests, Advances(r) PROVE Ups /\ Ones
    <2>1. \A x \in Requests : Restorable(x)' => Restorable(x)
        BY <1>1 DEF Advances, Frame, Restorable, Written
    <2>2. Ones
        BY <2>1 DEF Locked
    <2>3. Ups
        <3>1. rec # NoRecord => rec.revision \in Nat
            BY DEF TypeOK, MaybeRecord, Records
        <3> QED BY <1>1, <3>1 DEF Advances, Frame, Locked, UpToDate
    <2> QED BY <2>2, <2>3
<1>2. ASSUME NEW r \in Requests, Creates(r) PROVE Ups /\ Ones
    <2>1. current = <<>>
        BY <1>2 DEF Creates, Locked, CreatedOnce
    <2>2. \A x \in Requests : req'[x].seen = NoRecord /\ req'[x].updated = NoRecord
        BY <1>2, <2>1 DEF Creates, Frame, Locked, CreatedOnce
    <2> QED BY <2>2 DEF UpToDate, Restorable
<1>3. ASSUME NEW r \in Requests, Settles(r) \/ Loses(r) \/ GivesWay(r) PROVE Ups /\ Ones
    <2>1. rec' = rec /\ req'[r].seen = NoRecord /\ req'[r].updated = NoRecord /\ Frame(r)
        BY <1>3, IdleFields DEF Settles, Loses, GivesWay, Answers
    <2>2. \A x \in Requests : Restorable(x)' => Restorable(x)
        BY <2>1 DEF Frame, Restorable, Written
    <2>3. Ones
        BY <2>2 DEF Locked
    <2>4. Ups
        BY <2>1 DEF Frame, Locked, UpToDate
    <2> QED BY <2>3, <2>4
<1>4. ASSUME NEW r \in Requests, Fails(r) PROVE Ups /\ Ones
    <2>1. \A x \in Requests : Restorable(x)' => Restorable(x)
        BY <1>4 DEF Fails, Frame, Restorable, Written
    <2>2. Ones
        BY <2>1 DEF Locked
    <2>3. Ups
        BY <1>4 DEF Fails, Frame, Locked, UpToDate
    <2> QED BY <2>2, <2>3
<1>5. ASSUME NEW r \in Requests, Redeems(r) \/ RollsBack(r) \/ TriesPin(r) PROVE Ups /\ Ones
    <2>1. Writes /\ req'[r].seen = NoRecord /\ req'[r].updated = NoRecord /\ Frame(r)
        BY <1>5, IdleFields DEF Redeems, RollsBack, TriesPin, Answers
    <2>2. rec.revision \in Nat /\ rec'.revision = rec.revision + 1
        BY <2>1, WriteOutdates DEF Writes
    <2> QED BY <2>1, <2>2, WriteOutdates DEF Frame, UpToDate, Restorable
<1>6. ASSUME NEW r \in Requests, Rotates(r) PROVE Ups /\ Ones
    <2>1. Writes /\ req'[r].seen = rec /\ req'[r].updated = rec' /\ Frame(r)
        BY <1>6 DEF Rotates
    <2>2. rec.revision \in Nat /\ rec'.revision = rec.revision + 1
        BY <2>1, WriteOutdates DEF Writes
    <2> QED BY <2>1, <2>2, WriteOutdates DEF Frame, UpToDate, Restorable
<1>7. ASSUME Waits PROVE Ups /\ Ones
    BY <1>7 DEF Waits, Locked, UpToDate, Restorable, Written
<1>8. ASSUME Cleans PROVE Ups /\ Ones
    BY <1>8 DEF Cleans, Restorable
<1>9. ASSUME Crashes PROVE Ups /\ Ones
    BY <1>9, IdleFields DEF Crashes, UpToDate, Restorable
<1>10. Ups /\ Ones
    BY <1>1, <1>2, <1>3, <1>4, <1>5, <1>6, <1>7, <1>8, <1>9 DEF Steps
<1> QED BY <1>0, <1>10 DEF Locked

-----------------------------------------------------------------------------
(* Links and PINs are new when they are issued.                            *)

\* Initially nothing was issued.
LEMMA FreshInit == Init => Fresh
<1> SUFFICES ASSUME Init PROVE Fresh
    OBVIOUS
<1>1. \A r \in Requests : req[r] = Idle
    BY DEF Init
<1>2. current = <<>> /\ Len(current) = 0 /\ rec = NoRecord /\ sent = {} /\ published = {}
    BY DEF Init
<1>3. \A n : ~InCurrent(n)
    BY <1>2 DEF InCurrent
<1>4. Named(rec) /\ \A r \in Requests : Named(req[r].seen)
    BY <1>1, <1>2, IdleFields DEF Named
<1>5. \A n \in Links : sessions[n] = 0 /\ pinSessions[n] = 0 /\ guesses[n] = <<>>
    BY DEF Init
<1> QED BY <1>1, <1>2, <1>4, <1>5, IdleFields DEF Fresh, Written, Holding

\* The same links are entered if the list is the same.
LEMMA CurrentKept ==
    ASSUME current' = current
    PROVE  \A n : InCurrent(n)' <=> InCurrent(n)
BY DEF InCurrent

\* Creating and rotating enter the link of the request, and no other.
LEMMA CurrentEntered ==
    ASSUME TypeOK, Fresh, NEW r \in Requests, Creates(r) \/ Rotates(r)
    PROVE  \A n : InCurrent(n)' <=> InCurrent(n) \/ n = req'[r].link
<1>1. /\ rec'.secret = req'[r].link /\ Len(current) \in Nat /\ Len(current') = Len(current) + 1
      /\ current'[Len(current) + 1] = rec'.secret
      /\ \A i \in 1 .. Len(current) : current'[i] = current[i]
    BY CurrentGrows
<1>2. ASSUME NEW n, InCurrent(n)' PROVE InCurrent(n) \/ n = req'[r].link
    <2>1. PICK i \in 1 .. Len(current) + 1 : current'[i] = n
        BY <1>1, <1>2 DEF InCurrent
    <2> QED BY <1>1, <2>1 DEF InCurrent
<1>3. ASSUME NEW n, InCurrent(n) PROVE InCurrent(n)'
    <2>1. PICK i \in 1 .. Len(current) : current[i] = n
        BY <1>3 DEF InCurrent
    <2>2. i \in 1 .. Len(current') /\ current'[i] = n
        BY <1>1, <2>1
    <2> QED BY <2>2 DEF InCurrent
<1>4. InCurrent(req[r].link)'
    <2>1. Len(current) + 1 \in 1 .. Len(current')
        BY <1>1
    <2> QED BY <1>1, <2>1 DEF InCurrent
<1> QED BY <1>2, <1>3, <1>4

\* A link that is held was issued.
LEMMA HeldIssued ==
    ASSUME TypeOK, Fresh, NEW r \in Requests, Holding(r)
    PROVE  req[r].link \in 1 .. issued
<1>1. CASE Written(r)
    <2>1. PICK i \in 1 .. Len(current) : current[i] = req[r].link
        BY <1>1 DEF Fresh, InCurrent
    <2>2. current[i] \in Links /\ current[i] <= issued
        BY <2>1 DEF Fresh, TypeOK
    <2> QED BY <2>1, <2>2, GuestAssumption DEF Links, TypeOK
<1>2. CASE ~Written(r)
    BY <1>2 DEF Fresh, Holding
<1> QED BY <1>1, <1>2

\* Steps that neither issue a link nor enter one.
LEMMA FreshKept ==
    ASSUME Fresh, current' = current, issued' = issued,
           \A x \in Requests :
              \/ req'[x] = Idle
              \/ /\ req'[x].link = req[x].link /\ req'[x].seen = req[x].seen
                 /\ req'[x].pc = req[x].pc \/ (Written(x) /\ Written(x)'),
           Named(rec)',
           \A n \in sent' : n \in sent \/ InCurrent(n), published' \subseteq sent',
           \A x \in Requests : Written(x)' => req'[x].link \notin published',
           \A n \in Links : ~InCurrent(n) =>
              sessions'[n] = sessions[n] /\ pinSessions'[n] = pinSessions[n] /\ guesses'[n] = guesses[n]
    PROVE  Fresh'
<1>1. \A n : InCurrent(n)' <=> InCurrent(n)
    BY CurrentKept
<1>2. \A x \in Requests : Holding(x)' => Holding(x) /\ req'[x].link = req[x].link
    BY IdleFields DEF Holding, Written
<1>3. \A x \in Requests : Written(x)' => Written(x)
    BY IdleFields DEF Written
<1>4. \A x \in Requests : req'[x].pc \in {"read", "rotate"} => req[x].pc \in {"read", "rotate"}
    BY IdleFields DEF Written
<1>5. \A x \in Requests : req'[x].seen \in {NoRecord, req[x].seen}
    BY IdleFields
<1>6. \A x \in Requests : Named(req[x].seen)'
    BY <1>1, <1>5 DEF Named, Fresh
<1>7. \A x \in Requests : req'[x].pc \in {"read", "rotate"} =>
         req'[x].link \in 1 .. issued' /\ ~InCurrent(req[x].link)'
    BY <1>1, <1>2, <1>4 DEF Fresh, Holding
<1>8. \A x \in Requests : Written(x)' => InCurrent(req[x].link)' /\ req'[x].link \notin published'
    BY <1>1, <1>2, <1>3 DEF Fresh, Holding
<1>9. \A x, y \in Requests : Holding(x)' /\ Holding(y)' /\ req'[x].link = req'[y].link => x = y
    BY <1>2 DEF Fresh
<1>10. /\ \A i \in 1 .. Len(current') : current'[i] <= issued'
       /\ \A n \in sent' : InCurrent(n)'
       /\ \A n \in Links : ~InCurrent(n)' => sessions'[n] = 0 /\ pinSessions'[n] = 0 /\ guesses'[n] = <<>>
    BY <1>1 DEF Fresh
<1> QED BY <1>6, <1>7, <1>8, <1>9, <1>10 DEF Fresh

\* Every kind of step keeps links and PINs apart from the ones before.
LEMMA FreshStep ==
    ASSUME TypeOK, Placed, Locked, Fresh, Steps
    PROVE  Fresh'
<1> USE DEF storeVars, historyVars, mailVars, envVars
<1>0. issued \in Nat /\ current \in Seq(Links) /\ \A i \in 1 .. Len(current) : current[i] \in Nat /\ current[i] <= issued
    BY GuestAssumption DEF TypeOK, Fresh, Links
<1>1. ASSUME NEW r \in Requests, Advances(r) PROVE Fresh'
    <2>1. \A n : InCurrent(n)' <=> InCurrent(n)
        BY <1>1, CurrentKept DEF Advances
    <2>2. \A n : InCurrent(n) => n <= issued
        BY <1>0 DEF InCurrent
    <2>3. \A i \in 1 .. Len(current') : current'[i] <= issued'
        BY <1>0, <1>1 DEF Advances
    <2>4. Named(rec)' /\ \A x \in Requests : Named(req[x].seen)'
        BY <1>1, <2>1 DEF Advances, Frame, Fresh, Named
    <2>5. \A x \in Requests : Holding(x) => req[x].link \in 1 .. issued
        BY HeldIssued
    <2>6. \A x \in Requests : req'[x].pc \in {"read", "rotate"} =>
             req'[x].link \in 1 .. issued' /\ ~InCurrent(req[x].link)'
        BY <1>0, <1>1, <2>1, <2>2, <2>5 DEF Advances, Frame, Fresh, Holding, Written
    <2>7. \A x \in Requests : Written(x)' => InCurrent(req[x].link)' /\ req'[x].link \notin published'
        BY <1>1, <2>1 DEF Advances, Frame, Fresh, Written
    <2>8. \A x, y \in Requests : Holding(x)' /\ Holding(y)' /\ req'[x].link = req'[y].link => x = y
        BY <1>0, <1>1, <2>5 DEF Advances, Frame, Fresh, Holding, Written
    <2>9. /\ \A n \in sent' : InCurrent(n)'
          /\ published' \subseteq sent'
          /\ \A n \in Links : ~InCurrent(n)' => sessions'[n] = 0 /\ pinSessions'[n] = 0 /\ guesses'[n] = <<>>
        BY <1>1, <2>1 DEF Advances, Fresh
    <2> QED BY <2>3, <2>4, <2>6, <2>7, <2>8, <2>9 DEF Fresh
<1>2. ASSUME NEW r \in Requests, Creates(r) \/ Rotates(r) PROVE Fresh'
    <2>1. \A n : InCurrent(n)' <=> InCurrent(n) \/ n = req'[r].link
        BY <1>2, CurrentEntered
    <2>2. /\ rec'.secret = req'[r].link /\ Len(current) \in Nat /\ Len(current') = Len(current) + 1
          /\ current'[Len(current) + 1] = rec'.secret
          /\ \A i \in 1 .. Len(current) : current'[i] = current[i]
        BY <1>2, CurrentGrows
    <2>3. /\ req'[r].link \in 1 .. issued' /\ issued <= issued' /\ Written(r)' /\ ~Written(r) /\ Frame(r)
          /\ issued' \in Nat
          /\ UNCHANGED <<sent, published, sessions, pinSessions, guesses>>
        BY <1>0, <1>2 DEF Creates, Rotates, Fresh, Written
    <2>4. \A i \in 1 .. Len(current') : current'[i] <= issued'
        BY <1>0, <2>2, <2>3
    <2>5. ~InCurrent(req'[r].link)
        <3>1. \A n : InCurrent(n) => n <= issued
            BY <1>0 DEF InCurrent
        <3>2. CASE Creates(r)
            BY <1>0, <3>1, <3>2 DEF Creates
        <3>3. CASE Rotates(r)
            BY <3>3 DEF Rotates, Fresh
        <3> QED BY <1>2, <3>2, <3>3
    <2>6. Named(rec)' /\ \A x \in Requests : Named(req[x].seen)'
        <3>1. \A x \in Requests \ {r} : Named(req[x].seen)'
            BY <2>1, <2>3 DEF Frame, Fresh, Named
        <3>2. Named(req[r].seen)'
            BY <1>2, <2>1 DEF Creates, Rotates, Fresh, Named
        <3>3. Named(rec)'
            BY <1>2, <2>1, <2>2, NoRecordAssumption DEF Creates, Rotates, Writes, Fresh, Named
        <3> QED BY <3>1, <3>2, <3>3
    <2>7. \A x \in Requests \ {r} : Holding(x) => req'[x] = req[x] /\ req[x].link # req'[r].link
        <3>1. CASE Creates(r)
            BY <1>0, <2>3, <3>1, HeldIssued DEF Creates, Frame
        <3>2. CASE Rotates(r)
            BY <2>3, <3>2 DEF Rotates, Frame, Fresh, Holding
        <3> QED BY <1>2, <3>1, <3>2
    <2>8. req'[r].link \notin published
        BY <2>5 DEF Fresh
    <2>9. \A x \in Requests : req'[x].pc \in {"read", "rotate"} =>
             req'[x].link \in 1 .. issued' /\ ~InCurrent(req[x].link)'
        BY <1>0, <2>1, <2>3, <2>7 DEF Frame, Fresh, Holding, Written
    <2>10. \A x \in Requests : Written(x)' => InCurrent(req[x].link)' /\ req'[x].link \notin published'
        BY <2>1, <2>3, <2>8 DEF Frame, Fresh, Written
    <2>11. \A x, y \in Requests : Holding(x)' /\ Holding(y)' /\ req'[x].link = req'[y].link => x = y
        BY <2>3, <2>7 DEF Frame, Fresh, Holding, Written
    <2>12. /\ \A n \in sent' : InCurrent(n)'
           /\ published' \subseteq sent'
           /\ \A n \in Links : ~InCurrent(n)' => sessions'[n] = 0 /\ pinSessions'[n] = 0 /\ guesses'[n] = <<>>
        BY <2>1, <2>3 DEF Fresh
    <2> QED BY <2>4, <2>6, <2>9, <2>10, <2>11, <2>12 DEF Fresh
<1>3. ASSUME NEW r \in Requests, Settles(r) PROVE Fresh'
    <2>1. /\ Frame(r) /\ req'[r] = Idle /\ rec' = rec /\ current' = current /\ issued' = issued
          /\ sent' = sent \cup {req[r].link} /\ published' = published \cup {req[r].link}
          /\ UNCHANGED <<sessions, pinSessions, guesses>> /\ Written(r)
        BY <1>3 DEF Settles, Answers, Written
    <2>2. Named(rec)'
        BY <2>1, CurrentKept DEF Fresh, Named
    <2>3. InCurrent(req[r].link)
        BY <2>1 DEF Fresh
    <2>4. \A x \in Requests : Written(x)' => req'[x].link \notin published'
        BY <2>1, IdleFields DEF Frame, Fresh, Written, Holding
    <2>5. published' \subseteq sent'
        BY <2>1 DEF Fresh
    <2> QED BY <2>1, <2>2, <2>3, <2>4, <2>5, FreshKept DEF Frame
<1>4. ASSUME NEW r \in Requests, Loses(r) \/ GivesWay(r) PROVE Fresh'
    <2>1. /\ Frame(r) /\ req'[r] = Idle /\ rec' = rec /\ current' = current /\ issued' = issued
          /\ UNCHANGED <<sent, published, sessions, pinSessions, guesses>>
        BY <1>4 DEF Loses, GivesWay, Answers
    <2>2. Named(rec)'
        BY <2>1, CurrentKept DEF Fresh, Named
    <2>3. \A x \in Requests : Written(x)' => req'[x].link \notin published'
        BY <2>1, IdleFields DEF Frame, Fresh, Written
    <2> QED BY <2>1, <2>2, <2>3, FreshKept DEF Frame, Fresh
<1>5. ASSUME NEW r \in Requests, Fails(r) PROVE Fresh'
    <2>1. /\ Frame(r) /\ rec' = rec /\ current' = current /\ issued' = issued
          /\ sent' \in {sent, sent \cup {req[r].link}}
          /\ UNCHANGED <<published, sessions, pinSessions, guesses>> /\ Written(r) /\ Written(r)'
          /\ req'[r].link = req[r].link /\ req'[r].seen = req[r].seen
        BY <1>5 DEF Fails, Written
    <2>2. Named(rec)'
        BY <2>1, CurrentKept DEF Fresh, Named
    <2>3. InCurrent(req[r].link)
        BY <2>1 DEF Fresh
    <2>4. \A x \in Requests : Written(x)' => req'[x].link \notin published'
        BY <2>1 DEF Frame, Fresh, Written
    <2>5. published' \subseteq sent'
        BY <2>1 DEF Fresh
    <2> QED BY <2>1, <2>2, <2>3, <2>4, <2>5, FreshKept DEF Frame
<1>6. ASSUME NEW r \in Requests, Redeems(r) \/ RollsBack(r) \/ TriesPin(r) PROVE Fresh'
    <2>1. /\ Frame(r) /\ req'[r] = Idle /\ current' = current /\ issued' = issued
          /\ UNCHANGED <<sent, published>> /\ Writes
        BY <1>6 DEF Redeems, RollsBack, TriesPin, Answers
    <2>2. rec # NoRecord
        BY <2>1, NoRecordAssumption DEF Writes
    <2>3. Named(rec)'
        <3>1. CASE Redeems(r) \/ TriesPin(r)
            BY <2>1, <2>2, <3>1, CurrentKept DEF Redeems, TriesPin, Fresh, Named
        <3>2. CASE RollsBack(r)
            <4>1. req[r].seen # NoRecord
                BY <3>2, NoRecordAssumption DEF RollsBack, Placed, PlacedAt
            <4> QED BY <2>1, <3>2, <4>1, CurrentKept DEF RollsBack, Fresh, Named
        <3> QED BY <1>6, <3>1, <3>2
    <2>4. \A x \in Requests : Written(x)' => req'[x].link \notin published'
        BY <2>1, IdleFields DEF Frame, Fresh, Written
    <2>5. \A n \in Links : ~InCurrent(n) =>
             sessions'[n] = sessions[n] /\ pinSessions'[n] = pinSessions[n] /\ guesses'[n] = guesses[n]
        <3>1. CASE Redeems(r)
            BY <2>2, <3>1 DEF Redeems, TypeOK, Fresh, Named
        <3>2. CASE RollsBack(r)
            BY <3>2 DEF RollsBack
        <3>3. CASE TriesPin(r)
            <4>1. InCurrent(rec.pin)
                BY <2>2, <3>3 DEF TriesPin, Fresh, Named
            <4> QED BY <3>3, <4>1 DEF TriesPin, TypeOK
        <3> QED BY <1>6, <3>1, <3>2, <3>3
    <2> QED BY <2>1, <2>3, <2>4, <2>5, FreshKept DEF Frame, Fresh
<1>7. ASSUME Waits PROVE Fresh'
    <2>1. Named(rec)'
        BY <1>7, CurrentKept DEF Waits, Fresh, Named
    <2> QED BY <1>7, <2>1, FreshKept DEF Waits, Fresh, Written
<1>8. ASSUME Cleans PROVE Fresh'
    <2>1. Named(rec)'
        BY <1>8 DEF Cleans, Named
    <2> QED BY <1>8, <2>1, FreshKept DEF Cleans, Fresh, Written
<1>9. ASSUME Crashes PROVE Fresh'
    <2>1. Named(rec)'
        BY <1>9, CurrentKept DEF Crashes, Fresh, Named
    <2>2. \A x \in Requests : ~Written(x)'
        BY <1>9, IdleFields DEF Crashes, Written
    <2> QED BY <1>9, <2>1, <2>2, FreshKept DEF Crashes, Fresh
<1> QED BY <1>1, <1>2, <1>3, <1>4, <1>5, <1>6, <1>7, <1>8, <1>9 DEF Steps

-----------------------------------------------------------------------------
(* What may be put back, after each kind of step.                          *)

\* The steps that leave the record, or take it away.
Keeps ==
    \/ \E r \in Requests : Advances(r) \/ Settles(r) \/ Loses(r) \/ Fails(r) \/ GivesWay(r)
    \/ Waits \/ Cleans \/ Crashes

\* Without a write, what may be put back stays the same or is given up.
LEMMA RestorableKept ==
    ASSUME TypeOK, Keeps
    PROVE  /\ rec' \in {rec, NoRecord} /\ current' = current
           /\ UNCHANGED <<sessions, pinSessions, guesses>>
           /\ \A x \in Requests : Restorable(x)' =>
                 Restorable(x) /\ req'[x].seen = req[x].seen /\ req'[x].link = req[x].link
<1> USE DEF storeVars, historyVars, mailVars, envVars
<1>1. ASSUME NEW r \in Requests, Advances(r)
      PROVE  \A x \in Requests : Restorable(x)' =>
                Restorable(x) /\ req'[x].seen = req[x].seen /\ req'[x].link = req[x].link
    BY <1>1 DEF Advances, Frame, Restorable, Written
<1>2. ASSUME NEW r \in Requests, Settles(r) \/ Loses(r) \/ GivesWay(r)
      PROVE  \A x \in Requests : Restorable(x)' =>
                Restorable(x) /\ req'[x].seen = req[x].seen /\ req'[x].link = req[x].link
    <2>1. Frame(r) /\ req'[r] = Idle /\ rec' = rec
        BY <1>2 DEF Settles, Loses, GivesWay, Answers
    <2> QED BY <2>1, IdleFields DEF Frame, Restorable, Written
<1>3. ASSUME NEW r \in Requests, Fails(r)
      PROVE  \A x \in Requests : Restorable(x)' =>
                Restorable(x) /\ req'[x].seen = req[x].seen /\ req'[x].link = req[x].link
    BY <1>3 DEF Fails, Frame, Restorable, Written
<1>4. ASSUME Waits \/ Cleans \/ Crashes
      PROVE  \A x \in Requests : Restorable(x)' =>
                Restorable(x) /\ req'[x].seen = req[x].seen /\ req'[x].link = req[x].link
    BY <1>4, IdleFields DEF Waits, Cleans, Crashes, Restorable, Written
<1>5. /\ rec' \in {rec, NoRecord} /\ current' = current
      /\ UNCHANGED <<sessions, pinSessions, guesses>>
    BY DEF Keeps, Advances, Settles, Loses, Fails, GivesWay, Waits, Cleans, Crashes
<1> QED BY <1>1, <1>2, <1>3, <1>4, <1>5 DEF Keeps

\* Writing leaves nothing to put back, but what a renewal has just written over.
LEMMA RestorableWritten ==
    ASSUME TypeOK, Placed, Locked, NEW r \in Requests
    PROVE  /\ Creates(r) => \A x \in Requests : ~Restorable(x)'
           /\ Redeems(r) \/ RollsBack(r) \/ TriesPin(r) => \A x \in Requests : ~Restorable(x)'
           /\ Rotates(r) => \A x \in Requests : Restorable(x)' => x = r /\ req'[x].seen = rec
<1>1. ASSUME Creates(r) PROVE \A x \in Requests : ~Restorable(x)'
    <2>1. current = <<>>
        BY <1>1 DEF Creates, Locked, CreatedOnce
    <2> QED BY <1>1, <2>1 DEF Creates, Frame, Locked, CreatedOnce, Restorable
<1>2. ASSUME Redeems(r) \/ RollsBack(r) \/ TriesPin(r) PROVE \A x \in Requests : ~Restorable(x)'
    <2>1. Writes /\ req'[r].updated = NoRecord /\ Frame(r)
        BY <1>2, IdleFields DEF Redeems, RollsBack, TriesPin, Answers
    <2>2. rec.revision \in Nat /\ rec'.revision = rec.revision + 1
        BY <2>1, WriteOutdates DEF Writes
    <2> QED BY <2>1, <2>2, WriteOutdates DEF Frame, Restorable
<1>3. ASSUME Rotates(r) PROVE \A x \in Requests : Restorable(x)' => x = r /\ req'[x].seen = rec
    <2>1. Writes /\ req'[r].seen = rec /\ Frame(r)
        BY <1>3 DEF Rotates
    <2>2. rec.revision \in Nat /\ rec'.revision = rec.revision + 1
        BY <2>1, WriteOutdates DEF Writes
    <2> QED BY <2>1, <2>2, WriteOutdates DEF Frame, Restorable
<1> QED BY <1>1, <1>2, <1>3

\* The kinds of steps, split by whether they write the record.
LEMMA StepsByRecord ==
    Steps <=> \/ Keeps
              \/ \E r \in Requests : Creates(r) \/ Redeems(r) \/ Rotates(r) \/ RollsBack(r) \/ TriesPin(r)
BY DEF Steps, Keeps

-----------------------------------------------------------------------------
(* A link is redeemed once.                                                *)

\* Initially no link was redeemed.
LEMMA LinkInit == Init => LinkInv
<1> SUFFICES ASSUME Init PROVE LinkInv
    OBVIOUS
<1>1. rec = NoRecord /\ \A n \in Links : sessions[n] = 0
    BY DEF Init
<1> QED BY <1>1 DEF LinkInv, LinkRedeemedOnce, Restorable

\* Every kind of step keeps the account of redeemed links.
LEMMA LinkStep ==
    ASSUME TypeOK, Placed, Locked, Fresh, LinkInv, Steps
    PROVE  LinkInv'
<1> USE DEF historyVars
<1>0. rec # NoRecord => rec.secret \in Links
    BY CurrentLinks DEF Fresh, Named
<1>1. ASSUME Keeps PROVE LinkInv'
    <2>1. rec' # NoRecord => LinkAccounted(rec)'
        BY <1>1, RestorableKept DEF LinkInv, LinkAccounted
    <2>2. \A x \in Requests : Restorable(x)' => LinkAccounted(req[x].seen)'
        BY <1>1, RestorableKept DEF LinkInv, LinkAccounted
    <2>3. LinkRedeemedOnce'
        BY <1>1, RestorableKept DEF LinkInv, LinkRedeemedOnce
    <2> QED BY <2>1, <2>2, <2>3 DEF LinkInv
<1>2. ASSUME NEW r \in Requests, Creates(r) \/ Rotates(r) PROVE LinkInv'
    <2>1. sessions' = sessions
        BY <1>2 DEF Creates, Rotates
    <2>2. sessions[rec'.secret] = 0
        <3>1. rec'.secret \in Links /\ rec'.secret = req'[r].link
            BY <1>2, CurrentGrows
        <3>2. ~InCurrent(req'[r].link)
            <4>1. CASE Rotates(r)
                BY <4>1 DEF Rotates, Fresh
            <4>2. CASE Creates(r)
                <5>1. Len(current) = 0
                    BY <4>2 DEF Creates, Locked, CreatedOnce
                <5> QED BY <5>1 DEF InCurrent
            <4> QED BY <1>2, <4>1, <4>2
        <3> QED BY <3>1, <3>2 DEF Fresh
    <2>3. LinkAccounted(rec)'
        BY <2>1, <2>2 DEF LinkAccounted
    <2>4. \A x \in Requests : Restorable(x)' => LinkAccounted(req[x].seen)'
        <3>1. CASE Creates(r)
            BY <3>1, RestorableWritten
        <3>2. CASE Rotates(r)
            <4>1. rec # NoRecord
                BY <3>2, NoRecordAssumption DEF Rotates, Writes
            <4> QED BY <2>1, <3>2, <4>1, RestorableWritten DEF LinkInv, LinkAccounted
        <3> QED BY <1>2, <3>1, <3>2
    <2>5. LinkRedeemedOnce'
        BY <2>1 DEF LinkInv, LinkRedeemedOnce
    <2> QED BY <2>3, <2>4, <2>5 DEF LinkInv
<1>3. ASSUME NEW r \in Requests, Redeems(r) PROVE LinkInv'
    <2>1. rec # NoRecord /\ rec.secret \in Links /\ sessions[rec.secret] = 0
        BY <1>0, <1>3, NoRecordAssumption DEF Redeems, Writes, LinkInv, LinkAccounted
    <2>2. PICK n \in Links : n = rec.secret
        BY <2>1
    <2>3. sessions' = sessions \/ sessions' = [sessions EXCEPT ![n] = @ + 1]
        BY <1>3, <2>2 DEF Redeems
    <2>4. LinkRedeemedOnce'
        <3>1. sessions[n] = 0 /\ sessions \in [Links -> Nat] /\ \A m \in Links : sessions[m] <= 1
            BY <2>1, <2>2 DEF TypeOK, LinkInv, LinkRedeemedOnce
        <3>2. CASE sessions' = [sessions EXCEPT ![n] = @ + 1]
            <4>1. \A m \in Links : sessions'[m] <= 1
                BY <3>1, <3>2
            <4> QED BY <4>1 DEF LinkRedeemedOnce
        <3> QED BY <2>3, <3>1, <3>2 DEF LinkRedeemedOnce
    <2>5. LinkAccounted(rec)'
        BY <1>3 DEF Redeems, LinkAccounted
    <2> QED BY <1>3, <2>4, <2>5, RestorableWritten DEF LinkInv
<1>4. ASSUME NEW r \in Requests, RollsBack(r) \/ TriesPin(r) PROVE LinkInv'
    <2>1. sessions' = sessions
        BY <1>4 DEF RollsBack, TriesPin
    <2>2. LinkAccounted(rec)'
        <3>1. CASE RollsBack(r)
            BY <2>1, <3>1 DEF RollsBack, LinkInv, LinkAccounted
        <3>2. CASE TriesPin(r)
            BY <2>1, <3>2, NoRecordAssumption DEF TriesPin, Writes, LinkInv, LinkAccounted
        <3> QED BY <1>4, <3>1, <3>2
    <2>3. LinkRedeemedOnce'
        BY <2>1 DEF LinkInv, LinkRedeemedOnce
    <2> QED BY <1>4, <2>2, <2>3, RestorableWritten DEF LinkInv
<1> QED BY <1>1, <1>2, <1>3, <1>4, StepsByRecord

-----------------------------------------------------------------------------
(* The guesses of a PIN are limited.                                       *)

\* Initially no PIN was guessed.
LEMMA PinInit == Init => PinInv
<1> SUFFICES ASSUME Init PROVE PinInv
    OBVIOUS
<1>1. rec = NoRecord /\ \A n \in Links : pinSessions[n] = 0 /\ guesses[n] = <<>>
    BY DEF Init
<1>2. GuessesLimited
    BY <1>1, GuestAssumption DEF GuessesLimited
<1> QED BY <1>1, <1>2 DEF PinInv, Restorable

\* A wrong guess that is not too early, entered.
LEMMA GuessEntered ==
    ASSUME TypeOK, GuessesLimited, PinAccounted(rec), NEW r \in Requests, TriesPin(r), rec.pin \in Links,
           guesses' = [guesses EXCEPT ![rec.pin] = Append(@, clock)], pinSessions' = pinSessions
    PROVE  /\ GuessesLimited' /\ Len(guesses'[rec.pin]) = rec.backoff.count + 1
           /\ guesses'[rec.pin][rec.backoff.count + 1] = clock
<1>1. PICK n \in Links : n = rec.pin
    OBVIOUS
<1> DEFINE g == guesses[n]
           h == guesses'[n]
<1>2. g \in Seq(Nat) /\ clock \in Nat /\ h = Append(g, clock) /\ \A m \in Links \ {n} : guesses'[m] = guesses[m]
    BY <1>1 DEF TypeOK
<1>3. /\ Len(g) = rec.backoff.count /\ rec.backoff.count < MaxAttempts
      /\ Len(g) > 0 => rec.backoff.notBefore = g[Len(g)] + Delay(Len(g))
    BY <1>1 DEF TriesPin, PinAccounted
<1> HIDE DEF g, h
<1>4. /\ Len(h) = Len(g) + 1 /\ h[Len(g) + 1] = clock /\ Len(g) \in Nat
      /\ \A i \in 1 .. Len(g) : h[i] = g[i] /\ g[i] \in Nat
    BY <1>2
<1>5. Len(h) <= MaxAttempts
    BY <1>3, <1>4, GuestAssumption
<1>6. Len(g) > 0 => clock - g[Len(g)] >= Delay(Len(g))
    <2> SUFFICES ASSUME Len(g) > 0 PROVE clock - g[Len(g)] >= Delay(Len(g))
        OBVIOUS
    <2>1. rec.backoff.notBefore = g[Len(g)] + Delay(Len(g)) /\ rec.backoff.notBefore <= clock
        BY <1>3 DEF TriesPin
    <2>2. Delay(Len(g)) \in Int
        BY <1>4, DelayType
    <2>3. g[Len(g)] \in Nat
        BY <1>4
    <2> QED BY <1>2, <2>1, <2>2, <2>3
<1>7. \A i \in 1 .. Len(h) - 1 : h[i + 1] - h[i] >= Delay(i)
    <2> SUFFICES ASSUME NEW i \in 1 .. Len(g) PROVE h[i + 1] - h[i] >= Delay(i)
        BY <1>4
    <2>1. CASE i = Len(g)
        BY <1>4, <1>6, <2>1
    <2>2. CASE i # Len(g)
        <3>1. i \in 1 .. Len(g) - 1 /\ h[i + 1] = g[i + 1] /\ h[i] = g[i]
            BY <1>4, <2>2
        <3>2. g[i + 1] - g[i] >= Delay(i)
            BY <3>1 DEF GuessesLimited, g
        <3> QED BY <3>1, <3>2
    <2> QED BY <2>1, <2>2
<1>8. GuessesLimited'
    <2> SUFFICES ASSUME NEW m \in Links
                 PROVE  /\ pinSessions'[m] <= 1 /\ Len(guesses'[m]) <= MaxAttempts
                        /\ \A i \in 1 .. Len(guesses'[m]) - 1 : guesses'[m][i + 1] - guesses'[m][i] >= Delay(i)
        BY DEF GuessesLimited
    <2>1. CASE m = n
        BY <1>5, <1>7, <2>1 DEF h, GuessesLimited
    <2>2. CASE m # n
        BY <1>2, <2>2 DEF GuessesLimited
    <2> QED BY <2>1, <2>2
<1> QED BY <1>1, <1>3, <1>4, <1>8 DEF h

\* Every kind of step keeps the account of guesses.
LEMMA PinStep ==
    ASSUME TypeOK, Placed, Locked, Fresh, PinInv, Steps
    PROVE  PinInv'
<1> USE DEF historyVars
<1>0. rec # NoRecord /\ rec.pin # 0 => rec.pin \in Links
    BY CurrentLinks DEF Fresh, Named
<1>1. ASSUME Keeps PROVE PinInv'
    <2>1. rec' # NoRecord => PinAccounted(rec)'
        BY <1>1, RestorableKept DEF PinInv, PinAccounted
    <2>2. \A x \in Requests : Restorable(x)' => PinAccounted(req[x].seen)'
        BY <1>1, RestorableKept DEF PinInv, PinAccounted
    <2>3. GuessesLimited'
        BY <1>1, RestorableKept DEF PinInv, GuessesLimited
    <2> QED BY <2>1, <2>2, <2>3 DEF PinInv
<1>2. ASSUME NEW r \in Requests, Creates(r) PROVE PinInv'
    <2>1. PinAccounted(rec)'
        BY <1>2 DEF Creates, PinAccounted
    <2>2. GuessesLimited'
        BY <1>2 DEF Creates, PinInv, GuessesLimited
    <2> QED BY <1>2, <2>1, <2>2, RestorableWritten DEF PinInv
<1>3. ASSUME NEW r \in Requests, Rotates(r) PROVE PinInv'
    <2>1. guesses' = guesses /\ pinSessions' = pinSessions /\ rec # NoRecord
        BY <1>3, NoRecordAssumption DEF Rotates, Writes
    <2>2. PinAccounted(rec)'
        <3>1. CASE rec'.pin = req[r].link /\ rec'.backoff = FreshBackoff
            <4>1. req[r].link \in Links /\ ~InCurrent(req[r].link)
                BY <1>3, GuestAssumption DEF Rotates, Fresh, Links, TypeOK
            <4>2. guesses[req[r].link] = <<>> /\ pinSessions[req[r].link] = 0
                BY <4>1 DEF Fresh
            <4> QED BY <2>1, <3>1, <4>2, GuestAssumption DEF PinAccounted, FreshBackoff
        <3>2. CASE rec'.pin = rec.pin /\ rec'.backoff = rec.backoff
            BY <2>1, <3>2 DEF PinInv, PinAccounted
        <3> QED BY <1>3, <3>1, <3>2 DEF Rotates
    <2>3. \A x \in Requests : Restorable(x)' => PinAccounted(req[x].seen)'
        BY <1>3, <2>1, RestorableWritten DEF PinInv, PinAccounted
    <2>4. GuessesLimited'
        BY <2>1 DEF PinInv, GuessesLimited
    <2> QED BY <2>2, <2>3, <2>4 DEF PinInv
<1>4. ASSUME NEW r \in Requests, Redeems(r) \/ RollsBack(r) PROVE PinInv'
    <2>1. guesses' = guesses /\ pinSessions' = pinSessions /\ rec # NoRecord
        BY <1>4, NoRecordAssumption DEF Redeems, RollsBack, Writes
    <2>2. PinAccounted(rec)'
        <3>1. CASE Redeems(r)
            BY <2>1, <3>1 DEF Redeems, PinInv, PinAccounted
        <3>2. CASE RollsBack(r)
            BY <2>1, <3>2 DEF RollsBack, PinInv, PinAccounted
        <3> QED BY <1>4, <3>1, <3>2
    <2>3. GuessesLimited'
        BY <2>1 DEF PinInv, GuessesLimited
    <2> QED BY <1>4, <2>2, <2>3, RestorableWritten DEF PinInv
<1>5. ASSUME NEW r \in Requests, TriesPin(r) PROVE PinInv'
    <2>0. rec # NoRecord /\ rec.pin \in Links /\ PinAccounted(rec) /\ GuessesLimited
        BY <1>0, <1>5, NoRecordAssumption DEF TriesPin, Writes, PinInv
    <2>1. CASE /\ rec'.pin = 0 /\ guesses' = guesses
               /\ pinSessions' \in {pinSessions, [pinSessions EXCEPT ![rec.pin] = @ + 1]}
        <3>1. pinSessions[rec.pin] = 0 /\ pinSessions \in [Links -> Nat] /\ \A n \in Links : pinSessions[n] <= 1
            BY <1>5, <2>0 DEF TriesPin, PinAccounted, TypeOK, GuessesLimited
        <3>2. PICK m \in Links : m = rec.pin
            BY <2>0
        <3>3. \A n \in Links : pinSessions'[n] <= 1
            <4>1. CASE pinSessions' = [pinSessions EXCEPT ![m] = @ + 1]
                BY <3>1, <3>2, <4>1
            <4> QED BY <2>1, <3>1, <3>2, <4>1
        <3>4. GuessesLimited'
            BY <2>0, <2>1, <3>3 DEF GuessesLimited
        <3>5. PinAccounted(rec)'
            BY <2>1 DEF PinAccounted
        <3> QED BY <1>5, <3>4, <3>5, RestorableWritten DEF PinInv
    <2>2. CASE /\ pinSessions' = pinSessions /\ guesses' = [guesses EXCEPT ![rec.pin] = Append(@, clock)]
               /\ rec'.pin = 0
        <3>1. PinAccounted(rec)'
            BY <2>2 DEF PinAccounted
        <3> QED BY <1>5, <2>0, <2>2, <3>1, GuessEntered, RestorableWritten DEF PinInv
    <2>3. CASE /\ pinSessions' = pinSessions /\ guesses' = [guesses EXCEPT ![rec.pin] = Append(@, clock)]
               /\ rec.backoff.count + 1 < MaxAttempts /\ rec'.pin = rec.pin
               /\ rec'.backoff.count = rec.backoff.count + 1
               /\ rec'.backoff.notBefore = clock + Delay(rec.backoff.count + 1)
        <3>1. /\ GuessesLimited' /\ Len(guesses'[rec.pin]) = rec.backoff.count + 1
              /\ guesses'[rec.pin][rec.backoff.count + 1] = clock
            BY <1>5, <2>0, <2>3, GuessEntered
        <3>2. pinSessions[rec.pin] = 0
            BY <1>5, <2>0 DEF TriesPin, PinAccounted
        <3>3. PinAccounted(rec)'
            BY <2>3, <3>1, <3>2 DEF PinAccounted
        <3> QED BY <1>5, <3>1, <3>3, RestorableWritten DEF PinInv
    <2> QED BY <1>5, <2>1, <2>2, <2>3 DEF TriesPin
<1> QED BY <1>1, <1>2, <1>3, <1>4, <1>5, StepsByRecord

-----------------------------------------------------------------------------
(* Renewals are a cooldown apart.                                          *)

\* Initially nothing was renewed.
LEMMA SpacedInit == Init => SpacedInv
<1> SUFFICES ASSUME Init PROVE SpacedInv
    OBVIOUS
<1>1. rec = NoRecord /\ \A r \in Requests : req[r] = Idle
    BY DEF Init
<1>2. \A s \in BOOLEAN : Len(renewals[s]) = 0
    BY DEF Init
<1>3. RenewalsSpaced
    BY <1>2 DEF RenewalsSpaced
<1>4. PendingSpaced
    BY <1>1, IdleFields DEF PendingSpaced, Renewing
<1> QED BY <1>1, <1>2, <1>3, <1>4 DEF SpacedInv, Restorable

\* Nothing is published, and no renewal is about to be that was not before.
NoneRenewing ==
    /\ renewals' = renewals
    /\ \A x \in Requests, s \in BOOLEAN : Renewing(x, s)' => Renewing(x, s) /\ req'[x].now = req[x].now

\* Steps that publish and enter no renewal keep them apart.
LEMMA SpacedKept ==
    ASSUME SpacedInv, NoneRenewing
    PROVE  RenewalsSpaced' /\ PendingSpaced'
<1>1. RenewalsSpaced'
    BY DEF SpacedInv, NoneRenewing, RenewalsSpaced
<1>2. PendingSpaced'
    BY DEF SpacedInv, NoneRenewing, PendingSpaced, Apart
<1> QED BY <1>1, <1>2

\* Time, clean-up and crashes bring no renewal to its event.
LEMMA NoneRenewingWorld == Waits \/ Cleans \/ Crashes => NoneRenewing
BY IdleFields DEF Waits, Cleans, Crashes, NoneRenewing, Renewing, historyVars

\* Nor do the steps of requests, but the write of a renewal and its event.
LEMMA NoneRenewingSteps ==
    ASSUME TypeOK, NEW r \in Requests
    PROVE  /\ Advances(r) \/ Loses(r) \/ Fails(r) \/ GivesWay(r) => NoneRenewing
           /\ Creates(r) \/ Redeems(r) \/ RollsBack(r) \/ TriesPin(r) => NoneRenewing
           /\ Settles(r) /\ req[r].op = "Create" => NoneRenewing
<1> USE DEF historyVars
<1>1. Advances(r) => NoneRenewing
    BY DEF Advances, Frame, Written, NoneRenewing, Renewing
<1>2. Loses(r) \/ GivesWay(r) \/ Redeems(r) \/ RollsBack(r) \/ TriesPin(r) \/ (Settles(r) /\ req[r].op = "Create")
      => NoneRenewing
    <2> SUFFICES ASSUME \/ Loses(r) \/ GivesWay(r) \/ Redeems(r) \/ RollsBack(r) \/ TriesPin(r)
                        \/ Settles(r) /\ req[r].op = "Create"
                 PROVE  NoneRenewing
        OBVIOUS
    <2>1. Frame(r) /\ req'[r] = Idle /\ renewals' = renewals
        BY DEF Loses, GivesWay, Redeems, RollsBack, TriesPin, Settles, Answers
    <2> QED BY <2>1, IdleFields DEF Frame, NoneRenewing, Renewing
<1>3. Fails(r) => NoneRenewing
    BY DEF Fails, Frame, NoneRenewing, Renewing
<1>4. Creates(r) => NoneRenewing
    BY DEF Creates, Frame, Same, NoneRenewing, Renewing
<1> QED BY <1>1, <1>2, <1>3, <1>4

\* The numbers that the spacing is about.
LEMMA SpacedTypes ==
    ASSUME TypeOK
    PROVE  /\ \A k \in BOOLEAN : Cooldown[k] \in Nat /\ Len(renewals[k]) \in Nat
           /\ \A k \in BOOLEAN : \A i \in 1 .. Len(renewals[k]) : renewals[k][i] \in Nat
           /\ \A x \in Requests : req[x].now \in Nat /\ req[x].session \in BOOLEAN
           /\ rec # NoRecord => \A k \in BOOLEAN : rec.quota[k].notBefore \in Nat
<1>1. \A k \in BOOLEAN : Cooldown[k] \in Nat
    BY GuestAssumption
<1>2. \A k \in BOOLEAN : renewals[k] \in Seq(Nat)
    BY DEF TypeOK
<1>3. \A x \in Requests : req[x].now \in Nat /\ req[x].session \in BOOLEAN
    BY DEF TypeOK, RequestStates
<1>4. rec # NoRecord => \A k \in BOOLEAN : rec.quota[k] \in Quotas
    BY DEF TypeOK, MaybeRecord, Records
<1> QED BY <1>1, <1>2, <1>3, <1>4 DEF Quotas

\* The renewal r is published.
LEMMA SpacedSettles ==
    ASSUME TypeOK, Placed, Locked, Fresh, SpacedInv, NEW r \in Requests, Settles(r), req[r].op = "Renew"
    PROVE  SpacedInv'
<1>1. PICK t \in Nat, z \in BOOLEAN : t = req[r].now /\ z = req[r].session
    BY SpacedTypes
<1>2. /\ Frame(r) /\ req'[r] = Idle /\ rec' = rec /\ current' = current
      /\ renewals' = [renewals EXCEPT ![z] = Append(@, t)] /\ Renewing(r, z)
    BY <1>1 DEF Settles, Answers, storeVars, Renewing
<1> DEFINE n == Len(renewals[z])
<1>3. /\ Len(renewals'[z]) = n + 1 /\ renewals'[z][n + 1] = t /\ n \in Nat
      /\ \A i \in 1 .. n : renewals'[z][i] = renewals[z][i]
      /\ \A k \in BOOLEAN : k # z => renewals'[k] = renewals[k]
    BY <1>2 DEF TypeOK
<1>4. \A x \in Requests, k \in BOOLEAN : Renewing(x, k)' => x # r /\ Renewing(x, k) /\ req'[x].now = req[x].now
    BY <1>2, IdleFields DEF Frame, Renewing
<1> HIDE DEF n
<1>5. RenewalsSpaced'
    <2> SUFFICES ASSUME NEW k \in BOOLEAN, NEW i \in 1 .. Len(renewals'[k]), NEW j \in 1 .. Len(renewals'[k]), i # j
                 PROVE  Apart(renewals'[k][i], renewals'[k][j], k)
        BY DEF RenewalsSpaced, Apart
    <2>1. CASE k # z
        BY <1>3, <2>1 DEF SpacedInv, RenewalsSpaced, Apart
    <2>2. CASE k = z /\ i \in 1 .. n /\ j \in 1 .. n
        BY <1>3, <2>2 DEF SpacedInv, RenewalsSpaced, Apart, n
    <2>3. CASE k = z /\ i = n + 1 /\ j \in 1 .. n
        BY <1>1, <1>2, <1>3, <2>3 DEF SpacedInv, PendingSpaced, Apart, n
    <2>4. CASE k = z /\ j = n + 1 /\ i \in 1 .. n
        BY <1>1, <1>2, <1>3, <2>4 DEF SpacedInv, PendingSpaced, Apart, n
    <2> QED BY <1>3, <2>1, <2>2, <2>3, <2>4
<1>6. PendingSpaced'
    <2> SUFFICES ASSUME NEW k \in BOOLEAN, NEW x \in Requests, Renewing(x, k)'
                 PROVE  /\ \A i \in 1 .. Len(renewals'[k]) : Apart(renewals'[k][i], req'[x].now, k)
                        /\ \A y \in Requests : y # x /\ Renewing(y, k)' => Apart(req'[y].now, req'[x].now, k)
        BY DEF PendingSpaced, Apart
    <2>1. x # r /\ Renewing(x, k) /\ req'[x].now = req[x].now
        BY <1>4
    <2>2. \A y \in Requests : y # x /\ Renewing(y, k)' => Apart(req'[y].now, req'[x].now, k)
        BY <1>4, <2>1 DEF SpacedInv, PendingSpaced
    <2>3. ASSUME NEW i \in 1 .. Len(renewals'[k]) PROVE Apart(renewals'[k][i], req'[x].now, k)
        <3>1. CASE k # z
            BY <1>3, <2>1, <3>1 DEF SpacedInv, PendingSpaced
        <3>2. CASE k = z /\ i \in 1 .. n
            BY <1>3, <2>1, <3>2 DEF SpacedInv, PendingSpaced, n
        <3>3. CASE k = z /\ i = n + 1
            BY <1>1, <1>2, <1>3, <2>1, <3>3 DEF SpacedInv, PendingSpaced
        <3> QED BY <1>3, <3>1, <3>2, <3>3
    <2> QED BY <2>2, <2>3
<1>7. \A k \in BOOLEAN, i \in Nat : i \in 1 .. Len(renewals'[k]) =>
         \/ i \in 1 .. Len(renewals[k]) /\ renewals'[k][i] = renewals[k][i]
         \/ k = z /\ renewals'[k][i] = t
    BY <1>3 DEF n
<1>8. rec' # NoRecord => QuotaAccounted(rec, Requests)'
    <2> SUFFICES ASSUME rec # NoRecord, NEW k \in BOOLEAN
                 PROVE  /\ \A i \in 1 .. Len(renewals'[k]) : renewals'[k][i] + Cooldown[k] <= rec.quota[k].notBefore
                        /\ \A x \in Requests : Renewing(x, k)' => req'[x].now + Cooldown[k] <= rec.quota[k].notBefore
        BY <1>2 DEF QuotaAccounted
    <2>1. /\ \A i \in 1 .. Len(renewals[k]) : renewals[k][i] + Cooldown[k] <= rec.quota[k].notBefore
          /\ \A x \in Requests : Renewing(x, k) => req[x].now + Cooldown[k] <= rec.quota[k].notBefore
        BY DEF SpacedInv, QuotaAccounted
    <2>2. ASSUME NEW i \in 1 .. Len(renewals'[k])
          PROVE  renewals'[k][i] + Cooldown[k] <= rec.quota[k].notBefore
        <3>1. CASE i \in 1 .. Len(renewals[k]) /\ renewals'[k][i] = renewals[k][i]
            BY <2>1, <3>1
        <3>2. CASE k = z /\ renewals'[k][i] = t
            BY <1>1, <1>2, <2>1, <3>2
        <3> QED BY <1>7, <3>1, <3>2
    <2> QED BY <1>4, <2>1, <2>2
<1>9. \A x \in Requests : Restorable(x)' => QuotaAccounted(req[x].seen, Requests \ {x})'
    <2> SUFFICES ASSUME NEW x \in Requests, Restorable(x)', NEW k \in BOOLEAN
                 PROVE  /\ \A i \in 1 .. Len(renewals'[k]) : renewals'[k][i] + Cooldown[k] <= req'[x].seen.quota[k].notBefore
                        /\ \A y \in Requests \ {x} :
                              Renewing(y, k)' => req'[y].now + Cooldown[k] <= req'[x].seen.quota[k].notBefore
        BY DEF QuotaAccounted
    <2>0. Keeps
        BY DEF Keeps
    <2>1. Restorable(x) /\ req'[x].seen = req[x].seen
        BY <2>0, RestorableKept
    <2>2. x # r
        BY <1>2, IdleFields DEF Restorable
    <2>3. /\ \A i \in 1 .. Len(renewals[k]) : renewals[k][i] + Cooldown[k] <= req[x].seen.quota[k].notBefore
          /\ \A y \in Requests \ {x} : Renewing(y, k) => req[y].now + Cooldown[k] <= req[x].seen.quota[k].notBefore
        BY <2>1 DEF SpacedInv, QuotaAccounted
    <2>4. ASSUME NEW i \in 1 .. Len(renewals'[k])
          PROVE  renewals'[k][i] + Cooldown[k] <= req'[x].seen.quota[k].notBefore
        <3>1. CASE i \in 1 .. Len(renewals[k]) /\ renewals'[k][i] = renewals[k][i]
            BY <2>1, <2>3, <3>1
        <3>2. CASE k = z /\ renewals'[k][i] = t
            BY <1>1, <1>2, <2>1, <2>2, <2>3, <3>2
        <3> QED BY <1>7, <3>1, <3>2
    <2> QED BY <1>4, <2>1, <2>3, <2>4
<1>10. current' # <<>>
    BY <1>2 DEF Settles, Locked, CreatedOnce, Written
<1> QED BY <1>5, <1>6, <1>8, <1>9, <1>10 DEF SpacedInv

\* The renewal r is entered in the record: it is no earlier than its quota allows.
LEMMA SpacedRotates ==
    ASSUME TypeOK, Placed, Locked, Fresh, SpacedInv, NEW r \in Requests, Rotates(r)
    PROVE  SpacedInv'
<1>1. PICK t \in Nat, z \in BOOLEAN : t = req[r].now /\ z = req[r].session
    BY SpacedTypes
<1>2. /\ Frame(r) /\ rec # NoRecord /\ renewals' = renewals /\ rec.quota[z].notBefore <= t
      /\ req'[r].now = t /\ req'[r].session = z /\ req[r].pc = "rotate"
      /\ \A k \in BOOLEAN : rec'.quota[k].notBefore = IF k = z THEN t + Cooldown[k] ELSE rec.quota[k].notBefore
    BY <1>1, NoRecordAssumption DEF Rotates, Writes, Same, historyVars
<1>3. \A x \in Requests, k \in BOOLEAN : Renewing(x, k)' =>
         \/ x # r /\ Renewing(x, k) /\ req'[x].now = req[x].now
         \/ x = r /\ k = z
    BY <1>2 DEF Frame, Renewing
<1>4. \A k \in BOOLEAN :
         /\ \A i \in 1 .. Len(renewals[k]) : renewals[k][i] + Cooldown[k] <= rec.quota[k].notBefore
         /\ \A x \in Requests : Renewing(x, k) => req[x].now + Cooldown[k] <= rec.quota[k].notBefore
    BY <1>2 DEF SpacedInv, QuotaAccounted
<1>5. /\ \A i \in 1 .. Len(renewals[z]) : renewals[z][i] + Cooldown[z] <= t
      /\ \A x \in Requests : Renewing(x, z) => req[x].now + Cooldown[z] <= t
    BY <1>2, <1>4, SpacedTypes
<1>6. PendingSpaced'
    <2> SUFFICES ASSUME NEW k \in BOOLEAN, NEW x \in Requests, Renewing(x, k)'
                 PROVE  /\ \A i \in 1 .. Len(renewals[k]) : Apart(renewals[k][i], req'[x].now, k)
                        /\ \A y \in Requests : y # x /\ Renewing(y, k)' => Apart(req'[y].now, req'[x].now, k)
        BY <1>2 DEF PendingSpaced, Apart
    <2>1. CASE x # r /\ Renewing(x, k) /\ req'[x].now = req[x].now
        <3>1. \A i \in 1 .. Len(renewals[k]) : Apart(renewals[k][i], req'[x].now, k)
            BY <2>1 DEF SpacedInv, PendingSpaced
        <3>2. ASSUME NEW y \in Requests, y # x, Renewing(y, k)' PROVE Apart(req'[y].now, req'[x].now, k)
            <4>1. CASE y # r /\ Renewing(y, k) /\ req'[y].now = req[y].now
                BY <2>1, <3>2, <4>1 DEF SpacedInv, PendingSpaced
            <4>2. CASE y = r /\ k = z
                BY <1>2, <1>5, <2>1, <4>2, SpacedTypes DEF Apart
            <4> QED BY <1>3, <3>2, <4>1, <4>2
        <3> QED BY <3>1, <3>2
    <2>2. CASE x = r /\ k = z
        <3>1. \A i \in 1 .. Len(renewals[k]) : Apart(renewals[k][i], req'[x].now, k)
            BY <1>2, <1>5, <2>2, SpacedTypes DEF Apart
        <3>2. ASSUME NEW y \in Requests, y # x, Renewing(y, k)' PROVE Apart(req'[y].now, req'[x].now, k)
            <4>1. Renewing(y, k) /\ req'[y].now = req[y].now
                BY <1>3, <2>2, <3>2
            <4> QED BY <1>2, <1>5, <2>2, <4>1, SpacedTypes DEF Apart
        <3> QED BY <3>1, <3>2
    <2> QED BY <1>3, <2>1, <2>2
<1>7. RenewalsSpaced'
    BY <1>2 DEF SpacedInv, RenewalsSpaced
<1>8. QuotaAccounted(rec, Requests)'
    <2> SUFFICES ASSUME NEW k \in BOOLEAN
                 PROVE  /\ \A i \in 1 .. Len(renewals[k]) : renewals[k][i] + Cooldown[k] <= rec'.quota[k].notBefore
                        /\ \A x \in Requests : Renewing(x, k)' => req'[x].now + Cooldown[k] <= rec'.quota[k].notBefore
        BY <1>2 DEF QuotaAccounted
    <2>1. CASE k # z
        BY <1>2, <1>3, <1>4, <2>1
    <2>2. CASE k = z
        <3>1. rec'.quota[z].notBefore = t + Cooldown[z] /\ Cooldown[z] \in Nat
            BY <1>2, SpacedTypes
        <3>2. \A i \in 1 .. Len(renewals[z]) : renewals[z][i] + Cooldown[z] <= rec'.quota[z].notBefore
            BY <1>5, <3>1, SpacedTypes
        <3>3. \A x \in Requests : Renewing(x, z)' => req'[x].now + Cooldown[z] <= rec'.quota[z].notBefore
            <4> SUFFICES ASSUME NEW x \in Requests, Renewing(x, z)'
                         PROVE  req'[x].now + Cooldown[z] <= t + Cooldown[z]
                BY <3>1
            <4>1. CASE x = r
                BY <1>2, <3>1, <4>1
            <4>2. CASE x # r
                <5>1. Renewing(x, z) /\ req'[x].now = req[x].now
                    BY <1>3, <4>2
                <5>2. req[x].now \in Nat /\ req[x].now + Cooldown[z] <= t
                    BY <1>5, <5>1, SpacedTypes
                <5> QED BY <3>1, <5>1, <5>2
            <4> QED BY <4>1, <4>2
        <3> QED BY <2>2, <3>2, <3>3
    <2> QED BY <2>1, <2>2
<1>9. \A x \in Requests : Restorable(x)' => QuotaAccounted(req[x].seen, Requests \ {x})'
    <2> SUFFICES ASSUME NEW x \in Requests, Restorable(x)'
                 PROVE  QuotaAccounted(req[x].seen, Requests \ {x})'
        OBVIOUS
    <2>1. x = r /\ req'[x].seen = rec
        BY RestorableWritten
    <2> QED BY <1>2, <1>3, <1>4, <2>1 DEF QuotaAccounted
<1>10. current' # <<>>
    BY CurrentGrows
<1> QED BY <1>6, <1>7, <1>8, <1>9, <1>10 DEF SpacedInv

\* Every kind of step keeps the account of renewals.
LEMMA SpacedStep ==
    ASSUME TypeOK, Placed, Locked, Fresh, SpacedInv, Steps
    PROVE  SpacedInv'
<1> USE DEF historyVars, storeVars
<1>1. ASSUME Keeps, NoneRenewing PROVE SpacedInv'
    <2>1. rec' # NoRecord => QuotaAccounted(rec, Requests)'
        BY <1>1, RestorableKept DEF SpacedInv, QuotaAccounted, NoneRenewing
    <2>2. \A x \in Requests : Restorable(x)' => QuotaAccounted(req[x].seen, Requests \ {x})'
        BY <1>1, RestorableKept DEF SpacedInv, QuotaAccounted, NoneRenewing
    <2>3. current' = <<>> => \A k \in BOOLEAN : Len(renewals'[k]) = 0
        BY <1>1, RestorableKept DEF SpacedInv, NoneRenewing
    <2> QED BY <1>1, <2>1, <2>2, <2>3, SpacedKept DEF SpacedInv
<1>2. ASSUME NEW r \in Requests, Redeems(r) \/ TriesPin(r) PROVE SpacedInv'
    <2>1. NoneRenewing /\ rec # NoRecord /\ rec'.quota = rec.quota /\ current' = current
        BY <1>2, NoneRenewingSteps, NoRecordAssumption DEF Redeems, TriesPin, Writes
    <2>2. QuotaAccounted(rec, Requests)'
        BY <2>1 DEF SpacedInv, QuotaAccounted, NoneRenewing
    <2>3. current' = <<>> => \A k \in BOOLEAN : Len(renewals'[k]) = 0
        BY <2>1 DEF SpacedInv, NoneRenewing
    <2> QED BY <1>2, <2>1, <2>2, <2>3, SpacedKept, RestorableWritten DEF SpacedInv
<1>3. ASSUME NEW r \in Requests, RollsBack(r) PROVE SpacedInv'
    <2>1. NoneRenewing /\ Restorable(r) /\ rec'.quota = req[r].seen.quota /\ req'[r] = Idle /\ current' = current
        BY <1>3, NoneRenewingSteps DEF RollsBack, Answers
    <2>2. QuotaAccounted(rec, Requests)'
        <3>1. QuotaAccounted(req[r].seen, Requests \ {r})
            BY <2>1 DEF SpacedInv
        <3>2. \A k \in BOOLEAN : ~Renewing(r, k)'
            BY <2>1, IdleFields DEF Renewing
        <3> QED BY <2>1, <3>1, <3>2 DEF QuotaAccounted, NoneRenewing
    <2>3. current' = <<>> => \A k \in BOOLEAN : Len(renewals'[k]) = 0
        BY <2>1 DEF SpacedInv, NoneRenewing
    <2> QED BY <1>3, <2>1, <2>2, <2>3, SpacedKept, RestorableWritten DEF SpacedInv
<1>4. ASSUME NEW r \in Requests, Creates(r) PROVE SpacedInv'
    <2>1. NoneRenewing /\ current = <<>> /\ current' # <<>>
        BY <1>4, NoneRenewingSteps, CurrentGrows DEF Creates, Locked, CreatedOnce
    <2>2. \A k \in BOOLEAN : Len(renewals'[k]) = 0
        BY <2>1 DEF SpacedInv, NoneRenewing
    <2>3. \A x \in Requests, k \in BOOLEAN : ~Renewing(x, k)'
        BY <2>1 DEF NoneRenewing, Locked, CreatedOnce, Renewing, Written
    <2>4. QuotaAccounted(rec, Requests)'
        BY <2>2, <2>3 DEF QuotaAccounted
    <2> QED BY <1>4, <2>1, <2>2, <2>4, SpacedKept, RestorableWritten DEF SpacedInv
<1>5. ASSUME Keeps, ~NoneRenewing PROVE SpacedInv'
    <2>1. PICK r \in Requests : Settles(r)
        BY <1>5, NoneRenewingSteps, NoneRenewingWorld DEF Keeps
    <2>2. req[r].op = "Renew"
        BY <1>5, <2>1, NoneRenewingSteps DEF Settles
    <2> QED BY <2>1, <2>2, SpacedSettles
<1> QED BY <1>1, <1>2, <1>3, <1>4, <1>5, SpacedRotates, StepsByRecord

-----------------------------------------------------------------------------
(* The newest published link works.                                        *)

\* Initially no link is in the record.
LEMMA NewestInit == Init => NewestInv
<1> SUFFICES ASSUME Init PROVE NewestInv
    OBVIOUS
<1>1. rec = NoRecord /\ current = <<>> /\ Len(current) = 0
    BY DEF Init
<1> QED BY <1>1 DEF NewestInv, Restorable

\* No request comes to its event, and what is published was at its event.
LEMMA NoneAfterKept ==
    ASSUME TypeOK, Fresh, Steps, current' = current
    PROVE  \A i, n \in Int : NoneAfter(i, n) => NoneAfter(i, n)'
<1> USE DEF historyVars, mailVars
<1> DEFINE Quiet ==
       /\ \A x \in Requests : req'[x].pc = "publish" => req[x].pc = "publish" /\ req'[x].link = req[x].link
       /\ \A n \in published' : n \in published \/ \E x \in Requests : req[x].pc = "publish" /\ req[x].link = n
<1>1. ASSUME NEW r \in Requests, Advances(r) PROVE Quiet
    BY <1>1 DEF Advances, Frame, Written
<1>2. ASSUME NEW r \in Requests, Settles(r) PROVE Quiet
    <2>1. Frame(r) /\ req'[r] = Idle /\ published' = published \cup {req[r].link} /\ req[r].pc = "publish"
        BY <1>2 DEF Settles, Answers
    <2> QED BY <2>1, IdleFields DEF Frame
<1>3. ASSUME NEW r \in Requests, Loses(r) \/ GivesWay(r) \/ Redeems(r) \/ RollsBack(r) \/ TriesPin(r) PROVE Quiet
    <2>1. Frame(r) /\ req'[r] = Idle /\ published' = published
        BY <1>3 DEF Loses, GivesWay, Redeems, RollsBack, TriesPin, Answers
    <2> QED BY <2>1, IdleFields DEF Frame
<1>4. ASSUME NEW r \in Requests, Fails(r) PROVE Quiet
    BY <1>4 DEF Fails, Frame
<1>5. ASSUME Waits \/ Cleans \/ Crashes PROVE Quiet
    BY <1>5, IdleFields DEF Waits, Cleans, Crashes
<1>6. ASSUME NEW r \in Requests, Creates(r) \/ Rotates(r) PROVE FALSE
    BY <1>6, CurrentGrows
<1>7. Quiet
    BY <1>1, <1>2, <1>3, <1>4, <1>5, <1>6 DEF Steps
<1> HIDE DEF Quiet
<1> SUFFICES ASSUME NEW i \in Int, NEW n \in Int, NoneAfter(i, n), NEW j \in i + 1 .. n
             PROVE  current[j] \notin published' /\ \A x \in Requests : req'[x].pc = "publish" => req'[x].link # current[j]
    BY DEF NoneAfter
<1>8. current[j] \notin published /\ \A x \in Requests : req[x].pc = "publish" => req[x].link # current[j]
    BY DEF NoneAfter
<1> QED BY <1>7, <1>8 DEF Quiet

\* The link of the record is sent, or on its way, or nobody got it.
LEMMA SentStep ==
    ASSUME TypeOK, Placed, Locked, Fresh, NewestInv, Steps
    PROVE  rec' # NoRecord /\ ~orphaned' => rec'.secret \in sent' \/ Flying(rec.secret)'
<1> USE DEF historyVars, mailVars, storeVars
<1> SUFFICES ASSUME rec' # NoRecord, ~orphaned' PROVE rec'.secret \in sent' \/ Flying(rec.secret)'
    OBVIOUS
<1>0. rec # NoRecord /\ ~orphaned => rec.secret \in sent \/ \E x \in Requests : Written(x) /\ req[x].link = rec.secret
    BY DEF NewestInv, Flying
<1> DEFINE Goal == rec'.secret \in sent' \/ \E x \in Requests : Written(x)' /\ req'[x].link = rec'.secret
<1>1. ASSUME NEW r \in Requests, Advances(r) PROVE Goal
    <2>1. rec' = rec /\ sent' = sent /\ orphaned' = orphaned /\ ~Written(r) /\ Frame(r)
        BY <1>1 DEF Advances
    <2> QED BY <1>0, <2>1 DEF Frame, Written
<1>2. ASSUME NEW r \in Requests, Creates(r) \/ Rotates(r) PROVE Goal
    BY <1>2, CurrentGrows DEF Creates, Rotates, Written
<1>3. ASSUME NEW r \in Requests, Settles(r) PROVE Goal
    <2>1. rec' = rec /\ sent' = sent \cup {req[r].link} /\ orphaned' = orphaned /\ Frame(r)
        BY <1>3 DEF Settles, Answers
    <2> QED BY <1>0, <2>1 DEF Frame, Written
<1>4. ASSUME NEW r \in Requests, Loses(r) PROVE Goal
    BY <1>4 DEF Loses
<1>5. ASSUME NEW r \in Requests, Fails(r) PROVE Goal
    <2>1. /\ rec' = rec /\ sent \subseteq sent' /\ orphaned' = orphaned /\ Frame(r)
          /\ Written(r)' /\ req'[r].link = req[r].link
        BY <1>5 DEF Fails, Written
    <2> QED BY <1>0, <2>1 DEF Frame, Written
<1>6. ASSUME NEW r \in Requests, Redeems(r) \/ TriesPin(r) PROVE Goal
    <2>1. /\ rec # NoRecord /\ rec'.secret = rec.secret /\ sent' = sent /\ orphaned' = orphaned
          /\ ~Written(r) /\ Frame(r)
        BY <1>6, NoRecordAssumption DEF Redeems, TriesPin, Writes, Answers
    <2> QED BY <1>0, <2>1 DEF Frame, Written
<1>7. ASSUME NEW r \in Requests, RollsBack(r) \/ GivesWay(r) PROVE Goal
    <2>1. sent' = sent /\ Frame(r) /\ orphaned' = (orphaned \/ Stranded(r))
        BY <1>7 DEF RollsBack, GivesWay, Answers
    <2>2. ~Stranded(r)
        BY <2>1
    <2> QED BY <2>1, <2>2 DEF Stranded, Frame, Written
<1>8. ASSUME Waits PROVE Goal
    BY <1>0, <1>8 DEF Waits, Written
<1>9. ASSUME Cleans PROVE Goal
    BY <1>9 DEF Cleans
<1>10. ASSUME Crashes PROVE Goal
    BY <1>0, <1>10 DEF Crashes, Written
<1> QED BY <1>1, <1>2, <1>3, <1>4, <1>5, <1>6, <1>7, <1>8, <1>9, <1>10 DEF Steps, Flying

\* Every kind of step keeps the order of the published links.
LEMMA NewestStep ==
    ASSUME TypeOK, Placed, Locked, Fresh, NewestInv, Steps
    PROVE  NewestInv'
<1> USE DEF historyVars, mailVars, storeVars
<1>0. rec' # NoRecord /\ ~orphaned' => rec'.secret \in sent' \/ Flying(rec.secret)'
    BY SentStep
<1>a. Len(current) \in Nat
    BY DEF TypeOK
<1>1. ASSUME NEW r \in Requests, Creates(r) \/ Rotates(r) PROVE NewestInv'
    <2> DEFINE m == Len(current)
    <2>1. /\ Len(current') = m + 1 /\ current'[m + 1] = req'[r].link /\ rec'.secret = req'[r].link
          /\ \A i \in 1 .. m : current'[i] = current[i]
        BY <1>1, CurrentGrows
    <2>2. ~InCurrent(req'[r].link)
        <3>1. CASE Rotates(r)
            BY <3>1 DEF Rotates, Fresh
        <3>2. CASE Creates(r)
            <4>1. Len(current) = 0
                BY <3>2 DEF Creates, Locked, CreatedOnce
            <4> QED BY <4>1 DEF InCurrent
        <3> QED BY <1>1, <3>1, <3>2
    <2>3. m \in Nat /\ \A i \in 1 .. m : current[i] # req'[r].link
        BY <1>a, <2>2 DEF InCurrent
    <2> HIDE DEF m
    <2>4. \A i, j \in 1 .. Len(current') : current'[i] = current'[j] => i = j
        <3> SUFFICES ASSUME NEW i \in 1 .. m + 1, NEW j \in 1 .. m + 1, current'[i] = current'[j] PROVE i = j
            BY <2>1
        <3>1. CASE i \in 1 .. m /\ j \in 1 .. m
            BY <2>1, <3>1 DEF NewestInv, m
        <3>2. CASE i = m + 1 \/ j = m + 1
            BY <2>1, <2>3, <3>2
        <3> QED BY <2>3, <3>1, <3>2
    <2>5. \A i \in 1 .. Len(current') : current'[i] = rec'.secret => i = m + 1
        BY <2>1, <2>3
    <2>6. \A i \in 1 .. Len(current') : current'[i] = rec'.secret => NoneAfter(i, Len(current))'
        BY <2>1, <2>3, <2>5 DEF NoneAfter
    <2>7. ASSUME NEW x \in Requests, Restorable(x)'
          PROVE  /\ current'[Len(current')] = req'[x].link
                 /\ \A i \in 1 .. Len(current') :
                       current'[i] = req'[x].seen.secret => NoneAfter(i, Len(current) - 1)'
        <3>1. Rotates(r) /\ x = r /\ req'[x].seen = rec
            BY <1>1, <2>7, RestorableWritten
        <3>2. rec # NoRecord /\ InCurrent(rec.secret) /\ published' = published /\ Frame(r)
            BY <3>1, NoRecordAssumption DEF Rotates, Writes, Fresh, Named
        <3>3. ASSUME NEW i \in 1 .. m + 1, current'[i] = rec.secret PROVE NoneAfter(i, Len(current) - 1)'
            <4>1. i \in 1 .. m /\ current[i] = rec.secret
                BY <2>1, <2>2, <2>3, <3>2, <3>3
            <4>2. NoneAfter(i, m)
                BY <3>2, <4>1 DEF NewestInv, m
            <4>3. ASSUME NEW j \in i + 1 .. m
                  PROVE  /\ current'[j] \notin published'
                         /\ \A y \in Requests : req'[y].pc = "publish" => req'[y].link # current'[j]
                <5>1. j \in 1 .. m /\ current'[j] = current[j]
                    BY <2>1, <2>3, <4>1
                <5>2. current[j] \notin published /\ \A y \in Requests : req[y].pc = "publish" => req[y].link # current[j]
                    BY <4>2 DEF NoneAfter
                <5> QED BY <2>3, <3>2, <5>1, <5>2 DEF Frame
            <4>4. Len(current') - 1 = m
                BY <2>1, <2>3
            <4> QED BY <4>3, <4>4 DEF NoneAfter
        <3> QED BY <2>1, <3>1, <3>3
    <2> QED BY <1>0, <2>4, <2>6, <2>7 DEF NewestInv
<1>2. ASSUME Keeps PROVE NewestInv'
    <2>1. current' = current /\ rec' \in {rec, NoRecord}
        BY <1>2, RestorableKept
    <2>2. \A i, n \in Int : NoneAfter(i, n) => NoneAfter(i, n)'
        BY <2>1, NoneAfterKept
    <2>3. rec' # NoRecord => \A i \in 1 .. Len(current') : current'[i] = rec'.secret => NoneAfter(i, Len(current))'
        <3> SUFFICES ASSUME rec # NoRecord, NEW i \in 1 .. Len(current), current[i] = rec.secret
                     PROVE  NoneAfter(i, Len(current))'
            BY <2>1
        <3>1. PICK n \in Int : n = Len(current)
            BY <1>a
        <3>2. NoneAfter(i, n)
            BY <3>1 DEF NewestInv
        <3>3. NoneAfter(i, n)'
            BY <1>a, <2>2, <3>2
        <3> QED BY <2>1, <3>1, <3>3 DEF NoneAfter
    <2>4. ASSUME NEW x \in Requests, Restorable(x)'
          PROVE  /\ current'[Len(current')] = req'[x].link
                 /\ \A i \in 1 .. Len(current') :
                       current'[i] = req'[x].seen.secret => NoneAfter(i, Len(current) - 1)'
        <3>1. Restorable(x) /\ req'[x].seen = req[x].seen /\ req'[x].link = req[x].link
            BY <1>2, <2>4, RestorableKept
        <3>2. ASSUME NEW i \in 1 .. Len(current), current[i] = req[x].seen.secret
              PROVE  NoneAfter(i, Len(current) - 1)'
            <4>1. PICK n \in Int : n = Len(current) - 1
                BY <1>a
            <4>2. NoneAfter(i, n)
                BY <3>1, <3>2, <4>1 DEF NewestInv
            <4>3. NoneAfter(i, n)'
                BY <1>a, <2>2, <4>2
            <4> QED BY <2>1, <4>1, <4>3 DEF NoneAfter
        <3> QED BY <2>1, <3>1, <3>2 DEF NewestInv
    <2>5. \A i, j \in 1 .. Len(current') : current'[i] = current'[j] => i = j
        BY <2>1 DEF NewestInv
    <2> QED BY <1>0, <2>3, <2>4, <2>5 DEF NewestInv
<1>3. ASSUME NEW r \in Requests, Redeems(r) \/ TriesPin(r) \/ RollsBack(r) PROVE NewestInv'
    <2>1. current' = current /\ rec # NoRecord /\ \A x \in Requests : ~Restorable(x)'
        BY <1>3, NoRecordAssumption, RestorableWritten DEF Redeems, TriesPin, RollsBack, Writes
    <2>2. \A i, n \in Int : NoneAfter(i, n) => NoneAfter(i, n)'
        BY <2>1, NoneAfterKept
    <2>3. ASSUME NEW i \in 1 .. Len(current), current[i] = rec'.secret
          PROVE  NoneAfter(i, Len(current))'
        <3>0. PICK n \in Int : n = Len(current)
            BY <1>a
        <3>1. CASE Redeems(r) \/ TriesPin(r)
            <4>1. NoneAfter(i, n)
                BY <2>1, <2>3, <3>0, <3>1 DEF Redeems, TriesPin, NewestInv
            <4>2. NoneAfter(i, n)'
                BY <1>a, <2>2, <4>1
            <4> QED BY <2>1, <3>0, <4>2 DEF NoneAfter
        <3>2. CASE RollsBack(r)
            <4>1. /\ Restorable(r) /\ rec'.secret = req[r].seen.secret /\ Frame(r) /\ req'[r] = Idle
                  /\ published' = published /\ Written(r)
                BY <3>2 DEF RollsBack, Answers, Restorable
            <4>2. current[n] = req[r].link /\ NoneAfter(i, n - 1)
                BY <2>3, <3>0, <4>1 DEF NewestInv
            <4>3. NoneAfter(i, n - 1)'
                BY <1>a, <2>2, <3>0, <4>2
            <4>4. req[r].link \notin published'
                BY <4>1 DEF Fresh
            <4>5. \A x \in Requests : req'[x].pc = "publish" => req'[x].link # req[r].link
                BY <4>1, IdleFields DEF Frame, Fresh, Holding, Written
            <4>6. ASSUME NEW j \in i + 1 .. n
                  PROVE  /\ current'[j] \notin published'
                         /\ \A y \in Requests : req'[y].pc = "publish" => req'[y].link # current'[j]
                <5>1. CASE j = n
                    BY <2>1, <4>2, <4>4, <4>5, <5>1
                <5>2. CASE j \in i + 1 .. n - 1
                    BY <4>3, <5>2 DEF NoneAfter
                <5> QED BY <3>0, <5>1, <5>2
            <4> QED BY <2>1, <3>0, <4>6 DEF NoneAfter
        <3> QED BY <1>3, <3>1, <3>2
    <2>4. \A i, j \in 1 .. Len(current') : current'[i] = current'[j] => i = j
        BY <2>1 DEF NewestInv
    <2> QED BY <1>0, <2>1, <2>3, <2>4 DEF NewestInv
<1> QED BY <1>1, <1>2, <1>3, StepsByRecord

\* The property follows from the account of the links.
LEMMA NewestFollows ==
    ASSUME TypeOK, Fresh, NewestInv
    PROVE  NewestLinkWorks
<1> SUFFICES ASSUME rec # NoRecord, ~orphaned, rec.secret \notin InFlight,
                    NEW i \in 1 .. Len(current), current[i] \in published,
                    \A j \in i + 1 .. Len(current) : current[j] \notin sent
             PROVE  rec.secret = current[i]
    BY DEF NewestLinkWorks
<1>0. Len(current) \in Nat
    BY DEF TypeOK
<1>1. rec.secret \in sent
    BY DEF NewestInv, Flying, InFlight, Written
<1>2. PICK k \in 1 .. Len(current) : current[k] = rec.secret
    BY DEF Fresh, Named, InCurrent
<1>3. NoneAfter(k, Len(current))
    BY <1>2 DEF NewestInv
<1>4. ~(i > k)
    BY <1>0, <1>3 DEF NoneAfter
<1>5. ~(k > i)
    BY <1>0, <1>1, <1>2
<1>6. i = k
    BY <1>0, <1>4, <1>5
<1> QED BY <1>2, <1>6

-----------------------------------------------------------------------------
(* The theorems.                                                           *)

RecordInv == TypeOK /\ Placed /\ Locked /\ Fresh

\* Types, places, the lock and freshness hold in every state.
LEMMA RecordInvariant == Spec => []RecordInv
<1>1. Init => RecordInv
    BY TypeInit, LockedInit, FreshInit DEF RecordInv
<1>2. RecordInv /\ [Next]_vars => RecordInv'
    BY StepKinds, TypeStep, LockedStep, FreshStep DEF RecordInv
<1> QED BY <1>1, <1>2, PTL DEF Spec

\* A link is exchanged for one session at most (VerifyToken), for every number
\* of requests, renewals, lost events and crashes.
THEOREM LinkRedeemedOnceAlways == Spec => []LinkRedeemedOnce
<1>1. Init => LinkInv
    BY LinkInit
<1>2. RecordInv /\ LinkInv /\ [Next]_vars => LinkInv'
    BY StepKinds, LinkStep DEF RecordInv
<1>3. LinkInv => LinkRedeemedOnce
    BY DEF LinkInv
<1> QED BY <1>1, <1>2, <1>3, RecordInvariant, PTL DEF Spec

\* The guesses of a PIN are limited in number and in time, and it is good for
\* one session (VerifyPin), whatever the parameters of the backoff limiter.
THEOREM GuessesLimitedAlways == Spec => []GuessesLimited
<1>1. Init => PinInv
    BY PinInit
<1>2. RecordInv /\ PinInv /\ [Next]_vars => PinInv'
    BY StepKinds, PinStep DEF RecordInv
<1>3. PinInv => GuessesLimited
    BY DEF PinInv
<1> QED BY <1>1, <1>2, <1>3, RecordInvariant, PTL DEF Spec

\* Two published renewals of a kind are a cooldown apart (Renew), also when the
\* quota of a renewal between them was given back.
THEOREM RenewalsSpacedAlways == Spec => []RenewalsSpaced
<1>1. Init => SpacedInv
    BY SpacedInit
<1>2. RecordInv /\ SpacedInv /\ [Next]_vars => SpacedInv'
    BY StepKinds, SpacedStep DEF RecordInv
<1>3. SpacedInv => RenewalsSpaced
    BY DEF SpacedInv
<1> QED BY <1>1, <1>2, <1>3, RecordInvariant, PTL DEF Spec

\* Outside of a renewal the record holds the newest published link (Renew and
\* its roll-back), as long as no link that nobody got was left in the record.
THEOREM NewestLinkWorksAlways == Spec => []NewestLinkWorks
<1>1. Init => NewestInv
    BY NewestInit
<1>2. RecordInv /\ NewestInv /\ [Next]_vars => NewestInv'
    BY StepKinds, NewestStep DEF RecordInv
<1>3. RecordInv /\ NewestInv => NewestLinkWorks
    BY NewestFollows DEF RecordInv
<1> QED BY <1>1, <1>2, <1>3, RecordInvariant, PTL DEF Spec
================================================================================
