---------------------------- MODULE WopiLocksProofs ----------------------------
(***************************************************************************)
(* Proofs about WopiLocks, for every set of sessions, files and lock ids   *)
(* and for every number of requests, failures and repeated deletions.      *)
(***************************************************************************)
EXTENDS WopiLocks, TLAPS

MaybeId == Ids \cup {None}
MaybeFile == Files \cup {None}
EtagState == (Files \X Nat) \cup {NoEtag}

RequestState ==
    [op : Operations \cup {"none"}, file : MaybeFile, id : MaybeId, old : MaybeId, bytes : BOOLEAN,
     pc : {"done", "call", "own", "stat", "getlock", "initiate", "upload", "write", "after",
           "adjust", "move", "delete"},
     status : {"-", "OK", "NOT_FOUND", "FAILED_PRECONDITION", "ABORTED", "LOCKED"},
     etag : EtagState, seen : MaybeId, reply : Nat, shown : MaybeId, retries : Nat, ended : Nat]

SaveState == [op : PutOps, id : MaybeId, etag : EtagState, bytes : BOOLEAN]

\* The shapes of the variables.
WopiTypeOK ==
    /\ lock \in [Files -> MaybeId] /\ expired \in [Files -> BOOLEAN]
    /\ ended \in [Files -> [Ids -> Nat]]
    /\ born \subseteq Files /\ exists \subseteq born /\ named \in MaybeFile
    /\ saved \in [Files -> Seq(SaveState)]
    /\ req \in [Sessions -> RequestState]
    /\ requests \in Nat /\ failures \in Nat

-----------------------------------------------------------------------------
(* The storage provider's locks.                                           *)

\* No lock id is given up silently: a lock that is in force stays in force, or
\* its end is counted.
LockKept ==
    /\ lock' \in [Files -> MaybeId] /\ expired' \in [Files -> BOOLEAN]
    /\ ended' \in [Files -> [Ids -> Nat]]
    /\ \A f \in Files, i \in Ids :
          /\ ended'[f][i] >= ended[f][i]
          /\ Current(f) = i => Current(f)' = i \/ ended'[f][i] > ended[f][i]

\* Counting an end keeps the counts and increases the one of the lock.
LEMMA BumpCounts ==
    ASSUME WopiTypeOK, NEW f \in Files
    PROVE  /\ Bump(f) \in [Files -> [Ids -> Nat]]
           /\ \A g \in Files, i \in Ids :
                 Bump(f)[g][i] = IF g = f /\ i = lock[f] THEN ended[g][i] + 1 ELSE ended[g][i]
<1> DEFINE counts == [i \in Ids |-> IF i = lock[f] THEN ended[f][i] + 1 ELSE ended[f][i]]
<1>1. ended \in [Files -> [Ids -> Nat]]
  BY DEF WopiTypeOK
<1>2. counts \in [Ids -> Nat]
  BY <1>1
<1>3. Bump(f) = [ended EXCEPT ![f] = counts]
  BY <1>1 DEF Bump
<1> QED
  BY <1>1, <1>2, <1>3

\* Reading the lock changes nothing that counts.
LEMMA ReadLockKeeps ==
    ASSUME WopiTypeOK, NEW f \in Files, ReadLock(f)
    PROVE  LockKept /\ \A g \in Files : Current(g)' = Current(g)
<1>1. Current(f) \in MaybeId
  BY DEF WopiTypeOK, Current, MaybeId
<1>2. lock' \in [Files -> MaybeId] /\ expired' \in [Files -> BOOLEAN] /\ ended' = ended
  BY <1>1 DEF ReadLock, WopiTypeOK
<1>3. lock'[f] = Current(f) /\ expired'[f] = FALSE
      /\ \A g \in Files \ {f} : lock'[g] = lock[g] /\ expired'[g] = expired[g]
  BY DEF ReadLock, WopiTypeOK
<1>4. \A g \in Files : Current(g)' = Current(g)
  BY <1>3 DEF Current
<1> HIDE DEF Current
<1> QED
  BY <1>2, <1>4 DEF WopiTypeOK, LockKept

\* A lock that is left alone is kept.
LEMMA SameLockKeeps ==
    ASSUME WopiTypeOK, UNCHANGED lockVars
    PROVE  LockKept /\ \A g \in Files : Current(g)' = Current(g)
BY DEF WopiTypeOK, LockKept, lockVars, Current

\* Looking a file up changes nothing that counts.
LEMMA LookUpKeeps ==
    ASSUME WopiTypeOK, NEW f, LookUp(f)
    PROVE  LockKept /\ \A g \in Files : Current(g)' = Current(g)
<1>1. f \in exists => f \in Files
  BY DEF WopiTypeOK
<1> QED
  BY <1>1, ReadLockKeeps, SameLockKeeps DEF LookUp

\* A lock whose id is exchanged is counted.
LEMMA NewLockKeeps ==
    ASSUME WopiTypeOK, NEW f \in Files, NEW i \in MaybeId, NEW late \in BOOLEAN,
           lock' = [lock EXCEPT ![f] = i], expired' = [expired EXCEPT ![f] = late],
           ended' = Bump(f)
    PROVE  LockKept
<1>1. lock' \in [Files -> MaybeId] /\ expired' \in [Files -> BOOLEAN]
      /\ \A g \in Files \ {f} : lock'[g] = lock[g] /\ expired'[g] = expired[g]
  BY DEF WopiTypeOK
<1>2. Current(f) \in {None, lock[f]} /\ \A g \in Files \ {f} : Current(g)' = Current(g)
  BY <1>1 DEF Current
<1>3. ended' \in [Files -> [Ids -> Nat]] /\ ended \in [Files -> [Ids -> Nat]]
      /\ \A g \in Files, j \in Ids :
            ended'[g][j] = IF g = f /\ j = lock[f] THEN ended[g][j] + 1 ELSE ended[g][j]
  BY BumpCounts DEF WopiTypeOK
<1> HIDE DEF Current
<1>4. \A g \in Files, j \in Ids : ended[g][j] \in Nat
  BY <1>3
<1>5. \A g \in Files, j \in Ids : ended'[g][j] >= ended[g][j]
  BY <1>3, <1>4
<1>6. ASSUME NEW g \in Files, NEW j \in Ids, Current(g) = j
      PROVE  Current(g)' = j \/ ended'[g][j] > ended[g][j]
  <2>1. CASE g = f
    BY <1>2, <1>3, <1>4, <1>6, <2>1, WopiAssumption
  <2>2. CASE g # f
    BY <1>2, <1>6, <2>2
  <2> QED
    BY <2>1, <2>2
<1> QED
  BY <1>1, <1>3, <1>5, <1>6 DEF LockKept

\* Granting a lock puts its id in force.
LEMMA GrantLockKeeps ==
    ASSUME WopiTypeOK, NEW f \in Files, NEW i \in Ids, GrantLock(f, i)
    PROVE  LockKept /\ Current(f)' = i
<1>1. lock' = [lock EXCEPT ![f] = i] /\ expired' = [expired EXCEPT ![f] = FALSE]
  BY DEF GrantLock
<1>2. Current(f)' = i
  BY <1>1 DEF WopiTypeOK, Current
<1>3. CASE lock[f] # i
  <2>1. i \in MaybeId /\ FALSE \in BOOLEAN /\ ended' = Bump(f)
    BY <1>3 DEF GrantLock, MaybeId
  <2>2. LockKept
    BY <1>1, <2>1, NewLockKeeps
  <2> QED
    BY <1>2, <2>2
<1>4. CASE lock[f] = i
  <2>1. lock' = lock /\ ended' = ended /\ expired' \in [Files -> BOOLEAN]
    BY <1>1, <1>4 DEF GrantLock, WopiTypeOK
  <2>2. \A g \in Files \ {f} : Current(g)' = Current(g)
    BY <1>1, <2>1 DEF WopiTypeOK, Current
  <2>3. Current(f) \in {None, i}
    BY <1>4 DEF Current
  <2> HIDE DEF Current
  <2>4. \A g \in Files, j \in Ids : Current(g) = j => Current(g)' = j
    BY <1>2, <2>2, <2>3, WopiAssumption
  <2> QED
    BY <1>2, <2>1, <2>4 DEF LockKept, WopiTypeOK
<1> QED
  BY <1>3, <1>4

\* Removing the lock ends it.
LEMMA RemoveLockKeeps ==
    ASSUME WopiTypeOK, NEW f \in Files, RemoveLock(f)
    PROVE  LockKept
<1>1. None \in MaybeId /\ FALSE \in BOOLEAN
  BY DEF MaybeId
<1> QED
  BY <1>1, NewLockKeeps DEF RemoveLock

-----------------------------------------------------------------------------
(* What holds of the requests.                                             *)

\* The request was, or is about to be, told that it has the lock.
Entitled(r) ==
    /\ r.op \in {"Lock", "Relock", "RefreshLock"}
    /\ \/ r.pc = "stat" /\ r.status = "OK"
       \/ r.pc = "done" /\ r.reply = 200

\* A request for a lock names a file and an id, has seen no more ends of it
\* than there were, and is told the truth.
Honest(c) ==
    LET r == req[c] IN
    /\ r.op \in LockOps => r.file \in Files /\ r.id \in Ids /\ r.ended <= ended[r.file][r.id]
    /\ c \notin ReadOnly /\ Entitled(r) /\ ended[r.file][r.id] = r.ended => Current(r.file) = r.id

\* A request that has seen an etag saves without an id only if that version was
\* empty; if it goes by an id and has seen none, its file is gone for good; and
\* only a request without an etag creates a file.
Knows(r) ==
    /\ r.op = "PutFile" => r.file \in born
    /\ r.pc \in {"initiate", "upload", "write"} =>
          /\ r.op \in PutOps
          /\ r.etag # NoEtag => /\ r.etag[2] <= Len(saved[r.etag[1]])
                                /\ r.id = None => EmptyAt(r.etag[1], r.etag[2])
          /\ r.op = "PutFile" /\ r.etag = NoEtag => r.file \notin exists
          /\ r.pc # "initiate" /\ r.file = None => r.etag = NoEtag

LockInv ==
    /\ WopiTypeOK
    /\ \A c \in Sessions : Honest(c) /\ Knows(req[c])
    /\ SavesAreSerial /\ UnlockedFillsEmpty

\* The files only get more versions, and none comes back.
Grown ==
    /\ saved' \in [Files -> Seq(SaveState)]
    /\ \A f \in Files : /\ Len(saved[f]) <= Len(saved'[f])
                        /\ \A n \in 1 .. Len(saved[f]) : saved'[f][n] = saved[f][n]
    /\ born \subseteq born' /\ born' \subseteq Files /\ exists' \subseteq born'
    /\ born \cap exists' \subseteq exists

\* What a step does besides moving a request on.
Sound ==
    /\ LockKept /\ Grown /\ SavesAreSerial' /\ UnlockedFillsEmpty'
    /\ named' \in MaybeFile /\ requests' \in Nat /\ failures' \in Nat

\* A step without a save is sound.
LEMMA QuietSound ==
    ASSUME LockInv, LockKept, UNCHANGED <<born, saved>>, exists' \subseteq exists,
           named' \in MaybeFile, requests' \in Nat, failures' \in Nat
    PROVE  Sound
<1>1. WopiTypeOK /\ SavesAreSerial /\ UnlockedFillsEmpty
  BY DEF LockInv
<1>2. Grown
  <2>1. \A f \in Files : Len(saved[f]) \in Nat
    BY <1>1 DEF WopiTypeOK
  <2> QED
    BY <1>1, <2>1 DEF WopiTypeOK, Grown
<1>3. SavesAreSerial' /\ UnlockedFillsEmpty'
  BY <1>1 DEF SavesAreSerial, UnlockedFillsEmpty, EmptyAt
<1> QED
  BY <1>2, <1>3 DEF Sound

\* What a request knows stays true.
LEMMA KnowsKept ==
    ASSUME LockInv, Grown, NEW r \in RequestState, Knows(r)
    PROVE  Knows(r)'
<1>1. r.etag \in EtagState /\ WopiTypeOK
  BY DEF RequestState, LockInv
<1>2. ASSUME NEW f \in Files, NEW n \in Nat, n <= Len(saved[f])
      PROVE  n <= Len(saved'[f]) /\ (EmptyAt(f, n) => EmptyAt(f, n)')
  <2>1. Len(saved[f]) \in Nat /\ Len(saved'[f]) \in Nat /\ Len(saved[f]) <= Len(saved'[f])
    BY <1>1 DEF Grown, WopiTypeOK
  <2>2. n # 0 => n \in 1 .. Len(saved[f])
    BY <1>2, <2>1
  <2>3. n # 0 => saved'[f][n] = saved[f][n]
    BY <2>2 DEF Grown
  <2> QED
    BY <1>2, <2>1, <2>3 DEF EmptyAt
<1>3. r.etag # NoEtag => r.etag[1] \in Files /\ r.etag[2] \in Nat
  BY <1>1 DEF EtagState
<1>4. born \subseteq born' /\ born \cap exists' \subseteq exists
  BY DEF Grown
<1>5. ASSUME r.pc \in {"initiate", "upload", "write"}, r.etag # NoEtag
      PROVE  r.etag[2] <= Len(saved'[r.etag[1]])
             /\ (r.id = None => EmptyAt(r.etag[1], r.etag[2])')
  <2>1. r.etag[2] <= Len(saved[r.etag[1]]) /\ (r.id = None => EmptyAt(r.etag[1], r.etag[2]))
    BY <1>5 DEF Knows
  <2> HIDE DEF EmptyAt
  <2> QED
    BY <1>2, <1>3, <1>5, <2>1
<1> HIDE DEF EmptyAt, NoEtag
<1> QED
  BY <1>4, <1>5 DEF Knows, NoEtag

\* A request that goes on keeps the others honest.
LEMMA OthersHonest ==
    ASSUME LockInv, LockKept, NEW d \in Sessions, req'[d] = req[d]
    PROVE  Honest(d)'
<1>0. PICK r \in RequestState : r = req[d]
  BY DEF LockInv, WopiTypeOK
<1>1. r \in RequestState /\ Honest(d) /\ WopiTypeOK /\ r = req[d] /\ req'[d] = r
  BY <1>0 DEF LockInv
<1>2. r.op \in LockOps => r.file \in Files /\ r.id \in Ids /\ r.ended <= ended[r.file][r.id]
  BY <1>1 DEF Honest
<1>3. r.op \in LockOps => /\ ended[r.file][r.id] \in Nat /\ ended'[r.file][r.id] \in Nat
                          /\ ended[r.file][r.id] <= ended'[r.file][r.id] /\ r.ended \in Nat
  BY <1>1, <1>2 DEF WopiTypeOK, LockKept, RequestState
<1>4. r.op \in LockOps => r.ended <= ended'[r.file][r.id]
  BY <1>2, <1>3
<1>5. ASSUME d \notin ReadOnly, Entitled(r), ended'[r.file][r.id] = r.ended
      PROVE  Current(r.file)' = r.id
  <2>1. r.op \in LockOps
    BY <1>5 DEF Entitled, LockOps
  <2>2. ended[r.file][r.id] = r.ended
    BY <1>2, <1>3, <1>5, <2>1
  <2>3. Current(r.file) = r.id
    BY <1>1, <1>5, <2>2 DEF Honest
  <2>4. ~(ended'[r.file][r.id] > ended[r.file][r.id])
    BY <1>3, <1>5, <2>1, <2>2
  <2> HIDE DEF Current
  <2> QED
    BY <1>2, <2>1, <2>3, <2>4 DEF LockKept
<1> HIDE DEF Current
<1> QED
  BY <1>1, <1>2, <1>4, <1>5 DEF Honest

\* A request that moves on to r, and is entitled to the lock only if it already
\* was or has it now, keeps the invariant.
LEMMA MoveKeeps ==
    ASSUME LockInv, Sound, NEW c \in Sessions, NEW r \in RequestState,
           req' = [req EXCEPT ![c] = r], Knows(r),
           r.op = req[c].op, r.id = req[c].id, r.ended = req[c].ended,
           r.op \in LockOps => r.file = req[c].file,
           c \notin ReadOnly /\ Entitled(r) => Entitled(req[c]) \/ Current(r.file)' = r.id
    PROVE  LockInv'
<1>1. req' \in [Sessions -> RequestState] /\ req'[c] = r
      /\ \A d \in Sessions \ {c} : req'[d] = req[d]
  BY DEF LockInv, WopiTypeOK
<1>2. req[c] \in RequestState /\ Honest(c) /\ WopiTypeOK /\ LockKept /\ Grown
  BY DEF LockInv, WopiTypeOK, Sound
<1>3. r.op \in LockOps => r.file \in Files /\ r.id \in Ids /\ r.ended <= ended[r.file][r.id]
  BY <1>2 DEF Honest
<1>4. r.op \in LockOps => /\ ended[r.file][r.id] \in Nat /\ ended'[r.file][r.id] \in Nat
                          /\ ended[r.file][r.id] <= ended'[r.file][r.id] /\ r.ended \in Nat
  BY <1>2, <1>3 DEF WopiTypeOK, LockKept, RequestState
<1>5. ASSUME c \notin ReadOnly, Entitled(r), ended'[r.file][r.id] = r.ended
      PROVE  Current(r.file)' = r.id
  <2>1. r.op \in LockOps
    BY <1>5 DEF Entitled, LockOps
  <2>2. ended[r.file][r.id] = r.ended
    BY <1>3, <1>4, <1>5, <2>1
  <2>3. Entitled(req[c]) => Current(r.file) = r.id
    BY <1>2, <1>5, <2>1, <2>2 DEF Honest
  <2>4. ~(ended'[r.file][r.id] > ended[r.file][r.id])
    BY <1>4, <1>5, <2>1, <2>2
  <2> HIDE DEF Current
  <2> QED
    BY <1>2, <1>3, <1>5, <2>1, <2>3, <2>4 DEF LockKept
<1>6. Honest(c)'
  <2>1. r.op \in LockOps => r.ended <= ended'[r.file][r.id]
    BY <1>3, <1>4
  <2> HIDE DEF Current
  <2> QED
    BY <1>1, <1>3, <1>5, <2>1 DEF Honest
<1>7. \A d \in Sessions : Honest(d)'
  BY <1>1, <1>2, <1>6, OthersHonest
<1>8. \A d \in Sessions : Knows(req'[d]) 
  <2> HIDE DEF Knows
  <2> QED
    BY <1>1 DEF LockInv
<1>9. \A d \in Sessions : Knows(req[d])'
  <2>1. ASSUME NEW d \in Sessions PROVE Knows(req[d])'
    <3>1. PICK q \in RequestState : q = req'[d]
      BY <1>1
    <3>2. Knows(q)
      BY <1>8, <3>1
    <3>3. Knows(q)'
      BY <1>2, <3>2, KnowsKept
    <3> QED
      BY <3>1, <3>3 DEF Knows
  <2> QED
    BY <2>1
<1>10. WopiTypeOK'
  BY <1>1, <1>2 DEF WopiTypeOK, LockKept, Grown, Sound
<1> QED
  BY <1>7, <1>9, <1>10 DEF LockInv, Sound

\* A request that is not saving knows little.
LEMMA KnowsIdle ==
    ASSUME NEW q, NEW r, Knows(q), r.op = q.op, r.op = "PutFile" => r.file = q.file,
           r.pc \notin {"initiate", "upload", "write"}
    PROVE  Knows(r)
BY DEF Knows

\* An answer other than 200 always keeps the invariant, and 200 does if the
\* request was entitled to the lock or has it now.
LEMMA ReplyKeeps ==
    ASSUME LockInv, Sound, NEW c \in Sessions, NEW status \in Nat, NEW shown \in MaybeId,
           Reply(c, status, shown), NEW f, f = req[c].file,
           status # 200 \/ req[c].op \notin {"Lock", "Relock", "RefreshLock"}
              \/ Entitled(req[c]) \/ Current(f)' = req[c].id
    PROVE  LockInv'
<1>1. PICK q \in RequestState : q = req[c] /\ Knows(q)
  BY DEF LockInv, WopiTypeOK
<1> DEFINE r == [q EXCEPT !.pc = "done", !.reply = status, !.shown = shown,
                          !.status = "-", !.etag = NoEtag, !.seen = None, !.retries = 0]
<1>2. r \in RequestState /\ r.op = q.op /\ r.id = q.id /\ r.ended = q.ended
      /\ r.pc = "done" /\ r.reply = status /\ r.file = q.file
  <2>1. NoEtag \in EtagState /\ None \in MaybeId
    BY DEF EtagState, MaybeId
  <2> HIDE DEF NoEtag, EtagState
  <2> QED
    BY <1>1, <2>1 DEF RequestState
<1>3. req' = [req EXCEPT ![c] = r]
  BY <1>1 DEF Reply, LockInv, WopiTypeOK
<1> HIDE DEF r
<1>4. PICK p \in RequestState : p = r
  BY <1>2
<1>5. Entitled(p) => status = 200 /\ q.op \in {"Lock", "Relock", "RefreshLock"}
  BY <1>2, <1>4 DEF Entitled
<1>6. Knows(p)
  <2> HIDE DEF Knows
  <2> QED
    BY <1>1, <1>2, <1>4, KnowsIdle
<1>7. p.file = f
  BY <1>1, <1>2, <1>4
<1>8. c \notin ReadOnly /\ Entitled(p) => Entitled(req[c]) \/ Current(p.file)' = p.id
  BY <1>1, <1>2, <1>4, <1>5, <1>7
<1> HIDE DEF Current, Knows, Entitled
<1> QED
  BY <1>1, <1>2, <1>3, <1>4, <1>6, <1>8, MoveKeeps

\* A request that only goes on keeps the invariant, if it is not about to be
\* told that it has a lock.
LEMMA GoKeeps ==
    ASSUME LockInv, Sound, NEW c \in Sessions,
           NEW pc \in {"getlock", "stat", "write", "after", "done"}, Go(c, pc),
           pc = "getlock" \/ req[c].op \in PutOps, pc = "write" => req[c].pc = "upload"
    PROVE  LockInv'
<1>1. PICK q \in RequestState : q = req[c] /\ Knows(q)
  BY DEF LockInv, WopiTypeOK
<1> DEFINE r == [q EXCEPT !.pc = pc]
<1>2. r \in RequestState /\ r.op = q.op /\ r.id = q.id /\ r.ended = q.ended
      /\ r.pc = pc /\ r.file = q.file /\ r.etag = q.etag
  BY <1>1 DEF RequestState
<1>3. req' = [req EXCEPT ![c] = r]
  BY <1>1 DEF Go, LockInv, WopiTypeOK
<1> HIDE DEF r
<1>4. PICK p \in RequestState : p = r
  BY <1>2
<1>5. ~Entitled(p)
  BY <1>1, <1>2, <1>4 DEF Entitled, PutOps, RelativeOps
<1>6. Knows(p)
  <2>1. CASE pc # "write"
    <3> HIDE DEF Knows
    <3> QED
      BY <1>1, <1>2, <1>4, <2>1, KnowsIdle
  <2>2. CASE pc = "write"
    <3> HIDE DEF NoEtag, EmptyAt, PutOps
    <3> QED
      BY <1>1, <1>2, <1>4, <2>2 DEF Knows
  <2> QED
    BY <2>1, <2>2
<1> HIDE DEF Current, Knows, Entitled
<1> QED
  BY <1>1, <1>2, <1>3, <1>4, <1>5, <1>6, MoveKeeps

\* The answer to a save keeps the invariant.
LEMMA PutReplyKeeps ==
    ASSUME LockInv, Sound, NEW c \in Sessions, NEW status \in Nat, NEW shown \in MaybeId,
           PutReply(c, status, shown), req[c].op \in PutOps
    PROVE  LockInv'
<1>1. PICK q \in RequestState : q = req[c] /\ Knows(q)
  BY DEF LockInv, WopiTypeOK
<1> DEFINE r == [q EXCEPT !.pc = IF q.op \in RelativeOps THEN "adjust" ELSE "done",
                          !.reply = status, !.shown = shown]
<1>2. r \in RequestState /\ r.op = q.op /\ r.id = q.id /\ r.ended = q.ended
      /\ r.pc \in {"adjust", "done"} /\ r.file = q.file
  BY <1>1 DEF RequestState
<1>3. req' = [req EXCEPT ![c] = r]
  BY <1>1 DEF PutReply, LockInv, WopiTypeOK
<1> HIDE DEF r
<1>4. PICK p \in RequestState : p = r
  BY <1>2
<1>5. ~Entitled(p)
  BY <1>1, <1>2, <1>4 DEF Entitled, PutOps, RelativeOps
<1>6. Knows(p)
  <2> HIDE DEF Knows
  <2> QED
    BY <1>1, <1>2, <1>4, KnowsIdle
<1> HIDE DEF Current, Knows, Entitled
<1> QED
  BY <1>1, <1>2, <1>3, <1>4, <1>5, <1>6, MoveKeeps

\* Leaving the requests alone keeps the invariant.
LEMMA SameKeeps ==
    ASSUME LockInv, Sound, req' = req
    PROVE  LockInv'
<1>1. LockKept /\ Grown /\ req' \in [Sessions -> RequestState]
  BY DEF Sound, LockInv, WopiTypeOK
<1>2. \A d \in Sessions : Honest(d)'
  BY <1>1, OthersHonest
<1>3. \A d \in Sessions : Knows(req[d])'
  <2>1. ASSUME NEW d \in Sessions PROVE Knows(req[d])'
    <3>1. PICK q \in RequestState : q = req[d] /\ q = req'[d] /\ Knows(q)
      BY DEF LockInv, WopiTypeOK
    <3>2. Knows(q)'
      BY <1>1, <3>1, KnowsKept
    <3> QED
      BY <3>1, <3>2 DEF Knows
  <2> QED
    BY <2>1
<1>4. WopiTypeOK'
  BY <1>1 DEF WopiTypeOK, LockKept, Grown, Sound
<1> QED
  BY <1>2, <1>3, <1>4 DEF LockInv, Sound

-----------------------------------------------------------------------------
(* A save.                                                                 *)

\* A save of a file that the request refers to, or of a new one, adds a version.
LEMMA SaveKeeps ==
    ASSUME LockInv, LockKept, NEW c \in Sessions, NEW f \in Files, Save(c, f),
           req[c].pc = "write", req[c].op \in PutOps,
           req[c].etag \in {NoEtag, Etag(f)}, req[c].etag = NoEtag => req[c].op \in RelativeOps,
           born \subseteq born', born' \subseteq Files, exists' \subseteq born',
           born \cap exists' \subseteq exists,
           named' \in MaybeFile, requests' \in Nat, failures' \in Nat
    PROVE  LockInv'
<1>1. PICK q \in RequestState : q = req[c] /\ Knows(q)
  BY DEF LockInv, WopiTypeOK
<1> DEFINE s == [op |-> q.op, id |-> q.id, etag |-> q.etag, bytes |-> q.bytes]
           n == Len(saved[f])
<1>2. s \in SaveState /\ s.op = q.op /\ s.id = q.id /\ s.etag = q.etag
  BY <1>1 DEF SaveState, RequestState
<1>3. saved \in [Files -> Seq(SaveState)] /\ saved[f] \in Seq(SaveState) /\ n \in Nat
  BY DEF LockInv, WopiTypeOK
<1>4. saved' = [saved EXCEPT ![f] = Append(saved[f], s)]
  BY <1>1, <1>3 DEF Save
<1> HIDE DEF s
<1>5. saved' \in [Files -> Seq(SaveState)] /\ saved'[f] = Append(saved[f], s)
      /\ \A g \in Files \ {f} : saved'[g] = saved[g]
  BY <1>2, <1>3, <1>4
<1>6. Len(saved'[f]) = n + 1 /\ saved'[f][n + 1] = s
      /\ \A k \in 1 .. n : saved'[f][k] = saved[f][k]
  BY <1>2, <1>3, <1>5
<1>7. Grown
  <2>1. \A g \in Files : Len(saved[g]) \in Nat
    BY <1>3
  <2>2. ASSUME NEW g \in Files
        PROVE  /\ Len(saved[g]) <= Len(saved'[g])
               /\ \A k \in 1 .. Len(saved[g]) : saved'[g][k] = saved[g][k]
    <3>1. CASE g = f
      BY <1>3, <1>6, <3>1
    <3>2. CASE g # f
      BY <1>5, <2>1, <3>2
    <3> QED
      BY <3>1, <3>2
  <2> QED
    BY <1>5, <2>2 DEF Grown
<1>8. SavesAreSerial'
  <2> SUFFICES ASSUME NEW g \in Files, NEW k \in 1 .. Len(saved'[g])
               PROVE  saved'[g][k].etag = <<g, k - 1>>
                      \/ (saved'[g][k].etag = NoEtag /\ saved'[g][k].op \in RelativeOps)
    BY DEF SavesAreSerial, NoEtag
  <2>1. CASE g = f /\ k = n + 1
    <3>1. s.etag = <<f, n>> \/ (s.etag = NoEtag /\ s.op \in RelativeOps)
      BY <1>1, <1>2 DEF Etag
    <3> HIDE DEF n, NoEtag
    <3> QED
      BY <1>3, <1>6, <2>1, <3>1
  <2>2. CASE ~(g = f /\ k = n + 1)
    <3>1. k \in 1 .. Len(saved[g]) /\ saved'[g][k] = saved[g][k]
      BY <1>3, <1>5, <1>6, <2>2
    <3> QED
      BY <3>1 DEF LockInv, SavesAreSerial
  <2> QED
    BY <2>1, <2>2
<1>9. UnlockedFillsEmpty'
  <2> SUFFICES ASSUME NEW g \in Files, NEW k \in 1 .. Len(saved'[g]),
                      saved'[g][k].id = None, saved'[g][k].etag # NoEtag
               PROVE  EmptyAt(g, k - 1)'
    BY DEF UnlockedFillsEmpty, NoEtag, EmptyAt
  <2>0. k - 1 \in Nat /\ Len(saved[g]) \in Nat
    BY <1>3, <1>5
  <2>1. CASE g = f /\ k = n + 1
    <3>1. q.id = None /\ q.etag # NoEtag
      BY <1>2, <1>6, <2>1
    <3>2. q.etag = <<f, n>>
      BY <1>1, <3>1 DEF Etag
    <3>3. EmptyAt(f, n)
      BY <1>1, <3>1, <3>2 DEF Knows
    <3>4. n # 0 => saved'[f][n] = saved[f][n]
      BY <1>3, <1>6
    <3> QED
      BY <1>3, <2>1, <3>3, <3>4 DEF EmptyAt
  <2>2. CASE ~(g = f /\ k = n + 1)
    <3>1. k \in 1 .. Len(saved[g]) /\ saved'[g][k] = saved[g][k]
      BY <1>3, <1>5, <1>6, <2>2
    <3>2. EmptyAt(g, k - 1)
      BY <3>1 DEF LockInv, UnlockedFillsEmpty
    <3>3. k - 1 # 0 => k - 1 \in 1 .. Len(saved[g])
      BY <2>0, <3>1
    <3>4. k - 1 # 0 => saved'[g][k - 1] = saved[g][k - 1]
      BY <1>7, <3>3 DEF Grown
    <3> QED
      BY <3>2, <3>4 DEF EmptyAt
  <2> QED
    BY <2>1, <2>2
<1>10. Sound
  BY <1>7, <1>8, <1>9 DEF Sound
<1>11. CASE Go(c, "after")
  BY <1>10, <1>11, GoKeeps
<1>12. CASE PutReply(c, 200, None)
  <2>1. None \in MaybeId /\ 200 \in Nat
    BY DEF MaybeId
  <2> QED
    BY <1>10, <1>12, <2>1, PutReplyKeeps
<1> QED
  BY <1>11, <1>12 DEF Save

-----------------------------------------------------------------------------
(* Every step keeps the invariant.                                         *)

\* A call that looks a file up and changes no file is sound.
LEMMA LookUpSound ==
    ASSUME LockInv, NEW f, LookUp(f), UNCHANGED <<fileVars, requests, failures>>
    PROVE  Sound
<1>1. WopiTypeOK
  BY DEF LockInv
<1>2. LockKept
  BY <1>1, LookUpKeeps
<1> QED
  BY <1>1, <1>2, QuietSound DEF fileVars, WopiTypeOK

\* An answer to a request that is not for a lock keeps the invariant.
LEMMA OtherReply ==
    ASSUME LockInv, Sound, NEW c \in Sessions, NEW status \in Nat, NEW shown \in MaybeId,
           Reply(c, status, shown), req[c].op \notin {"Lock", "Relock", "RefreshLock"}
    PROVE  LockInv'
<1>1. PICK f : f = req[c].file
  OBVIOUS
<1> HIDE DEF Reply, Current, Entitled
<1> QED
  BY <1>1, ReplyKeeps

\* An answer that is not 200 keeps the invariant.
LEMMA ErrorReply ==
    ASSUME LockInv, Sound, NEW c \in Sessions, NEW status \in Nat, NEW shown \in MaybeId,
           Reply(c, status, shown), status # 200
    PROVE  LockInv'
<1>1. PICK f : f = req[c].file
  OBVIOUS
<1> HIDE DEF Reply, Current, Entitled
<1> QED
  BY <1>1, ReplyKeeps

\* The lock that is found is an id or none.
LEMMA LockFoundId ==
    ASSUME LockInv, NEW c \in Sessions
    PROVE  LockFound(c) \in MaybeId
BY DEF LockInv, WopiTypeOK, LockFound, Current, MaybeId

\* A new request keeps the invariant.
LEMMA RequestStep ==
    ASSUME LockInv, NEW c \in Sessions, NEW in \in Input, Request(c, in)
    PROVE  LockInv'
<1>0. WopiTypeOK /\ Sent(in) /\ in.file \in born /\ UNCHANGED <<fileVars, lockVars>>
  BY DEF LockInv, Request, Input
<1>1. Sound
  <2>1. LockKept
    BY <1>0, SameLockKeeps
  <2>2. requests' \in Nat /\ failures' \in Nat
    BY <1>0 DEF Request, WopiTypeOK
  <2> QED
    BY <1>0, <2>1, <2>2, QuietSound DEF WopiTypeOK, fileVars
<1>2. /\ in.op \in Operations /\ in.file \in born /\ in.file \in Files
      /\ in.id \in MaybeId /\ in.old \in MaybeId /\ in.bytes \in BOOLEAN
      /\ in.op \in LockOps => in.id \in Ids
  BY <1>0, WopiAssumption DEF Input, Sent, WopiTypeOK, MaybeId
<1> DEFINE told == c \in ReadOnly /\ in.op = "Lock"
<1>4. PICK count \in Nat : count = IF in.id = None THEN 0 ELSE ended[in.file][in.id]
  BY <1>0, <1>2 DEF WopiTypeOK, MaybeId
<1>3. PICK first \in {"done", "call", "own", "stat", "delete", "getlock"} :
         first = (IF told THEN "done" ELSE FirstStep(in.op)) /\ (c \notin ReadOnly => first # "done")
  BY <1>2 DEF FirstStep, LockOps, RelativeOps, PutOps, Operations
<1>6. PICK answer \in Nat : answer = IF told THEN 200 ELSE 0
  OBVIOUS
<1> DEFINE r == [NoRequest EXCEPT !.op = in.op, !.file = in.file, !.id = in.id, !.old = in.old,
                            !.bytes = in.bytes, !.pc = first, !.reply = answer, !.ended = count]
<1>5. req' = [req EXCEPT ![c] = r]
  BY <1>3, <1>4, <1>6 DEF Request
<1>8. r \in RequestState /\ r.op = in.op /\ r.id = in.id /\ r.file = in.file /\ r.pc = first
      /\ r.status = "-" /\ r.ended = count
  <2>1. NoEtag \in EtagState /\ None \in MaybeId /\ in.file \in MaybeFile
    BY <1>2 DEF EtagState, MaybeId, MaybeFile
  <2> HIDE DEF NoEtag, EtagState
  <2> QED
    BY <1>2, <2>1 DEF RequestState, NoRequest
<1> HIDE DEF r
<1>9. PICK q \in RequestState : q = r
  BY <1>8
<1>10. req' \in [Sessions -> RequestState] /\ req'[c] = q
      /\ \A d \in Sessions \ {c} : req'[d] = req[d]
  BY <1>0, <1>5, <1>9 DEF WopiTypeOK
<1>11. Honest(c)'
  <2>1. c \notin ReadOnly => ~Entitled(q)
    BY <1>3, <1>8, <1>9 DEF Entitled
  <2>2. in.id \in Ids => count = ended'[in.file][in.id] /\ count \in Nat
    BY <1>0, <1>4, WopiAssumption DEF lockVars
  <2>3. q.op \in LockOps => q.file \in Files /\ q.id \in Ids /\ q.ended <= ended'[q.file][q.id]
    BY <1>2, <1>8, <1>9, <2>2
  <2> QED
    BY <1>10, <2>1, <2>3 DEF Honest
<1>12. Knows(q)
  BY <1>2, <1>3, <1>8, <1>9 DEF Knows
<1>13. \A d \in Sessions : Honest(d)' /\ Knows(req[d])'
  <2>0. LockKept /\ Grown
    BY <1>1 DEF Sound
  <2>1. ASSUME NEW d \in Sessions
        PROVE  Honest(d)'
    BY <1>10, <1>11, <2>0, OthersHonest
  <2>2. ASSUME NEW d \in Sessions
        PROVE  Knows(req[d])'
    <3>1. PICK p \in RequestState : p = req'[d] /\ Knows(p)
      <4> HIDE DEF Knows
      <4> QED
        BY <1>10, <1>12 DEF LockInv
    <3>2. Knows(p)'
      BY <2>0, <3>1, KnowsKept
    <3> QED
      BY <3>1, <3>2 DEF Knows
  <2> QED
    BY <2>1, <2>2
<1>14. WopiTypeOK'
  BY <1>1, <1>10 DEF WopiTypeOK, LockKept, Grown, Sound
<1> QED
  BY <1>1, <1>13, <1>14 DEF LockInv, Sound

\* A call for a lock keeps the invariant: who is granted it has it.
LEMMA SetOrRefreshStep ==
    ASSUME LockInv, NEW c \in Sessions, SetOrRefresh(c)
    PROVE  LockInv'
<1>0. WopiTypeOK
  BY DEF LockInv
<1>1. PICK q \in RequestState : q = req[c] /\ Knows(q)
  BY DEF LockInv, WopiTypeOK
<1>2. PICK f \in Files : f = q.file
  BY <1>1 DEF SetOrRefresh, At, LockInv, Honest, LockOps
<1>3. q.op \in {"Lock", "Relock", "RefreshLock"} /\ q.id \in Ids
  BY <1>1 DEF SetOrRefresh, At, LockInv, Honest, LockOps
<1> DEFINE old == IF q.op = "Relock" THEN q.old ELSE q.id
           status == IF q.op = "Lock" THEN SetLockStatus(f) ELSE RefreshLockStatus(f, old)
<1>4. PICK s \in {"OK", "NOT_FOUND", "FAILED_PRECONDITION", "ABORTED"} : s = status
  BY DEF SetLockStatus, RefreshLockStatus
<1> DEFINE r == [q EXCEPT !.pc = "stat", !.status = s]
<1>5. IF q.op = "Lock" /\ f \in exists THEN SetLock(f, q.id)
      ELSE IF status = "OK" THEN GrantLock(f, q.id) ELSE UNCHANGED lockVars
  BY <1>1, <1>2 DEF SetOrRefresh
<1>6. LockKept /\ (s = "OK" => Current(f)' = q.id)
  <2>1. CASE GrantLock(f, q.id)
    BY <1>0, <1>3, <2>1, GrantLockKeeps
  <2>2. CASE ReadLock(f) /\ q.op = "Lock" /\ f \in exists /\ Current(f) # None
    <3>1. s # "OK"
      BY <1>4, <2>2 DEF SetLockStatus
    <3> QED
      BY <1>0, <2>2, <3>1, ReadLockKeeps
  <2>3. CASE UNCHANGED lockVars /\ s # "OK"
    BY <1>0, <2>3, SameLockKeeps
  <2> QED
    BY <1>4, <1>5, <2>1, <2>2, <2>3 DEF SetLock
<1>7. Sound
  BY <1>0, <1>6, QuietSound DEF SetOrRefresh, fileVars, WopiTypeOK
<1>8. req' = [req EXCEPT ![c] = r]
  BY <1>0, <1>1, <1>2, <1>4 DEF SetOrRefresh, WopiTypeOK
<1> HIDE DEF status
<1>9. r \in RequestState /\ r.op = q.op /\ r.id = q.id /\ r.ended = q.ended /\ r.file = q.file
      /\ r.pc = "stat" /\ r.status = s
  BY DEF RequestState
<1> HIDE DEF r
<1>10. PICK p \in RequestState : p = r
  BY <1>9
<1>11. Knows(p)
  <2> HIDE DEF Knows
  <2> QED
    BY <1>1, <1>9, <1>10, KnowsIdle
<1>12. Entitled(p) => Current(p.file)' = p.id
  <2>1. p.file = f
    BY <1>2, <1>9, <1>10
  <2> QED
    BY <1>6, <1>9, <1>10, <2>1 DEF Entitled
<1> HIDE DEF Current, Knows, Entitled
<1> QED
  BY <1>1, <1>7, <1>8, <1>9, <1>10, <1>11, <1>12, MoveKeeps

\* An unlock keeps the invariant.
LEMMA UnlockStep ==
    ASSUME LockInv, NEW c \in Sessions, Unlock(c)
    PROVE  LockInv'
<1>0. WopiTypeOK
  BY DEF LockInv
<1>1. PICK q \in RequestState : q = req[c] /\ Knows(q)
  BY DEF LockInv, WopiTypeOK
<1>2. PICK f \in Files : f = q.file
  BY <1>1 DEF Unlock, At, LockInv, Honest, LockOps
<1> DEFINE status == UnlockStatus(f, q.id)
<1>3. q.op = "UnLock"
  BY <1>1 DEF Unlock, At
<1>11. PICK s \in {"OK", "NOT_FOUND", "ABORTED", "LOCKED"} : s = status
  BY DEF UnlockStatus
<1> DEFINE r == [q EXCEPT !.pc = "stat", !.status = s]
<1>4. LockKept
  BY <1>0, <1>1, <1>2, RemoveLockKeeps, SameLockKeeps DEF Unlock
<1>5. Sound
  BY <1>0, <1>4, QuietSound DEF Unlock, fileVars, WopiTypeOK
<1>6. req' = [req EXCEPT ![c] = r]
  BY <1>0, <1>1, <1>2, <1>11 DEF Unlock, WopiTypeOK
<1> HIDE DEF status
<1>7. r \in RequestState /\ r.op = q.op /\ r.id = q.id /\ r.ended = q.ended /\ r.file = q.file
      /\ r.pc = "stat"
  BY DEF RequestState
<1> HIDE DEF r
<1>8. PICK p \in RequestState : p = r
  BY <1>7
<1>9. Knows(p)
  <2> HIDE DEF Knows
  <2> QED
    BY <1>1, <1>7, <1>8, KnowsIdle
<1>10. ~Entitled(p)
  BY <1>3, <1>7, <1>8 DEF Entitled
<1> HIDE DEF Current, Knows, Entitled
<1> QED
  BY <1>1, <1>5, <1>6, <1>7, <1>8, <1>9, <1>10, MoveKeeps

\* The answer after Stat keeps the invariant.
LEMMA LockStatStep ==
    ASSUME LockInv, NEW c \in Sessions, LockStat(c)
    PROVE  LockInv'
<1>0. None \in MaybeId
  BY DEF MaybeId
<1>1. Sound
  <2>1. PICK f : f = req[c].file
    OBVIOUS
  <2> QED
    BY <2>1, LookUpSound DEF LockStat
<1>2. CASE Reply(c, 200, None) /\ req[c].status = "OK"
  <2>1. Entitled(req[c]) \/ req[c].op \notin {"Lock", "Relock", "RefreshLock"}
    BY <1>2 DEF LockStat, At, Entitled
  <2>2. PICK f : f = req[c].file
    OBVIOUS
  <2> HIDE DEF Reply, Entitled, Current
  <2> QED
    BY <1>0, <1>1, <1>2, <2>1, <2>2, ReplyKeeps
<1>3. CASE \E s \in {404, 409, 500} : Reply(c, s, None)
  BY <1>0, <1>1, <1>3, ErrorReply
<1>4. CASE Go(c, "getlock")
  BY <1>1, <1>4, GoKeeps
<1> QED
  BY <1>2, <1>3, <1>4 DEF LockStat

\* The fallback of a lock request keeps the invariant: who finds its id has it.
LEMMA LockFallbackStep ==
    ASSUME LockInv, NEW c \in Sessions, LockFallback(c)
    PROVE  LockInv'
<1>0. None \in MaybeId /\ LockFound(c) \in MaybeId /\ WopiTypeOK
  BY LockFoundId DEF MaybeId, LockInv
<1>1. PICK f \in Files : f = req[c].file
  BY DEF LockFallback, At, LockInv, Honest, LockOps
<1>2. LookUp(f)
  BY <1>1 DEF LockFallback
<1>3. Sound /\ Current(f)' = Current(f)
  BY <1>0, <1>2, LookUpKeeps, LookUpSound DEF LockFallback
<1>4. CASE Reply(c, 500, None)
  BY <1>0, <1>3, <1>4, ErrorReply
<1>5. CASE Reply(c, 409, LockFound(c))
  BY <1>0, <1>3, <1>5, ErrorReply
<1>6. CASE Reply(c, 200, None) /\ LockFound(c) = req[c].id
  <2>1. req[c].id \in Ids
    BY DEF LockFallback, At, LockInv, Honest, LockOps
  <2>2. Current(f) = req[c].id
    BY <1>1, <1>6, <2>1, WopiAssumption DEF LockFound
  <2> HIDE DEF Reply, Entitled, Current
  <2> QED
    BY <1>0, <1>1, <1>3, <1>6, <2>2, ReplyKeeps
<1> QED
  BY <1>4, <1>5, <1>6 DEF LockFallback

\* The fallbacks of the other requests and GetLock keep the invariant.
LEMMA GetLockStep ==
    ASSUME LockInv, NEW c \in Sessions, ConflictLock(c) \/ GetLock(c)
    PROVE  LockInv'
<1>0. None \in MaybeId /\ LockFound(c) \in MaybeId
  BY LockFoundId DEF MaybeId
<1>1. Sound
  <2>1. PICK f : f = req[c].file
    OBVIOUS
  <2> QED
    BY <2>1, LookUpSound DEF ConflictLock, GetLock
<1>2. CASE ConflictLock(c)
  <2>1. Reply(c, 500, None) \/ Reply(c, 409, LockFound(c))
    BY <1>2 DEF ConflictLock
  <2> QED
    BY <1>0, <1>1, <2>1, ErrorReply
<1>3. CASE GetLock(c)
  <2>1. (Reply(c, 404, None) \/ Reply(c, 200, LockFound(c))) /\ req[c].op = "GetLock"
    BY <1>3 DEF GetLock, At
  <2> QED
    BY <1>0, <1>1, <2>1, OtherReply
<1> QED
  BY <1>2, <1>3

\* A save that is not a lock request.
LEMMA PutIsNoLock ==
    ASSUME NEW op \in PutOps
    PROVE  op \notin {"Lock", "Relock", "RefreshLock"} /\ op \notin LockOps /\ op # "none"
BY DEF PutOps, RelativeOps, LockOps

\* The Stat of a save keeps the invariant: it knows what it has seen.
LEMMA PutStatStep ==
    ASSUME LockInv, NEW c \in Sessions, PutStat(c)
    PROVE  LockInv'
<1>0. WopiTypeOK /\ None \in MaybeId /\ req[c].op \in PutOps
  BY DEF LockInv, MaybeId, PutStat, At
<1>1. PICK q \in RequestState : q = req[c] /\ Knows(q)
  BY DEF LockInv, WopiTypeOK
<1>2. PICK f \in MaybeFile : f = Target(c)
  BY <1>0, <1>1 DEF Target, WopiTypeOK, RequestState
<1>3. Sound
  BY <1>2, LookUpSound DEF PutStat
<1>4. f \in exists => f \in Files /\ Current(f) \in MaybeId
  BY <1>0 DEF WopiTypeOK, Current, MaybeId
<1>5. CASE \E m \in MaybeId : PutConflict(c, m)
  <2>1. \/ Reply(c, 200, None)
        \/ \E m \in MaybeId : PutReply(c, 409, m)
    BY <1>5 DEF PutConflict
  <2> QED
    BY <1>0, <1>3, <2>1, OtherReply, PutReplyKeeps, PutIsNoLock
<1>6. CASE /\ req' = [req EXCEPT ![c].pc = "initiate",
                                 ![c].etag = IF f \in exists THEN Etag(f) ELSE NoEtag]
           /\ f \in exists => Current(f) \in {None, q.id}
           /\ ~(f \in exists /\ Current(f) = None /\ q.id = None /\ ~EmptyAt(f, Len(saved[f])))
  <2>1. PICK e \in EtagState : e = IF f \in exists THEN Etag(f) ELSE NoEtag
    <3>1. f \in exists => Len(saved[f]) \in Nat
      BY <1>0, <1>4 DEF WopiTypeOK
    <3>2. f \in exists => Etag(f) \in EtagState
      BY <1>4, <3>1 DEF EtagState, Etag
    <3>3. NoEtag \in EtagState
      BY DEF EtagState
    <3> HIDE DEF NoEtag, EtagState, Etag
    <3> QED
      BY <3>2, <3>3
  <2> DEFINE r == [q EXCEPT !.pc = "initiate", !.etag = e]
  <2>2. r \in RequestState /\ r.op = q.op /\ r.id = q.id /\ r.ended = q.ended
        /\ r.pc = "initiate" /\ r.file = q.file /\ r.etag = e
    BY DEF RequestState
  <2>3. req' = [req EXCEPT ![c] = r]
    BY <1>0, <1>1, <1>6, <2>1 DEF WopiTypeOK
  <2> HIDE DEF r
  <2>4. PICK p \in RequestState : p = r
    BY <2>2
  <2>5. Knows(p)
    <3>1. f \in exists => e = <<f, Len(saved[f])>> /\ Len(saved[f]) \in Nat
      BY <1>0, <1>4, <2>1 DEF Etag, WopiTypeOK
    <3>2. e # NoEtag => f \in exists
      BY <2>1
    <3>3. e # NoEtag => e[1] = f /\ e[2] = Len(saved[f]) /\ e[2] <= Len(saved[e[1]])
      BY <3>1, <3>2
    <3>4. e # NoEtag /\ q.id = None => EmptyAt(e[1], e[2])
      <4> HIDE DEF Current, EmptyAt, NoEtag
      <4> QED
        BY <1>6, <3>2, <3>3
    <3>5. q.op = "PutFile" => f = q.file
      BY <1>1, <1>2 DEF Target, RelativeOps
    <3>6. e = NoEtag => f \notin exists
      BY <1>4, <3>1, WopiAssumption DEF NoEtag
    <3> HIDE DEF EmptyAt, NoEtag
    <3> QED
      BY <1>0, <1>1, <2>2, <2>4, <3>3, <3>4, <3>5, <3>6 DEF Knows
  <2>6. ~Entitled(p)
    BY <2>2, <2>4 DEF Entitled
  <2> HIDE DEF Current, Knows, Entitled
  <2> QED
    BY <1>1, <1>3, <2>2, <2>3, <2>4, <2>5, <2>6, MoveKeeps
<1> HIDE DEF Current, EmptyAt, NoEtag, Etag
<1> QED
  BY <1>0, <1>1, <1>2, <1>4, <1>5, <1>6 DEF PutStat

\* The initiation of an upload keeps the invariant.
LEMMA PutInitiateStep ==
    ASSUME LockInv, NEW c \in Sessions, PutInitiate(c)
    PROVE  LockInv'
<1>0. WopiTypeOK /\ None \in MaybeId /\ req[c].op \in PutOps
  BY DEF LockInv, MaybeId, PutInitiate, At
<1>1. PICK q \in RequestState : q = req[c] /\ Knows(q)
  BY DEF LockInv, WopiTypeOK
<1>2. PICK f \in MaybeFile : f = Target(c)
  BY <1>0, <1>1 DEF Target, WopiTypeOK, RequestState
<1>3. Sound
  BY <1>2, LookUpSound DEF PutInitiate
<1>4. CASE Reply(c, 500, None)
  BY <1>0, <1>3, <1>4, ErrorReply
<1>5. CASE /\ req' = [req EXCEPT ![c].pc = "upload", ![c].file = f]
           /\ q.etag \in {NoEtag, IF f \in exists THEN Etag(f) ELSE NoEtag}
  <2> DEFINE r == [q EXCEPT !.pc = "upload", !.file = f]
  <2>1. r \in RequestState /\ r.op = q.op /\ r.id = q.id /\ r.ended = q.ended
        /\ r.pc = "upload" /\ r.file = f /\ r.etag = q.etag
    BY DEF RequestState
  <2>2. req' = [req EXCEPT ![c] = r]
    BY <1>0, <1>1, <1>5 DEF WopiTypeOK
  <2> HIDE DEF r
  <2>3. PICK p \in RequestState : p = r
    BY <2>1
  <2>4. Knows(p)
    <3>1. q.pc = "initiate"
      BY <1>1 DEF PutInitiate, At
    <3>2. q.op = "PutFile" => f = q.file
      BY <1>1, <1>2 DEF Target, RelativeOps
    <3>3. f = None => q.etag = NoEtag
      BY <1>0, <1>5, WopiAssumption DEF WopiTypeOK
    <3> HIDE DEF EmptyAt, NoEtag, PutOps
    <3> QED
      BY <1>1, <2>1, <2>3, <3>1, <3>2, <3>3 DEF Knows
  <2>5. ~Entitled(p)
    BY <2>1, <2>3 DEF Entitled
  <2>6. p.op \notin LockOps
    BY <1>0, <1>1, <2>1, <2>3, PutIsNoLock
  <2> HIDE DEF Current, Knows, Entitled
  <2> QED
    BY <1>1, <1>3, <2>1, <2>2, <2>3, <2>4, <2>5, <2>6, MoveKeeps
<1> HIDE DEF Etag, NoEtag, CheckLock
<1> QED
  BY <1>1, <1>2, <1>4, <1>5 DEF PutInitiate

\* The check of an upload keeps the invariant, and so do the other calls of a
\* save that only look.
LEMMA PutLookStep ==
    ASSUME LockInv, NEW c \in Sessions,
           PutOwnStat(c) \/ PutUpload(c) \/ PutStatAfter(c) \/ PutAdjust(c)
    PROVE  LockInv'
<1>0. None \in MaybeId /\ req[c].op \in PutOps
  BY DEF MaybeId, PutOwnStat, PutUpload, PutStatAfter, PutAdjust, At, PutOps
<1>1. Sound
  <2>1. PICK f : LookUp(f) /\ UNCHANGED <<fileVars, requests, failures>>
    BY DEF PutOwnStat, PutUpload, PutStatAfter, PutAdjust
  <2> QED
    BY <2>1, LookUpSound
<1>2. \/ Reply(c, 500, None)
      \/ PutReply(c, 200, None)
      \/ Go(c, "stat") \/ Go(c, "done") \/ (Go(c, "write") /\ req[c].pc = "upload")
  BY DEF PutOwnStat, PutUpload, PutStatAfter, PutAdjust, At
<1> QED
  BY <1>0, <1>1, <1>2, ErrorReply, PutReplyKeeps, GoKeeps

\* A write, into the file that was there or into a new one, keeps the invariant.
LEMMA PutWriteStep ==
    ASSUME LockInv, NEW c \in Sessions, PutWrite(c) \/ PutCreate(c)
    PROVE  LockInv'
<1>0. /\ WopiTypeOK /\ None \in MaybeId /\ req[c].op \in PutOps /\ req[c].pc = "write"
      /\ UNCHANGED <<lockVars, requests, failures>>
  BY DEF LockInv, MaybeId, PutWrite, PutCreate, At
<1>1. PICK q \in RequestState : q = req[c] /\ Knows(q)
  BY DEF LockInv, WopiTypeOK
<1>2. LockKept
  BY <1>0, SameLockKeeps
<1>3. requests' \in Nat /\ failures' \in Nat
  BY <1>0 DEF WopiTypeOK
<1>4. q.op = "PutFile" \/ q.op \in RelativeOps
  BY <1>0, <1>1 DEF PutOps
<1>5. CASE Reply(c, 500, None) /\ UNCHANGED <<born, exists, named, saved>>
  <2>1. Sound
    BY <1>0, <1>2, <1>3, <1>5, QuietSound DEF WopiTypeOK
  <2> QED
    BY <1>0, <1>5, <2>1, ErrorReply
<1>6. CASE \E f \in exists : /\ f = q.file /\ q.etag \in {NoEtag, Etag(f)} /\ Save(c, f)
                             /\ UNCHANGED <<born, exists, named>>
  <2>1. PICK f \in exists : f = q.file /\ q.etag \in {NoEtag, Etag(f)} /\ Save(c, f)
                            /\ UNCHANGED <<born, exists, named>>
    BY <1>6
  <2>2. f \in Files /\ named' \in MaybeFile /\ exists \subseteq born /\ born \subseteq Files
    BY <1>0, <2>1 DEF WopiTypeOK
  <2>3. q.etag = NoEtag => q.op \in RelativeOps
    <3> HIDE DEF NoEtag
    <3> QED
      BY <1>0, <1>1, <1>4, <2>1 DEF Knows
  <2>4. born' = born /\ exists' = exists
    BY <2>1
  <2> HIDE DEF NoEtag, Etag, Save, Knows
  <2> QED
    BY <1>0, <1>1, <1>2, <1>3, <2>1, <2>2, <2>3, <2>4, SaveKeeps
<1>7. CASE q.file = None /\ \E f \in Files \ born :
             /\ born' = born \cup {f} /\ exists' = exists \cup {f} /\ named' = f
             /\ Save(c, f)
  <2>1. PICK f \in Files \ born :
             born' = born \cup {f} /\ exists' = exists \cup {f} /\ named' = f /\ Save(c, f)
    BY <1>7
  <2>2. q.op # "PutFile" /\ q.etag = NoEtag
    BY <1>0, <1>1, <1>7, WopiAssumption DEF Knows, WopiTypeOK
  <2>3. /\ born \subseteq born' /\ born' \subseteq Files /\ exists' \subseteq born'
        /\ born \cap exists' \subseteq exists /\ named' \in MaybeFile
    BY <1>0, <2>1 DEF WopiTypeOK, MaybeFile
  <2> HIDE DEF NoEtag, Etag, Save, Knows
  <2> QED
    BY <1>0, <1>1, <1>2, <1>3, <1>4, <2>1, <2>2, <2>3, SaveKeeps
<1>8. CASE PutWrite(c)
  <2> HIDE DEF NoEtag, Etag, Save, Reply
  <2> QED
    BY <1>1, <1>5, <1>6, <1>8 DEF PutWrite
<1>9. CASE PutCreate(c)
  <2> HIDE DEF NoEtag, Etag, Save, Reply
  <2> QED
    BY <1>1, <1>5, <1>7, <1>9 DEF PutCreate, fileVars
<1> QED
  BY <1>8, <1>9

\* Renaming keeps the invariant.
LEMMA RenameStep ==
    ASSUME LockInv, NEW c \in Sessions, RenameStat(c) \/ RenameMove(c)
    PROVE  LockInv'
<1>0. WopiTypeOK /\ None \in MaybeId
  BY DEF LockInv, MaybeId
<1>1. PICK q \in RequestState : q = req[c] /\ Knows(q)
  BY DEF LockInv, WopiTypeOK
<1>2. q.op = "RenameFile" /\ q.seen \in MaybeId /\ q.file \in MaybeFile
  BY <1>1 DEF RenameStat, RenameMove, At, RequestState
<1>3. Sound
  <2>1. LookUp(q.file) /\ UNCHANGED <<born, exists, saved, requests, failures>>
    BY <1>1 DEF RenameStat, RenameMove, fileVars
  <2>2. named' \in MaybeFile
    <3>1. named \in MaybeFile
      BY <1>0 DEF WopiTypeOK
    <3>2. named' = named \/ named' = q.file \/ named' = None
      BY <1>1 DEF RenameStat, RenameMove, fileVars
    <3> QED
      BY <1>2, <3>1, <3>2 DEF MaybeFile
  <2>3. LockKept
    BY <1>0, <2>1, LookUpKeeps
  <2> QED
    BY <1>0, <2>1, <2>2, <2>3, QuietSound DEF WopiTypeOK
<1>4. CASE \E s \in Nat, m \in MaybeId : Reply(c, s, m)
  BY <1>1, <1>2, <1>3, <1>4, OtherReply
<1>5. CASE req' = req
  BY <1>3, <1>5, SameKeeps
<1>6. CASE RenameStat(c) /\ q.file \in exists
  <2>1. PICK m \in MaybeId : m = Current(q.file)
    BY <1>0, <1>6 DEF WopiTypeOK, Current, MaybeId
  <2> DEFINE r == [q EXCEPT !.pc = "move", !.seen = m]
  <2>2. r \in RequestState /\ r.op = q.op /\ r.id = q.id /\ r.ended = q.ended
        /\ r.pc = "move" /\ r.file = q.file
    BY DEF RequestState
  <2>3. req' = [req EXCEPT ![c] = r]
    BY <1>0, <1>1, <1>6, <2>1 DEF WopiTypeOK, RenameStat
  <2> HIDE DEF r
  <2>4. PICK p \in RequestState : p = r
    BY <2>2
  <2>5. Knows(p)
    <3> HIDE DEF Knows
    <3> QED
      BY <1>1, <2>2, <2>4, KnowsIdle
  <2>6. ~Entitled(p)
    BY <2>2, <2>4 DEF Entitled
  <2> HIDE DEF Current, Knows, Entitled
  <2> QED
    BY <1>1, <1>3, <2>2, <2>3, <2>4, <2>5, <2>6, MoveKeeps
<1>7. CASE RenameStat(c) /\ q.file \notin exists
  <2>1. Reply(c, 404, None)
    BY <1>1, <1>7 DEF RenameStat
  <2> QED
    BY <1>0, <1>4, <2>1
<1>8. CASE RenameMove(c)
  <2>1. \/ Reply(c, 200, None) \/ Reply(c, 409, q.seen) \/ Reply(c, 500, None) \/ req' = req
    BY <1>1, <1>8 DEF RenameMove
  <2> QED
    BY <1>0, <1>2, <1>4, <1>5, <2>1
<1> QED
  BY <1>6, <1>7, <1>8

\* Deleting keeps the invariant.
LEMMA DeleteStep ==
    ASSUME LockInv, NEW c \in Sessions, Delete(c)
    PROVE  LockInv'
<1>0. WopiTypeOK /\ None \in MaybeId
  BY DEF LockInv, MaybeId
<1>1. PICK q \in RequestState : q = req[c] /\ Knows(q)
  BY DEF LockInv, WopiTypeOK
<1>2. q.op = "DeleteFile" /\ q.pc = "delete"
  BY <1>1 DEF Delete, At
<1>3. q.file \in exists => q.file \in Files
  BY <1>0 DEF WopiTypeOK
<1>4. LockKept
  BY <1>0, <1>1, <1>3, ReadLockKeeps, SameLockKeeps, RemoveLockKeeps DEF Delete
<1>5. Sound
  <2>1. UNCHANGED <<born, saved, requests, failures>> /\ exists' \subseteq exists
        /\ named' \in {named, None}
    BY DEF Delete, fileVars
  <2> QED
    BY <1>0, <1>4, <2>1, QuietSound DEF WopiTypeOK, MaybeFile
<1>6. CASE (\E s \in {200, 404} : Reply(c, s, None)) \/ Go(c, "getlock")
  BY <1>0, <1>1, <1>2, <1>5, <1>6, OtherReply, GoKeeps
<1>7. CASE req' = [req EXCEPT ![c].retries = @ + 1]
  <2> DEFINE r == [q EXCEPT !.retries = @ + 1]
  <2>1. r \in RequestState /\ r.op = q.op /\ r.id = q.id /\ r.ended = q.ended /\ r.file = q.file
        /\ r.pc = q.pc
    BY DEF RequestState
  <2>2. req' = [req EXCEPT ![c] = r]
    BY <1>0, <1>1, <1>7 DEF WopiTypeOK
  <2> HIDE DEF r
  <2>3. PICK p \in RequestState : p = r
    BY <2>1
  <2>4. Knows(p)
    <3> HIDE DEF Knows
    <3> QED
      BY <1>1, <1>2, <2>1, <2>3, KnowsIdle
  <2>5. ~Entitled(p)
    BY <1>2, <2>1, <2>3 DEF Entitled
  <2> HIDE DEF Current, Knows, Entitled
  <2> QED
    BY <1>1, <1>5, <2>1, <2>2, <2>3, <2>4, <2>5, MoveKeeps
<1> QED
  BY <1>6, <1>7 DEF Delete

\* Every action keeps who holds a lock and what a save has seen.
LEMMA LockStep == LockInv /\ [Next]_vars => LockInv'
<1> SUFFICES ASSUME LockInv, [Next]_vars
             PROVE  LockInv'
  OBVIOUS
<1>0. WopiTypeOK /\ None \in MaybeId
  BY DEF LockInv, MaybeId
<1>1. CASE UNCHANGED vars
  <2>1. Sound
    BY <1>0, <1>1, SameLockKeeps, QuietSound DEF vars, fileVars, WopiTypeOK
  <2> QED
    BY <1>1, <2>1, SameKeeps DEF vars
<1>2. ASSUME NEW c \in Sessions, CallFails(c)
      PROVE  LockInv'
  <2>1. Sound
    BY <1>0, <1>2, SameLockKeeps, QuietSound DEF CallFails, Fail, fileVars, WopiTypeOK
  <2> QED
    BY <1>0, <1>2, <2>1, ErrorReply DEF CallFails
<1>3. ASSUME NEW f \in Files, Expire(f)
      PROVE  LockInv'
  <2>1. lock[f] \in MaybeId /\ lock' = [lock EXCEPT ![f] = lock[f]] /\ TRUE \in BOOLEAN
        /\ expired' = [expired EXCEPT ![f] = TRUE] /\ ended' = Bump(f)
    BY <1>0, <1>3 DEF Expire, WopiTypeOK
  <2>2. PICK i \in MaybeId : i = lock[f]
    BY <2>1
  <2>3. LockKept
    BY <1>0, <2>1, <2>2, NewLockKeeps
  <2>4. Sound
    BY <1>0, <1>3, <2>3, QuietSound DEF Expire, fileVars, WopiTypeOK
  <2> QED
    BY <1>3, <2>4, SameKeeps DEF Expire
<1>4. ASSUME NEW f \in Files, PostprocessingDone(f)
      PROVE  LockInv'
  <2>1. Sound
    BY <1>0, <1>4, SameLockKeeps, QuietSound DEF PostprocessingDone, WopiTypeOK
  <2> QED
    BY <1>4, <2>1, SameKeeps DEF PostprocessingDone
<1>5. ASSUME NEW c \in Sessions, Serve(c)
      PROVE  LockInv'
  BY <1>5, SetOrRefreshStep, UnlockStep, LockStatStep, LockFallbackStep, GetLockStep,
     PutLookStep, PutStatStep, PutInitiateStep, PutWriteStep, RenameStep, DeleteStep DEF Serve
<1> QED
  BY <1>1, <1>2, <1>3, <1>4, <1>5, RequestStep DEF Next

\* The invariant of LockStep holds of every behaviour.
LEMMA LockInvariant == Spec => []LockInv
<1>1. ASSUME Init PROVE LockInv
  <2>1. NoRequest \in RequestState /\ NoRequest.op = "none" /\ NoRequest.pc = "done"
    <3>1. NoEtag \in EtagState /\ None \in MaybeId /\ Document \in MaybeFile
      BY WopiAssumption DEF EtagState, MaybeId, MaybeFile
    <3> HIDE DEF NoEtag, EtagState
    <3> QED
      BY <3>1 DEF NoRequest, RequestState
  <2>2. req \in [Sessions -> RequestState] /\ \A c \in Sessions : req[c] = NoRequest
    BY <1>1, <2>1 DEF Init
  <2>3. \A c \in Sessions : Honest(c) /\ Knows(req[c])
    BY <2>1, <2>2 DEF Honest, Knows, Entitled, LockOps
  <2>4. saved \in [Files -> Seq(SaveState)] /\ \A f \in Files : Len(saved[f]) = 0
    BY <1>1 DEF Init
  <2>5. SavesAreSerial /\ UnlockedFillsEmpty
    BY <2>4 DEF SavesAreSerial, UnlockedFillsEmpty
  <2>6. WopiTypeOK
    BY <1>1, <2>2, <2>4, WopiAssumption DEF Init, WopiTypeOK, MaybeId, MaybeFile
  <2> QED
    BY <2>3, <2>5, <2>6 DEF LockInv
<1> QED
  BY <1>1, LockStep, PTL DEF Spec

\* A session that is told that it has the lock has it, as long as no lock with
\* its id has ended since it asked, whatever the other sessions do between the
\* calls of its request.
THEOREM ToldMeansLockedAlways == Spec => []ToldMeansLocked
<1>1. LockInv => ToldMeansLocked
  BY DEF LockInv, Honest, Entitled, ToldMeansLocked, Answered
<1> QED
  BY <1>1, LockInvariant, PTL

\* A save overwrites the version that its session has seen and no other, for any
\* number of sessions, files and names that change hands, except for a
\* PutRelativeFile that has seen no file.
THEOREM SavesAreSerialAlways == Spec => []SavesAreSerial
<1>1. LockInv => SavesAreSerial
  BY DEF LockInv
<1> QED
  BY <1>1, LockInvariant, PTL

\* A save without a lock id overwrites an empty version only, unless its Stat
\* saw no file, for any number of sessions.
THEOREM UnlockedFillsEmptyAlways == Spec => []UnlockedFillsEmpty
<1>1. LockInv => UnlockedFillsEmpty
  BY DEF LockInv
<1> QED
  BY <1>1, LockInvariant, PTL

================================================================================
