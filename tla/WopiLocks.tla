------------------------------- MODULE WopiLocks -------------------------------
(***************************************************************************)
(* The WOPI requests about the files of one folder                         *)
(* (services/collaboration/pkg/connector): office sessions lock, refresh,  *)
(* unlock, save, rename and delete the file that they have open, and save  *)
(* it under another name.  Every request is several calls to the gateway;  *)
(* calls of other sessions, the end of a lock's 30 minutes and failures    *)
(* come in between.                                                        *)
(*                                                                         *)
(* A session knows its file by its id; only PutRelativeFile goes by a name *)
(* (always the same one here) and looks it up anew with every call.  The   *)
(* storage provider (decomposedfs) is external: one call of it is one step,*)
(* except the upload of a save, which checks the lock first and compares   *)
(* the etag when it writes.                                                *)
(***************************************************************************)
EXTENDS Integers, Sequences, FiniteSetsExt

CONSTANTS
    Sessions,       \* WOPI sessions
    ReadOnly,       \* the ones that may only read
    Files,          \* ids of files; bound: how many come into being
    Document,       \* the first of them, an empty file
    Ids,            \* the ids they lock with
    None,           \* no lock, no id, no file
    Ops,            \* the requests that are made
    MaxRequests,    \* bound: requests
    MaxFailures,    \* bound: calls that fail
    MaxRetries      \* bound: repeated deletions

LockOps == {"Lock", "Relock", "RefreshLock", "UnLock"}
RelativeOps == {"PutSuggested", "PutRelative"}
PutOps == RelativeOps \cup {"PutFile"}
Operations == LockOps \cup PutOps \cup {"GetLock", "DeleteFile", "RenameFile"}

ASSUME WopiAssumption ==
    /\ ReadOnly \subseteq Sessions /\ None \notin Ids /\ Ops \subseteq Operations
    /\ Document \in Files /\ None \notin Files
    /\ MaxRequests \in Nat /\ MaxFailures \in Nat /\ MaxRetries \in Nat

VARIABLES
    lock, expired,  \* for each file the id in its lock file, and whether its time is over
    born, exists,   \* the files that ever existed, and that exist
    named,          \* the file with the name that PutRelativeFile asks for, or None
    processing,     \* the files whose last upload is being postprocessed
    saved,          \* for each file its saves, in the order of its versions
    req,            \* the request of each session, or its last one
    ended,          \* history: how often a lock with an id ended, for each file
    requests, failures

fileVars == <<born, exists, named, processing, saved>>
lockVars == <<lock, expired, ended>>
vars == <<fileVars, lockVars, req, requests, failures>>

\* An etag is made of the file's id and the time of its version.
Etag(f) == <<f, Len(saved[f])>>
NoEtag == <<None, 0>>

\* Was version n of the file empty?  A file without a save is.
EmptyAt(f, n) == n = 0 \/ ~saved[f][n].bytes

\* status is the code of the call that decides, etag and seen what Stat said,
\* reply the HTTP status and shown the lock that goes with a 409.
NoRequest == [op |-> "none", file |-> Document, id |-> None, old |-> None, bytes |-> FALSE,
              pc |-> "done", status |-> "-", etag |-> NoEtag, seen |-> None, reply |-> 0,
              shown |-> None, retries |-> 0, ended |-> 0]

Init ==
    /\ lock = [f \in Files |-> None] /\ expired = [f \in Files |-> FALSE]
    /\ born = {Document} /\ exists = {Document} /\ named \in {Document, None}
    /\ processing = {} /\ saved = [f \in Files |-> <<>>]
    /\ req = [c \in Sessions |-> NoRequest]
    /\ ended = [f \in Files |-> [i \in Ids |-> 0]]
    /\ requests = 0 /\ failures = 0

-----------------------------------------------------------------------------
(* The storage provider's locks.  Whoever reads an expired lock removes    *)
(* it; refreshing and unlocking do not look at the time.                   *)

Current(f) == IF expired[f] THEN None ELSE lock[f]

ReadLock(f) ==
    /\ lock' = [lock EXCEPT ![f] = Current(f)]
    /\ expired' = [expired EXCEPT ![f] = FALSE]
    /\ UNCHANGED ended

\* A call that finds no file reads no lock.
LookUp(f) == IF f \in exists THEN ReadLock(f) ELSE UNCHANGED lockVars

\* One more lock of file f ends.
Bump(f) == [ended EXCEPT ![f] = [i \in Ids |-> IF i = lock[f] THEN @[i] + 1 ELSE @[i]]]

GrantLock(f, i) ==
    /\ lock' = [lock EXCEPT ![f] = i] /\ expired' = [expired EXCEPT ![f] = FALSE]
    /\ ended' = IF lock[f] # i THEN Bump(f) ELSE ended

SetLock(f, i) ==
    IF Current(f) = None THEN GrantLock(f, i) ELSE ReadLock(f)

SetLockStatus(f) == IF f \notin exists THEN "NOT_FOUND"
                    ELSE IF Current(f) = None THEN "OK" ELSE "FAILED_PRECONDITION"

RefreshLockStatus(f, old) == IF f \notin exists THEN "NOT_FOUND"
                             ELSE IF lock[f] = None THEN "FAILED_PRECONDITION"
                             ELSE IF lock[f] = old THEN "OK" ELSE "ABORTED"

UnlockStatus(f, i) == IF f \notin exists THEN "NOT_FOUND"
                      ELSE IF lock[f] = None THEN "ABORTED"
                      ELSE IF lock[f] = i THEN "OK" ELSE "LOCKED"

\* CheckLock: the id of the request must be that of the lock, if any.
CheckLock(f, i) == i = Current(f)

RemoveLock(f) ==
    /\ lock' = [lock EXCEPT ![f] = None] /\ expired' = [expired EXCEPT ![f] = FALSE]
    /\ ended' = Bump(f)

Expire(f) ==
    /\ lock[f] # None /\ ~expired[f]
    /\ expired' = [expired EXCEPT ![f] = TRUE] /\ ended' = Bump(f)
    /\ UNCHANGED <<fileVars, lock, req, requests, failures>>

PostprocessingDone(f) ==
    /\ f \in processing
    /\ processing' = processing \ {f}
    /\ UNCHANGED <<born, exists, named, saved, lockVars, req, requests, failures>>

-----------------------------------------------------------------------------
(* A request begins, moves on and is answered.                             *)

At(c, ops, pc) == req[c].pc = pc /\ req[c].op \in ops

\* What the calls before have said is of no use any more.
Reply(c, status, shown) ==
    req' = [req EXCEPT ![c] = [@ EXCEPT !.pc = "done", !.reply = status, !.shown = shown,
                               !.status = "-", !.etag = NoEtag, !.seen = None, !.retries = 0]]

Go(c, pc) == req' = [req EXCEPT ![c].pc = pc]

FirstStep(op) ==
    CASE op \in LockOps -> "call"
      [] op \in {"PutFile", "RenameFile"} -> "stat"
      [] op \in RelativeOps -> "own"
      [] op = "DeleteFile" -> "delete"
      [] op = "GetLock" -> "getlock"

\* What a session may send.  Without an id the lock requests are answered with
\* 400; GetLock and PutRelativeFile have none.
Sent(in) ==
    /\ in.op \in LockOps => in.id # None
    /\ in.op \in RelativeOps \cup {"GetLock"} => in.id = None
    /\ (in.op = "Relock") = (in.old # None)
    /\ in.bytes => in.op \in PutOps

Input == {in \in [op : Ops, file : Files, id : Ids \cup {None}, old : Ids \cup {None},
                  bytes : BOOLEAN] : Sent(in)}

\* A session is about a file that was there when it was opened.  A read-only
\* one gets its 200 without a lock; the storage refuses what else it asks for.
Request(c, in) ==
    /\ req[c].pc = "done" /\ requests < MaxRequests
    /\ requests' = requests + 1
    /\ in.file \in born
    /\ c \in ReadOnly => in.op \in {"Lock", "GetLock"}
    /\ LET told == c \in ReadOnly /\ in.op = "Lock" IN
       req' = [req EXCEPT ![c] =
          [NoRequest EXCEPT !.op = in.op, !.file = in.file, !.id = in.id, !.old = in.old,
                            !.bytes = in.bytes,
                            !.pc = IF told THEN "done" ELSE FirstStep(in.op),
                            !.reply = IF told THEN 200 ELSE 0,
                            !.ended = IF in.id = None THEN 0 ELSE ended[in.file][in.id]]]
    /\ UNCHANGED <<fileVars, lockVars, failures>>

Fail == failures < MaxFailures /\ failures' = failures + 1

\* A call of the gateway fails: the request ends with 500.
CallFails(c) ==
    /\ req[c].pc # "done" /\ Fail
    /\ Reply(c, 500, None)
    /\ UNCHANGED <<fileVars, lockVars, requests>>

-----------------------------------------------------------------------------
(* Lock (with an old id: unlock and relock), RefreshLock and UnLock.       *)

SetOrRefresh(c) ==
    /\ At(c, {"Lock", "Relock", "RefreshLock"}, "call")
    /\ LET r == req[c]
           old == IF r.op = "Relock" THEN r.old ELSE r.id
           status == IF r.op = "Lock" THEN SetLockStatus(r.file)
                     ELSE RefreshLockStatus(r.file, old) IN
       /\ IF r.op = "Lock" /\ r.file \in exists THEN SetLock(r.file, r.id)
          ELSE IF status = "OK" THEN GrantLock(r.file, r.id) ELSE UNCHANGED lockVars
       /\ req' = [req EXCEPT ![c].pc = "stat", ![c].status = status]
    /\ UNCHANGED <<fileVars, requests, failures>>

Unlock(c) ==
    /\ At(c, {"UnLock"}, "call")
    /\ LET status == UnlockStatus(req[c].file, req[c].id) IN
       /\ IF status = "OK" THEN RemoveLock(req[c].file) ELSE UNCHANGED lockVars
       /\ req' = [req EXCEPT ![c].pc = "stat", ![c].status = status]
    /\ UNCHANGED <<fileVars, requests, failures>>

\* Stat comes first, then the status of the call decides.
LockStat(c) ==
    /\ At(c, LockOps, "stat")
    /\ LET r == req[c]
           found == r.file \in exists IN
       \/ /\ ~found /\ Reply(c, 500, None)
       \/ /\ found /\ r.status = "OK" /\ Reply(c, 200, None)
       \/ /\ found /\ r.status = "NOT_FOUND" /\ Reply(c, IF r.op = "UnLock" THEN 500 ELSE 404, None)
       \/ /\ found /\ r.op = "UnLock" /\ r.status = "ABORTED" /\ Reply(c, 409, None)
       \/ /\ found /\ r.op = "RefreshLock" /\ r.status = "FAILED_PRECONDITION"
          /\ Reply(c, 500, None)
       \/ /\ found
          /\ \/ r.op \in {"Lock", "Relock"} /\ r.status \in {"FAILED_PRECONDITION", "ABORTED"}
             \/ r.op = "RefreshLock" /\ r.status = "ABORTED"
             \/ r.op = "UnLock" /\ r.status = "LOCKED"
          /\ Go(c, "getlock")
    /\ LookUp(req[c].file)
    /\ UNCHANGED <<fileVars, requests, failures>>

\* The lock that GetLock finds, if there is one.
LockFound(c) == IF req[c].file \in exists THEN Current(req[c].file) ELSE None

\* Mutant: any lock will do.
LockFallbackAny(c) ==
    /\ At(c, {"Lock", "Relock"}, "getlock")
    /\ IF LockFound(c) # None THEN Reply(c, 200, None) ELSE Reply(c, 500, None)
    /\ LookUp(req[c].file)
    /\ UNCHANGED <<fileVars, requests, failures>>

\* Who finds its own id has the lock; it is not refreshed.
LockFallback(c) ==
    /\ At(c, {"Lock", "Relock"}, "getlock")
    /\ \/ LockFound(c) = None /\ Reply(c, 500, None)
       \/ LockFound(c) = req[c].id /\ Reply(c, 200, None)
       \/ LockFound(c) \notin {None, req[c].id} /\ Reply(c, 409, LockFound(c))
    /\ LookUp(req[c].file)
    /\ UNCHANGED <<fileVars, requests, failures>>

\* The fallback of RefreshLock, UnLock and DeleteFile.
ConflictLock(c) ==
    /\ At(c, {"RefreshLock", "UnLock", "DeleteFile"}, "getlock")
    /\ IF LockFound(c) = None THEN Reply(c, 500, None) ELSE Reply(c, 409, LockFound(c))
    /\ LookUp(req[c].file)
    /\ UNCHANGED <<fileVars, requests, failures>>

GetLock(c) ==
    /\ At(c, {"GetLock"}, "getlock")
    /\ IF LockFound(c) = None THEN Reply(c, 404, None) ELSE Reply(c, 200, LockFound(c))
    /\ LookUp(req[c].file)
    /\ UNCHANGED <<fileVars, requests, failures>>

-----------------------------------------------------------------------------
(* PutFile, and PutRelativeFile, which puts a file by its name.            *)

\* The file that a call refers to: a name may lead elsewhere the next time.
Target(c) == IF req[c].op \in RelativeOps THEN named ELSE req[c].file

\* PutRelativeFile asks for the folder of the session's own file.
PutOwnStat(c) ==
    /\ At(c, RelativeOps, "own")
    /\ IF req[c].file \in exists THEN Go(c, "stat") ELSE Reply(c, 500, None)
    /\ LookUp(req[c].file)
    /\ UNCHANGED <<fileVars, requests, failures>>

\* The answer of PutFile.  PutRelativeFile has yet to find the id of the file.
PutReply(c, status, shown) ==
    req' = [req EXCEPT ![c].pc = IF req[c].op \in RelativeOps THEN "adjust" ELSE "done",
                       ![c].reply = status, ![c].shown = shown]

\* A suggested name that is taken is given up for a generated one, which leads
\* to a file of its own.
PutConflict(c, shown) ==
    IF req[c].op = "PutSuggested" THEN Reply(c, 200, None) ELSE PutReply(c, 409, shown)

\* Mutant: a file with content can be saved without a lock.
PutStatUnlocked(c) ==
    /\ At(c, PutOps, "stat")
    /\ LET f == Target(c) IN
       /\ \/ f \in exists /\ Current(f) \notin {None, req[c].id} /\ PutConflict(c, Current(f))
          \/ /\ f \in exists => Current(f) \in {None, req[c].id}
             /\ req' = [req EXCEPT ![c].pc = "initiate",
                                   ![c].etag = IF f \in exists THEN Etag(f) ELSE NoEtag]
       /\ LookUp(f)
    /\ UNCHANGED <<fileVars, requests, failures>>

\* It is no error that there is no file: it is going to be created.
PutStat(c) ==
    /\ At(c, PutOps, "stat")
    /\ LET f == Target(c)
           unlocked == f \in exists /\ Current(f) = None /\ req[c].id = None
                          /\ ~EmptyAt(f, Len(saved[f])) IN
       /\ \/ f \in exists /\ Current(f) \notin {None, req[c].id} /\ PutConflict(c, Current(f))
          \/ unlocked /\ PutConflict(c, None)
          \/ /\ f \in exists => Current(f) \in {None, req[c].id}
             /\ ~unlocked
             /\ req' = [req EXCEPT ![c].pc = "initiate",
                                   ![c].etag = IF f \in exists THEN Etag(f) ELSE NoEtag]
       /\ LookUp(f)
    /\ UNCHANGED <<fileVars, requests, failures>>

\* InitiateFileUpload compares the etag, if there is one, and checks the lock.
\* A name that leads nowhere will get a new file, an id that does not is an error.
PutInitiate(c) ==
    /\ At(c, PutOps, "initiate")
    /\ LET f == Target(c)
           matches == req[c].etag \in {NoEtag, IF f \in exists THEN Etag(f) ELSE NoEtag}
           writable == IF f \in exists THEN CheckLock(f, req[c].id)
                       ELSE req[c].op \in RelativeOps IN
       /\ IF matches /\ writable
          THEN req' = [req EXCEPT ![c].pc = "upload", ![c].file = f]
          ELSE Reply(c, 500, None)
       /\ LookUp(f)
    /\ UNCHANGED <<fileVars, requests, failures>>

\* The upload, which is part of the call before if there are no bytes, checks
\* the lock again ...
PutUpload(c) ==
    /\ At(c, PutOps, "upload")
    /\ LET f == req[c].file IN
       /\ IF f = None \/ (f \in exists /\ CheckLock(f, req[c].id))
          THEN Go(c, "write") ELSE Reply(c, 500, None)
       /\ LookUp(f)
    /\ UNCHANGED <<fileVars, requests, failures>>

\* Without bytes there is no postprocessing, and no Stat afterwards.
Save(c, f) ==
    /\ saved' = [saved EXCEPT ![f] = Append(@,
          [op |-> req[c].op, id |-> req[c].id, etag |-> req[c].etag, bytes |-> req[c].bytes])]
    /\ processing' = IF req[c].bytes THEN processing \cup {f} ELSE processing \ {f}
    /\ IF req[c].bytes THEN Go(c, "after") ELSE PutReply(c, 200, None)

\* Mutant: the upload is not bound to an etag.
PutWriteUnchecked(c) ==
    /\ At(c, PutOps, "write") /\ req[c].file \in exists
    /\ Save(c, req[c].file)
    /\ UNCHANGED <<born, exists, named, lockVars, requests, failures>>

\* ... and writes if the etag, if there is one, is still the same.
PutWrite(c) ==
    /\ At(c, PutOps, "write") /\ req[c].file # None
    /\ LET f == req[c].file IN
       \/ f \in exists /\ req[c].etag \in {NoEtag, Etag(f)} /\ Save(c, f)
       \/ /\ f \notin exists \/ req[c].etag \notin {NoEtag, Etag(f)}
          /\ Reply(c, 500, None)
          /\ UNCHANGED <<processing, saved>>
    /\ UNCHANGED <<born, exists, named, lockVars, requests, failures>>

\* A new file needs a name that is still free.
PutCreate(c) ==
    /\ At(c, PutOps, "write") /\ req[c].file = None
    /\ \/ \E f \in Files \ born :
             /\ named = None
             /\ born' = born \cup {f} /\ exists' = exists \cup {f} /\ named' = f
             /\ Save(c, f)
       \/ /\ named # None /\ Reply(c, 500, None)
          /\ UNCHANGED fileVars
    /\ UNCHANGED <<lockVars, requests, failures>>

PutStatAfter(c) ==
    /\ At(c, PutOps, "after")
    /\ IF Target(c) \in exists THEN PutReply(c, 200, None) ELSE Reply(c, 500, None)
    /\ LookUp(Target(c))
    /\ UNCHANGED <<fileVars, requests, failures>>

\* adjustWopiReference, after a save as well as after a conflict.
PutAdjust(c) ==
    /\ At(c, RelativeOps, "adjust")
    /\ IF Target(c) \in exists THEN Go(c, "done") ELSE Reply(c, 500, None)
    /\ LookUp(Target(c))
    /\ UNCHANGED <<fileVars, requests, failures>>

-----------------------------------------------------------------------------
(* RenameFile: a conflict is answered with the lock of an earlier Stat.    *)

RenameStat(c) ==
    /\ At(c, {"RenameFile"}, "stat")
    /\ IF req[c].file \in exists
       THEN req' = [req EXCEPT ![c].pc = "move", ![c].seen = Current(req[c].file)]
       ELSE Reply(c, 404, None)
    /\ LookUp(req[c].file)
    /\ UNCHANGED <<fileVars, requests, failures>>

\* The file gets the name of the others if nobody has it, or some other name;
\* or the name is taken, and another one is tried.
RenameMove(c) ==
    /\ At(c, {"RenameFile"}, "move")
    /\ LET f == req[c].file
           free == f \in exists /\ CheckLock(f, req[c].id) /\ f \notin processing IN
       \/ free /\ named = None /\ named' = f /\ Reply(c, 200, None)
       \/ free /\ named' = (IF named = f THEN None ELSE named) /\ Reply(c, 200, None)
       \/ free /\ UNCHANGED <<named, req>>
       \/ f \in exists /\ ~CheckLock(f, req[c].id) /\ Reply(c, 409, req[c].seen) /\ UNCHANGED named
       \/ /\ f \notin exists \/ (CheckLock(f, req[c].id) /\ f \in processing)
          /\ Reply(c, 500, None) /\ UNCHANGED named
    /\ LookUp(req[c].file)
    /\ UNCHANGED <<born, exists, processing, saved, requests, failures>>

-----------------------------------------------------------------------------
(* DeleteFile: as long as the file is processed the request is repeated.   *)
(* A waiting time is an int64 of nanoseconds, here the set of its bits.    *)

Shifted(bits, n) == {b + n : b \in bits} \cap (0 .. 63)

Negative(bits) == 63 \in bits

Exceeds(a, b) ==
    /\ ~Negative(a) /\ a # b
    /\ Max((a \ b) \cup (b \ a)) \in a

TwentyMs == {8, 10, 11, 13, 16, 20, 21, 24}
FiveSecs == {9, 12, 13, 14, 15, 16, 18, 25, 27, 29, 32}

\* 20ms << retries, at most 5 seconds.
WaitingTime(retries) ==
    LET t == Shifted(TwentyMs, retries) IN
    IF Exceeds(t, FiveSecs) THEN FiveSecs ELSE t

Delete(c) ==
    /\ At(c, {"DeleteFile"}, "delete")
    /\ LET f == req[c].file IN
       \/ /\ f \notin exists /\ Reply(c, 404, None) /\ UNCHANGED <<fileVars, lockVars>>
       \/ /\ f \in exists \cap processing /\ req[c].retries < MaxRetries
          /\ req' = [req EXCEPT ![c].retries = @ + 1]
          /\ UNCHANGED <<fileVars, lockVars>>
       \/ /\ f \in exists \ processing /\ ~CheckLock(f, req[c].id)
          /\ Go(c, "getlock") /\ ReadLock(f) /\ UNCHANGED fileVars
       \/ /\ f \in exists \ processing /\ CheckLock(f, req[c].id)
          /\ exists' = exists \ {f} /\ named' = (IF named = f THEN None ELSE named)
          /\ Reply(c, 200, None)
          /\ RemoveLock(f) /\ UNCHANGED <<born, processing, saved>>
    /\ UNCHANGED <<requests, failures>>

-----------------------------------------------------------------------------
Serve(c) ==
    \/ SetOrRefresh(c) \/ Unlock(c) \/ LockStat(c) \/ LockFallback(c) \/ ConflictLock(c)
    \/ GetLock(c) \/ PutOwnStat(c) \/ PutStat(c) \/ PutInitiate(c) \/ PutUpload(c)
    \/ PutWrite(c) \/ PutCreate(c) \/ PutStatAfter(c) \/ PutAdjust(c)
    \/ RenameStat(c) \/ RenameMove(c) \/ Delete(c)

Next ==
    \/ \E c \in Sessions :
          \/ \E in \in Input : Request(c, in)
          \/ Serve(c) \/ CallFails(c)
    \/ \E f \in Files : Expire(f) \/ PostprocessingDone(f)

Spec == Init /\ [][Next]_vars

-----------------------------------------------------------------------------
(* Properties. *)

Answered(c, ops, status) == req[c].pc = "done" /\ req[c].op \in ops /\ req[c].reply = status

\* A session that is told that it has the lock has it, whatever the other
\* sessions did between the calls of its request, as long as no lock with its
\* id has ended since the request began (fileconnector.go, Lock: "There was a
\* problem with the lock, but the file has the same lockId now").
ToldMeansLocked ==
    \A c \in Sessions \ ReadOnly : LET r == req[c] IN
        Answered(c, {"Lock", "Relock", "RefreshLock"}, 200) /\ ended[r.file][r.id] = r.ended
            => Current(r.file) = r.id

\* A save overwrites the version that its session has seen and no other, even
\* if the lock got lost or the name leads to another file by now
\* (contentconnector.go, PutFile).  The exception is PutRelativeFile if its
\* Stat found no file: without an etag it overwrites what was created or
\* renamed in the meantime.  PutFile goes by an id, and an id never comes back.
SavesAreSerial ==
    \A f \in Files : \A n \in 1 .. Len(saved[f]) : LET s == saved[f][n] IN
        s.etag = <<f, n - 1>> \/ (s.etag = NoEtag /\ s.op \in RelativeOps)

\* contentconnector.go, PutFile: "The only case where an empty lock ID can be
\* used is if the target file has 0 size".  The size is the one of the Stat; it
\* is that of the version that is overwritten, unless there was no file.
UnlockedFillsEmpty ==
    \A f \in Files : \A n \in 1 .. Len(saved[f]) : LET s == saved[f][n] IN
        s.id = None /\ s.etag # NoEtag => EmptyAt(f, n - 1)

\* fileconnector.go, DeleteFile: "starting from 20ms, double the waiting time
\* for each retry capping at 5 secs".
WaitsBetweenRetries ==
    \A c \in Sessions : At(c, {"DeleteFile"}, "delete") =>
        LET t == WaitingTime(req[c].retries) IN t \in {TwentyMs, FiveSecs} \/ Exceeds(t, TwentyMs)
================================================================================
