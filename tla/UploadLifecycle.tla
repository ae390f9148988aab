-------------------------- MODULE UploadLifecycle --------------------------
(***************************************************************************)
(* What asynchronous postprocessing promises for a content, without any of    *)
(* the machinery: while it runs nobody reads the uploaded bytes, they      *)
(* become readable only when every checking step has accepted them, and a  *)
(* file that is readable stays readable.                                   *)
(*                                                                         *)
(* A rejected upload may still be accepted later: an aborted upload keeps  *)
(* its bytes, and the administrator may have it processed again.  Its      *)
(* bytes then become a version of the file the upload was to replace.      *)
(***************************************************************************)
EXTENDS FiniteSets

CONSTANTS
    Uploads,    \* the uploads
    Checks,     \* the steps that must accept an upload
    Overwrites  \* the uploads that write a new version of a file

VARIABLES
    content,    \* what the upload's file looks like to its readers
    accepted    \* the checks that accepted the upload

vars == <<content, accepted>>

Init ==
    /\ content = [u \in Uploads |-> "none"]
    /\ accepted = [u \in Uploads |-> {}]

Receive(u) ==
    /\ content[u] = "none"
    /\ content' = [content EXCEPT ![u] = "processing"]
    /\ UNCHANGED accepted

Accept(u, s) ==
    /\ content[u] # "none"
    /\ accepted' = [accepted EXCEPT ![u] = @ \cup {s}]
    /\ UNCHANGED content

Release(u) ==
    /\ content[u] = "processing"
    /\ Checks \subseteq accepted[u]
    /\ content' = [content EXCEPT ![u] = "accessible"]
    /\ UNCHANGED accepted

Reject(u) ==
    /\ content[u] = "processing"
    /\ content' = [content EXCEPT ![u] = IF u \in Overwrites THEN "reverted" ELSE "purged"]
    /\ UNCHANGED accepted

\* The bytes of a rejected upload are released after all.
Recover(u) ==
    /\ content[u] = "reverted"
    /\ Checks \subseteq accepted[u]
    /\ content' = [content EXCEPT ![u] = "version"]
    /\ UNCHANGED accepted

Next ==
    \E u \in Uploads :
        \/ Receive(u) \/ Release(u) \/ Reject(u) \/ Recover(u)
        \/ \E s \in Checks : Accept(u, s)

Spec == Init /\ [][Next]_vars

=============================================================================
