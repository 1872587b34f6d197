------------------------------- MODULE Uploads -------------------------------
(***************************************************************************)
(* Hashed and RetryUploader: a blob is uploaded from a reader under the    *)
(* hash of its content, once, with retries.  Hashing reads the reader to   *)
(* its end and so does an upload, also one that fails: what is uploaded is *)
(* what the reader has left.  A content is its own hash here.              *)
(***************************************************************************)
EXTENDS Scripts

VARIABLES
    store,      \* the container: what is stored under which name
    upload      \* {} or the upload of the process: the name and where its reader is

uploadVars == <<store, upload>>

Empty == [what |-> "nothing"]    \* the content of nothing; the others are records, too

Positions == {"start", "end"}

\* What is left to read.
Rest(content, reader) == IF reader = "start" THEN content ELSE Empty

\* An upload overwrites, and is there as a whole or not at all.
Put(blobs, name, content) ==
    {b \in blobs : b.name # name} \cup {[name |-> name, content |-> content]}

Whole(blobs, name) == [name |-> name, content |-> name] \in blobs

UploadsTypeOK(contents) ==
    /\ store \subseteq [name : contents, content : contents \cup {Empty}]
    /\ upload \in {{}} \cup {{u} : u \in [name : contents, reader : Positions]}

UploadsInit == store = {} /\ upload = {}

\* Hashed: hash the content, look for the name - somebody else may have uploaded the
\* same - and go back to the start.
BeginUpload(content) ==
    /\ upload = {} /\ ~\E b \in store : b.name = content
    /\ upload' = {[name |-> content, reader |-> "start"]}
    /\ UNCHANGED store

FindUploaded(content) ==
    /\ upload = {}
    /\ \/ \E b \in store : b.name = content /\ UNCHANGED store
       \/ ~(\E b \in store : b.name = content) /\ store' = Put(store, content, content)
    /\ UNCHANGED upload

\* Mutant: an attempt starts where the one before it stopped.
RewindNot(u) == u.reader

\* RetryUploader.Upload: every attempt seeks to the start ...
Rewind(u) == "start"

FinishUpload(content) ==
    \E u \in upload :
        /\ store' = Put(store, u.name, Rest(content, Rewind(u)))
        /\ upload' = {}

\* ... and one that failed has read some of it, and may have stored it all the same.
AttemptFails(content) ==
    \E u \in upload :
        /\ store' \in {store, Put(store, u.name, Rest(content, Rewind(u)))}
        /\ upload' = {[u EXCEPT !.reader = "end"]}

\* Hashed or its retries give up.
AbandonUpload == upload' = {} /\ UNCHANGED store
=============================================================================
