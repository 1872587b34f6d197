------------------------------ MODULE Artifacts ------------------------------
(***************************************************************************)
(* The artifact messages of the evaluation of a POV or a patch, which the  *)
(* results monitors of the servers handle: the blob goes from the worker's *)
(* container to the archive, then the audit log says that it is there.  A  *)
(* message may be received again at any time, also by two servers at once, *)
(* and a server may stop at any point; so messages stay in "artifacts".    *)
(* What a report of a job-runner job does is in JobRunner.                 *)
(***************************************************************************)
EXTENDS Evaluator

VARIABLES
    archive,    \* the archive: what is stored under which name
    archiving,  \* the messages a handler has archived and not audited yet
    audited     \* the names of which the audit log says that they are archived

artifactVars == <<archive, archiving, audited>>

ArtifactsInit ==
    /\ Init
    /\ archive = {}
    /\ archiving = {}
    /\ audited = {}

Name(message) == [what |-> "fuzz.out", of |-> message.of]

\* Mutant: an upload that fails is logged, like a StoreIdentifier that does.
ArchiveArtifactLogged(message) ==
    /\ message \in artifacts
    /\ \E b \in store :
        /\ b.name = Name(message)
        /\ archive' \in {archive, Put(archive, b.name, b.content)}
    /\ archiving' = archiving \cup {message}
    /\ UNCHANGED audited

\* Fetch the blob and Upload it to the archive under its name; an error ends the handler
\* and the message comes again.
ArchiveArtifact(message) ==
    /\ message \in artifacts
    /\ \E b \in store :
        /\ b.name = Name(message)
        /\ archive' = Put(archive, b.name, b.content)
    /\ archiving' = archiving \cup {message}
    /\ UNCHANGED audited

\* LogFileArchived, after the look-ups of the row and its round.
AuditArtifact(message) ==
    /\ message \in archiving
    /\ archiving' = archiving \ {message}
    /\ audited' = audited \cup {Name(message)}
    /\ UNCHANGED archive

\* A look-up fails, or the server stops.
LeaveArtifact(message) ==
    /\ message \in archiving
    /\ archiving' = archiving \ {message}
    /\ UNCHANGED <<archive, audited>>

HandleArtifact ==
    /\ \E message \in artifacts :
        ArchiveArtifact(message) \/ AuditArtifact(message) \/ LeaveArtifact(message)
    /\ UNCHANGED vars

ArtifactsNext == (Next /\ UNCHANGED artifactVars) \/ HandleArtifact

ArtifactsSpec ==
    /\ ArtifactsInit
    /\ [][ArtifactsNext]_<<vars, artifactVars>>
    /\ Fairness

-----------------------------------------------------------------------------
\* What the audit log calls archived is: the archive has the whole blob under the name
\* the audit line tells, and it is one the worker reported (HandleArtifactMessage).
AuditedIsArchived ==
    /\ \A name \in audited : Whole(archive, name)
    /\ \A name \in audited : \E message \in artifacts : Name(message) = name

\* The evidence of an evaluation: reported before a verdict rests on it, stored when it is
\* reported, and archived when the audit log says so.
EvidenceIsKept == ReportsPrecedeVerdict /\ BlobsAreWhole /\ AuditedIsArchived

\* The inductive invariant behind AuditedIsArchived: what a handler has archived is there
\* as a whole, and stays.
ArchiveInv ==
    /\ \A b \in archive : b = [name |-> b.name, content |-> b.name]
    /\ archiving \subseteq artifacts
    /\ \A message \in archiving : Whole(archive, Name(message))
    /\ AuditedIsArchived
=============================================================================
