------------------------------ MODULE Documents ------------------------------
(***************************************************************************)
(* The document workspace of one resource (product/document_workspace.py,  *)
(* document_editing.py, document_parsing.py) and the code workspace of one *)
(* project (product/code_workspace.py), over the artifact registry.        *)
(*                                                                         *)
(* Approving a document draft locks the draft and its source version,      *)
(* renders the edited bytes, publishes them (store, then registry, each    *)
(* committed on its own) and then inserts the version and closes the draft *)
(* in the transaction that holds the locks.  A process may die at every    *)
(* boundary: the locks go, what was published stays.  Rendering an office  *)
(* file writes the time into it, so the same edit rendered again is other  *)
(* bytes.  Applying a code draft is the same, with a scratch copy of its   *)
(* files written between publication and commit.                           *)
(***************************************************************************)
EXTENDS Naturals, FiniteSets

-----------------------------------------------------------------------------
(* The artifact store and registry (artifacts/content.py, storage.py,      *)
(* repository.py).  Publication puts the bytes in a content-addressed      *)
(* store and then, in a transaction of its own, claims the idempotency     *)
(* key of the command and inserts the manifest.  A key claimed before      *)
(* answers with the manifest it stands for when the request has the same   *)
(* digest, and refuses any other request; a manifest has an identity of    *)
(* its own, which a request with a fresh key may collide with.  The        *)
(* digest of a request covers the producer: two members who publish the    *)
(* same bytes make two requests.                                           *)

VARIABLES
    objects,    \* the contents the store holds
    claims,     \* artifact_manifest_commands: the request behind a key
    manifests   \* artifact_manifests

artifactVars == <<objects, claims, manifests>>

\* A manifest as its request digest sees it: all but the server's timestamp.
Manifest(id, content, producer) ==
    [id |-> id, content |-> content, producer |-> producer]

ClaimOf(key) == {c \in claims : c.key = key}

\* The four ways a publication ends.
KeyReused(key, manifest) ==
    \E c \in ClaimOf(key) : c.request # manifest

\* (mutation) A claimed key is replayed whatever the request.
ReplayedByKey(key, manifest) == ClaimOf(key) # {}

Replayed(key, manifest) ==
    [key |-> key, request |-> manifest] \in claims

ManifestExists(key, manifest) ==
    /\ ClaimOf(key) = {}
    /\ \E m \in manifests : m.id = manifest.id

Registrable(key, manifest) ==
    /\ ClaimOf(key) = {}
    /\ ~\E m \in manifests : m.id = manifest.id

\* The store keeps the bytes once, whoever uploads them.
PutObject(content) ==
    /\ objects' = objects \cup {content}
    /\ UNCHANGED <<claims, manifests>>

PersistPublication(key, manifest) ==
    /\ claims' = claims \cup {[key |-> key, request |-> manifest]}
    /\ manifests' = manifests \cup {manifest}
    /\ UNCHANGED objects

\* What a reader of an artifact checks before it gets the bytes.
Readable(id, content) ==
    /\ content \in objects
    /\ \E m \in manifests : m.id = id /\ m.content = content

ArtifactsInit(original) ==
    /\ objects = {original.content}
    /\ manifests = {original}
    /\ claims = {[key |-> <<"upload">>, request |-> original]}

-----------------------------------------------------------------------------
(* The documents *)

CONSTANTS
    Members,      \* accounts of the team that owns the resource
    Edits,        \* modifications with their reason: a draft is named by them
    Instants,     \* instants a file may be rendered at
    Patches,      \* code drafts
    PatchOf,      \* the patch of a code draft; its reason is not part of it
    Parses,       \* whether parsing the original may succeed, may fail
    Nobody        \* no account

ASSUME DocumentParameters == Parses \subseteq BOOLEAN /\ Nobody \notin Members

VARIABLES
    versions,     \* resource_versions
    drafts,       \* document_change_drafts
    derivative,   \* resource_derivatives: the one row of version 1
    codeDrafts,   \* code_change_drafts
    scratch,      \* the code drafts an account's workspace holds in full
    call          \* the call each member has under way

documentVars == <<versions, drafts, derivative, codeDrafts, scratch, call, artifactVars>>

-----------------------------------------------------------------------------
(* Rows *)

\* Bytes of the document: the edits in them and when they were rendered.
Original == <<"bytes", {}, 0>>

EditsIn(content) == content[2]

Rendered(source, edit, at) == <<"bytes", EditsIn(source) \cup {edit}, at>>

\* The structured content of the original, and the text of a patch.
Parsed == <<"parsed">>

PatchText(d) == <<"patch", PatchOf[d]>>

NoCall == [step |-> "none"]

NoDraft == [status |-> "absent"]

Numbers == {v.number : v \in versions}

VersionOf(n) == CHOOSE v \in versions : v.number = n

\* max(version_number) + 1, read without a lock on the resource.
NextNumber == 1 + CHOOSE n \in Numbers : \A m \in Numbers : m <= n

\* with_for_update on a draft and on the source version of an approval.
LockedDraft(d) == \E p \in Members : call[p].step # "none" /\ call[p].draft = d

LockedSource(n) ==
    \E p \in Members : /\ call[p].step # "none"
                       /\ call[p].kind = "approve"
                       /\ call[p].source = n

DocumentsInit ==
    /\ versions = {}
    /\ drafts = [e \in Edits |-> NoDraft]
    /\ derivative = "none"
    /\ codeDrafts = [d \in Patches |-> NoDraft]
    /\ scratch = [p \in Members |-> {}]
    /\ call = [p \in Members |-> NoCall]
    /\ ArtifactsInit(Manifest(<<"original">>, Original, "uploader"))

-----------------------------------------------------------------------------
(* Document versions and drafts *)

\* ensure_initial_version; a second caller reads the row it finds.
EnsureInitialVersion(p) ==
    /\ call[p] = NoCall
    /\ 1 \notin Numbers
    /\ versions' = versions \cup
           {[number |-> 1, content |-> Original, artifact |-> <<"original">>, parent |-> 0]}
    /\ UNCHANGED <<drafts, derivative, codeDrafts, scratch, call, artifactVars>>

\* The draft is named by resource, modification and reason, not by its source.
CreateChangeDraft(e, n) ==
    /\ n \in Numbers
    /\ drafts[e] = NoDraft
    /\ drafts' = [drafts EXCEPT ![e] = [status |-> "pending", source |-> n, version |-> 0]]
    /\ UNCHANGED <<versions, derivative, codeDrafts, scratch, call, artifactVars>>

RejectChangeDraft(p, e) ==
    /\ call[p] = NoCall
    /\ drafts[e].status = "pending"
    /\ ~LockedDraft(<<"doc", e>>)
    /\ drafts' = [drafts EXCEPT ![e].status = "rejected"]
    /\ UNCHANGED <<versions, derivative, codeDrafts, scratch, call, artifactVars>>

\* (mutation) The edit is applied to the latest version.
HeadInstead(e) == VersionOf(NextNumber - 1)

\* The version the draft was made from, whichever is the latest now.
SourceOf(e) == VersionOf(drafts[e].source)

\* The locks, the number the new version will have, and the rendered bytes.
OpenApproval(p, e, at) ==
    /\ call[p] = NoCall
    /\ drafts[e].status = "pending"
    /\ ~LockedDraft(<<"doc", e>>)
    /\ ~LockedSource(drafts[e].source)
    /\ LET source == SourceOf(e)
       IN  /\ Readable(source.artifact, source.content)
           /\ call' = [call EXCEPT ![p] =
                  [step |-> "rendered", kind |-> "approve", draft |-> <<"doc", e>>,
                   edit |-> e, source |-> drafts[e].source, number |-> NextNumber,
                   content |-> Rendered(source.content, e, at)]]
    /\ UNCHANGED <<versions, drafts, derivative, codeDrafts, scratch, artifactVars>>

\* The idempotency key names the version, the artifact its bytes.
PublicationOf(p) ==
    LET c == call[p]
    IN  CASE c.kind = "approve" -> [key |-> <<"doc", c.number>>, id |-> <<"doc", c.content>>]
          [] c.kind = "parse" -> [key |-> <<"deriv", c.content>>, id |-> <<"doc", c.content>>]
          [] c.kind = "apply" -> [key |-> <<"patch", c.patch>>, id |-> <<"patch", c.content>>]

ManifestOf(p) == Manifest(PublicationOf(p).id, call[p].content, p)

StoreContent(p) ==
    /\ call[p].step = "rendered"
    /\ PutObject(call[p].content)
    /\ call' = [call EXCEPT ![p].step = "stored"]
    /\ UNCHANGED <<versions, drafts, derivative, codeDrafts, scratch>>

\* ArtifactContentService.publish succeeds for a new key and for a replay.
RegisterContent(p) ==
    /\ call[p].step = "stored"
    /\ \/ /\ Registrable(PublicationOf(p).key, ManifestOf(p))
          /\ PersistPublication(PublicationOf(p).key, ManifestOf(p))
       \/ /\ Replayed(PublicationOf(p).key, ManifestOf(p))
          /\ UNCHANGED artifactVars
    /\ call' = [call EXCEPT ![p].step = "registered"]
    /\ UNCHANGED <<versions, drafts, derivative, codeDrafts, scratch>>

\* GovernanceConflictError rolls the caller back.
Refused(p) ==
    \/ KeyReused(PublicationOf(p).key, ManifestOf(p))
    \/ ManifestExists(PublicationOf(p).key, ManifestOf(p))

RefuseContent(p) ==
    /\ call[p].step = "stored"
    /\ Refused(p)
    /\ call' = [call EXCEPT ![p] = NoCall]
    /\ UNCHANGED <<versions, drafts, derivative, codeDrafts, scratch, artifactVars>>

\* The number is unique in resource_versions.
NumberFree(p) == call[p].number \notin Numbers

CommitApproval(p) ==
    /\ call[p].step = "registered"
    /\ call[p].kind = "approve"
    /\ IF NumberFree(p)
       THEN /\ versions' = versions \cup
                   {[number |-> call[p].number, content |-> call[p].content,
                     artifact |-> PublicationOf(p).id, parent |-> call[p].source]}
            /\ drafts' = [drafts EXCEPT ![call[p].edit].status = "approved",
                                        ![call[p].edit].version = call[p].number]
       ELSE UNCHANGED <<versions, drafts>>
    /\ call' = [call EXCEPT ![p] = NoCall]
    /\ UNCHANGED <<derivative, codeDrafts, scratch, artifactVars>>

-----------------------------------------------------------------------------
(* Parsing: the original is parsed, whatever versions there are *)

OpenParse(p) ==
    /\ call[p] = NoCall
    /\ 1 \in Numbers
    /\ TRUE \in Parses
    /\ Readable(<<"original">>, Original)
    /\ call' = [call EXCEPT ![p] =
           [step |-> "rendered", kind |-> "parse", draft |-> <<"none">>,
            content |-> Parsed]]
    /\ UNCHANGED <<versions, drafts, derivative, codeDrafts, scratch, artifactVars>>

\* An existing row is returned as it is.
DerivativeAfter(status) == IF derivative = "none" THEN status ELSE derivative

CommitParse(p) ==
    /\ call[p].step = "registered"
    /\ call[p].kind = "parse"
    /\ derivative' = DerivativeAfter("ready")
    /\ call' = [call EXCEPT ![p] = NoCall]
    /\ UNCHANGED <<versions, drafts, codeDrafts, scratch, artifactVars>>

FailParse(p) ==
    /\ call[p] = NoCall
    /\ 1 \in Numbers
    /\ FALSE \in Parses
    /\ derivative = "none"
    /\ derivative' = DerivativeAfter("failed")
    /\ UNCHANGED <<versions, drafts, codeDrafts, scratch, call, artifactVars>>

-----------------------------------------------------------------------------
(* Code drafts *)

CreateCodeDraft(d) ==
    /\ codeDrafts[d] = NoDraft
    /\ codeDrafts' = [codeDrafts EXCEPT ![d] = [status |-> "pending", by |-> Nobody]]
    /\ UNCHANGED <<versions, drafts, derivative, scratch, call, artifactVars>>

RejectCodeDraft(p, d) ==
    /\ call[p] = NoCall
    /\ codeDrafts[d].status = "pending"
    /\ ~LockedDraft(<<"code", d>>)
    /\ codeDrafts' = [codeDrafts EXCEPT ![d] = [status |-> "rejected", by |-> p]]
    /\ UNCHANGED <<versions, drafts, derivative, scratch, call, artifactVars>>

\* Two drafts may hold one patch under different reasons; the bytes are its own.
OpenApply(p, d) ==
    /\ call[p] = NoCall
    /\ codeDrafts[d].status = "pending"
    /\ ~LockedDraft(<<"code", d>>)
    /\ call' = [call EXCEPT ![p] =
           [step |-> "rendered", kind |-> "apply", draft |-> <<"code", d>>,
            patch |-> d, content |-> PatchText(d)]]
    /\ UNCHANGED <<versions, drafts, derivative, codeDrafts, scratch, artifactVars>>

\* rmtree of what an earlier attempt left, and a fresh directory.
PrepareWorkspace(p) ==
    /\ call[p].step = "registered"
    /\ call[p].kind = "apply"
    /\ scratch' = [scratch EXCEPT ![p] = @ \ {call[p].patch}]
    /\ call' = [call EXCEPT ![p].step = "prepared"]
    /\ UNCHANGED <<versions, drafts, derivative, codeDrafts, artifactVars>>

WriteWorkspaceFiles(p) ==
    /\ call[p].step = "prepared"
    /\ scratch' = [scratch EXCEPT ![p] = @ \cup {call[p].patch}]
    /\ call' = [call EXCEPT ![p].step = "written"]
    /\ UNCHANGED <<versions, drafts, derivative, codeDrafts, artifactVars>>

CommitApply(p) ==
    /\ call[p].step = "written"
    /\ codeDrafts' = [codeDrafts EXCEPT ![call[p].patch] = [status |-> "applied", by |-> p]]
    /\ call' = [call EXCEPT ![p] = NoCall]
    /\ UNCHANGED <<versions, drafts, derivative, scratch, artifactVars>>

\* The process dies or the database gives up: locks and transaction are gone.
AbortCall(p) ==
    /\ call[p] # NoCall
    /\ call' = [call EXCEPT ![p] = NoCall]
    /\ UNCHANGED <<versions, drafts, derivative, codeDrafts, scratch, artifactVars>>

-----------------------------------------------------------------------------

DocumentRoutes ==
    \/ \E p \in Members : EnsureInitialVersion(p) \/ OpenParse(p) \/ FailParse(p)
    \/ \E p \in Members, e \in Edits, at \in Instants : OpenApproval(p, e, at)
    \/ \E p \in Members, e \in Edits : RejectChangeDraft(p, e)
    \/ \E e \in Edits, n \in 1..(1 + Cardinality(Edits)) : CreateChangeDraft(e, n)

CodeRoutes ==
    \/ \E d \in Patches : CreateCodeDraft(d)
    \/ \E p \in Members, d \in Patches : RejectCodeDraft(p, d) \/ OpenApply(p, d)

ContinueCall(p) ==
    \/ StoreContent(p) \/ RegisterContent(p) \/ RefuseContent(p)
    \/ CommitApproval(p) \/ CommitParse(p)
    \/ PrepareWorkspace(p) \/ WriteWorkspaceFiles(p) \/ CommitApply(p) \/ AbortCall(p)

DocumentsNext ==
    \/ DocumentRoutes
    \/ CodeRoutes
    \/ \E p \in Members : ContinueCall(p)

DocumentsSpec == DocumentsInit /\ [][DocumentsNext]_documentVars

-----------------------------------------------------------------------------
(* Properties *)

\* What a committed row refers to can be read: the manifest of every version,
\* of a ready derivative and of an applied patch is registered and its bytes
\* are stored, whatever was cut off, refused or retried before; the scratch
\* copy of an applied code draft is complete.
ReferencesResolve ==
    /\ \A v \in versions : Readable(v.artifact, v.content)
    /\ derivative = "ready" =>
           Readable(<<"doc", Parsed>>, Parsed)
    /\ \A d \in Patches : codeDrafts[d].status = "applied" =>
           /\ Readable(<<"patch", PatchText(d)>>, PatchText(d))
           /\ d \in scratch[codeDrafts[d].by]

\* Versions are numbered without a gap or a repetition; every version after
\* the first is its parent with the edit of exactly one approved draft, and
\* every approved draft has its version, also when two drafts of different
\* source versions are approved at the same time.
VersionsFollowApprovals ==
    /\ Numbers = 1..Cardinality(versions)
    /\ \A v \in versions : v.number > 1 =>
           \E e \in Edits :
               /\ drafts[e].status = "approved"
               /\ drafts[e].version = v.number
               /\ drafts[e].source = v.parent
               /\ EditsIn(v.content) = EditsIn(VersionOf(v.parent).content) \cup {e}
    /\ \A e \in Edits : drafts[e].status = "approved" => drafts[e].version \in Numbers

\* A document can be traced: each version to an approved draft and to the
\* version it was made from, each row to bytes that can be read.
DocumentsAreTraceable == ReferencesResolve /\ VersionsFollowApprovals
=============================================================================
