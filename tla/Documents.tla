----------------------------- MODULE Documents -----------------------------
(***************************************************************************)
(* DocumentsService: documents, who may do what with them, their versions, *)
(* the scan of what was uploaded and the download links.  Files are stored *)
(* once and never overwritten, so that a document stands for its bytes.    *)
(* What only describes a document (title, type) is left out, and so is the *)
(* look-up of a duplicate, which refuses nothing.                          *)
(*                                                                         *)
(* Readers   the users;  Globals   those whose role sees every document    *)
(* Viewers   those whose role opens the documents of partners to them      *)
(***************************************************************************)
EXTENDS Handlers

CONSTANTS Files, Readers, Globals, Viewers, NoFile

ASSUME FilesAssumption == Globals \cup Viewers \subseteq Readers /\ NoFile \notin Files

VARIABLES
  documents,   \* status, scan status, and the version that this one replaces
  granted,     \* document_access: <<document, user, permission>>, unique
  expired,     \* those of these rows whose expiresAt has come
  scans,       \* the documents that have a scan job to come
  links,       \* the download links that were signed: <<document, user>>
  delivered    \* what was served on them

documentRows == <<documents, granted, expired, scans, links, delivered>>
documentVars == <<handlerVars, documentRows>>

Permissions == {"VIEW", "DOWNLOAD", "EDIT", "SHARE"}

NoDocument == [status |-> "ABSENT", scan |-> "PENDING", previous |-> NoFile]
Stored(f)  == documents[f].status # "ABSENT"

Valid(f, u, p) == <<f, u, p>> \in granted \ expired

\* What the actions on a document ask for.
Needed == [share |-> "SHARE", archive |-> "EDIT", version |-> "EDIT", download |-> "DOWNLOAD"]

\* The grants of a document that is replaced, on the one that replaces it.
Carried(f, g) == {<<g, x[2], x[3]>> : x \in {y \in granted : y[1] = f}}

DocumentInit ==
  /\ HandlersInit
  /\ documents = [f \in Files |-> NoDocument]
  /\ granted = {} /\ expired = {} /\ scans = {} /\ links = {} /\ delivered = {}

-----------------------------------------------------------------------------
\* Handler r once it has still to upsert the grants in todo, for document f, and then
\* goes on to next.
Granting(r, f, todo, next) ==
  IF todo = {} /\ next = "idle" THEN Idle
  ELSE [serving[r] EXCEPT !.step = IF todo = {} THEN next ELSE "document.grant", !.args = <<f, todo, next>>]

\* upload(): the row; the uploader's grants and the scan job follow.
Upload(r, f, u) ==
  /\ IsIdle(r) /\ ~Stored(f)
  /\ documents' = [documents EXCEPT ![f].status = "DRAFT"]
  /\ Put(r, {f}, Granting(r, f, {f} \X {u} \X Permissions, "document.enqueue"))
  /\ UNCHANGED <<granted, expired, scans, links, delivered>>

\* grant(): one upsert for each permission, in some fixed order.  A row that is there
\* stays as it is, expired if it is.
Grant(r) ==
  LET g == CHOOSE x \in Args(r)[2] : TRUE
  IN  /\ At(r, "document.grant")
      /\ granted' = granted \cup {g}
      /\ Write(r, {g} \ granted, Granting(r, Args(r)[1], Args(r)[2] \ {g}, Args(r)[3]))
      /\ UNCHANGED <<documents, expired, scans, links, delivered>>

\* Only the request that creates a document enqueues its scan.
RequestScan(r) ==
  /\ At(r, "document.enqueue")
  /\ scans' = scans \cup {Args(r)[1]}
  /\ Write(r, {}, Idle)
  /\ UNCHANGED <<documents, granted, expired, links, delivered>>

-----------------------------------------------------------------------------
\* assertAccessible(), which comes before everything else.
Check(r, u, op, f, with) ==
  /\ IsIdle(r) /\ Stored(f)
  /\ u \in Globals \/ Valid(f, u, Needed[op])
  /\ Continue(r, op, <<f, u, with>>, IF u \in Globals THEN {} ELSE {<<f, u, Needed[op]>>})
  /\ UNCHANGED documentRows

\* share(): with is the user and the permissions to give.
Share(r) ==
  LET f == Args(r)[1]  with == Args(r)[3]
  IN  /\ At(r, "share")
      /\ serving' = [serving EXCEPT ![r] = Granting(r, f, {f} \X {with[1]} \X with[2], "idle")]
      /\ UNCHANGED <<undisturbed, documentRows>>

\* grantRoleAccess(), for a document that became a partner's.
RoleAccess(r, f) ==
  /\ IsIdle(r) /\ Stored(f) /\ Viewers # {}
  /\ Continue(r, "document.grant", <<f, {f} \X Viewers \X {"VIEW", "DOWNLOAD"}, "idle">>, {})
  /\ UNCHANGED documentRows

\* archive(): a document that is archived is left as it is.
ArchiveRead(r) ==
  /\ At(r, "archive")
  /\ IF documents[Args(r)[1]].status = "ARCHIVED" THEN Return(r)
     ELSE Continue(r, "document.archive", Args(r), {Args(r)[1]})
  /\ UNCHANGED documentRows

ArchiveWrite(r) ==
  /\ At(r, "document.archive")
  /\ documents' = [documents EXCEPT ![Args(r)[1]].status = "ARCHIVED"]
  /\ Write(r, {Args(r)[1]}, Idle)
  /\ UNCHANGED <<granted, expired, scans, links, delivered>>

\* createVersion(): with is the new document.
VersionOf(r) ==
  /\ At(r, "version") /\ documents[Args(r)[1]].status # "ARCHIVED"
  /\ Continue(r, "version.create", Args(r), {Args(r)[1]})
  /\ UNCHANGED documentRows

\* previousVersionId is unique: a second successor is refused.
VersionCreate(r) ==
  LET f == Args(r)[1]  g == Args(r)[3]
  IN  /\ At(r, "version.create") /\ ~Stored(g)
      /\ \A h \in Files : documents[h].previous # f
      /\ documents' = [documents EXCEPT ![g] = [NoDocument EXCEPT !.status = "DRAFT", !.previous = f]]
      /\ Write(r, {g}, [serving[r] EXCEPT !.step = "version.grants"])
      /\ UNCHANGED <<granted, expired, scans, links, delivered>>

\* Faulty: the scan is enqueued first, and the grants are left for later.
VersionGrantsLater(r) ==
  LET f == Args(r)[1]  g == Args(r)[3]
  IN  /\ At(r, "version.grants")
      /\ scans' = scans \cup {g}
      /\ serving' = [serving EXCEPT ![r] = Granting(r, g, Carried(f, g), "idle")]
      /\ UNCHANGED <<undisturbed, documents, granted, expired, links, delivered>>

\* The grants of the document that is replaced, valid and expired ones; they are
\* copied one by one, as grants that do not expire, and the scan job follows.
VersionGrants(r) ==
  LET f == Args(r)[1]  g == Args(r)[3]
      next == Granting(r, g, Carried(f, g), "document.enqueue")
  IN  /\ At(r, "version.grants")
      /\ Continue(r, next.step, next.args, {f} \X Readers \X Permissions)
      /\ UNCHANGED documentRows

-----------------------------------------------------------------------------
\* The processor of DOCUMENT_SCAN: the bytes are read and scanned, the verdict is
\* written.  Runs of one job may overlap.
ScanStart(r, f) ==
  /\ IsIdle(r) /\ f \in scans
  /\ Continue(r, "scan", <<f>>, {})
  /\ UNCHANGED documentRows

ScanResult(r, verdict) ==
  LET f == Args(r)[1]
  IN  /\ At(r, "scan")
      /\ documents' = [documents EXCEPT ![f].scan = verdict]
      /\ scans' = scans \ {f}
      /\ Write(r, {f}, Idle)
      /\ UNCHANGED <<granted, expired, links, delivered>>

\* The storage fails until the attempts of the job are used up.
ScanGivenUp(r) ==
  /\ At(r, "scan")
  /\ scans' = scans \ {Args(r)[1]}
  /\ Return(r)
  /\ UNCHANGED <<documents, granted, expired, links, delivered>>

-----------------------------------------------------------------------------
\* requestDownload(): a link for a document that was found clean.
SignLink(r) ==
  LET f == Args(r)[1]
  IN  /\ At(r, "download") /\ documents[f].scan = "CLEAN"
      /\ links' = links \cup {<<f, Args(r)[2]>>}
      /\ Return(r)
      /\ UNCHANGED <<documents, granted, expired, scans, delivered>>

\* downloadByToken(): the document once more.
FollowLink(r, f, u) ==
  /\ IsIdle(r) /\ <<f, u>> \in links /\ documents[f].scan = "CLEAN"
  /\ Continue(r, "download.grant", <<f, u>>, {f})
  /\ UNCHANGED documentRows

\* Faulty: the link alone is enough.
LinkGrantTrusted(r) ==
  /\ At(r, "download.grant")
  /\ Continue(r, "download.read", Args(r), {<<Args(r)[1], Args(r)[2], "DOWNLOAD">>})
  /\ UNCHANGED documentRows

\* The grant once more, unless the user's role sees every document.
LinkGrant(r) ==
  LET f == Args(r)[1]  u == Args(r)[2]
  IN  /\ At(r, "download.grant")
      /\ u \in Globals \/ Valid(f, u, "DOWNLOAD")
      /\ Continue(r, "download.read", <<f, u>>, IF u \in Globals THEN {} ELSE {<<f, u, "DOWNLOAD">>})
      /\ UNCHANGED documentRows

\* The bytes are read from the storage and sent.
Deliver(r) ==
  /\ At(r, "download.read")
  /\ delivered' = delivered \cup {Args(r)}
  /\ Write(r, {}, Idle)
  /\ UNCHANGED <<documents, granted, expired, scans, links>>

DocumentNext ==
  \E r \in Slots :
    \/ \E f \in Files, u \in Readers :
         \/ Upload(r, f, u) \/ FollowLink(r, f, u)
         \/ \E op \in {"archive", "download"} : Check(r, u, op, f, NoFile)
         \/ \E g \in Files : Check(r, u, "version", f, g)
         \/ \E v \in Readers, P \in (SUBSET {"VIEW", "DOWNLOAD"}) \ {{}} : Check(r, u, "share", f, <<v, P>>)
    \/ Share(r) \/ Grant(r) \/ ArchiveRead(r) \/ ArchiveWrite(r)
    \/ VersionOf(r) \/ VersionCreate(r) \/ VersionGrants(r) \/ RequestScan(r)
    \/ \E f \in Files : RoleAccess(r, f) \/ ScanStart(r, f)
    \/ \E verdict \in {"CLEAN", "INFECTED"} : ScanResult(r, verdict)
    \/ ScanGivenUp(r)
    \/ SignLink(r) \/ LinkGrant(r) \/ Deliver(r)
    \/ Dies(r) /\ UNCHANGED documentRows

DocumentSpec == DocumentInit /\ [][DocumentNext]_documentVars

-----------------------------------------------------------------------------
\* A new version can be scanned, and so downloaded, only when whoever may still do
\* something with the document it replaces was granted the same with it, unless these
\* grants changed while they were copied.  Of expired ones nothing is said: the code
\* copies them too.  (A request that ends before leaves a version that stays unscanned.)
VersionsKeepAccess ==
  [][undisturbed' =>
       \A g \in scans' \ scans : documents[g].previous # NoFile =>
         \A u \in Readers, p \in Permissions :
           Valid(documents[g].previous, u, p) => <<g, u, p>> \in granted]_documentVars

\* A link that was handed out ends with what it was handed out for: a file is served only
\* if it is clean and the user still has the grant, unless one of the two changed under
\* the very request that serves it.
DownloadsAreCurrent ==
  [][undisturbed' =>
       \A x \in delivered' \ delivered :
         documents[x[1]].scan = "CLEAN" /\ (x[2] \in Globals \/ Valid(x[1], x[2], "DOWNLOAD"))]_documentVars
=============================================================================
