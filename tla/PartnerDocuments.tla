-------------------------- MODULE PartnerDocuments --------------------------
(***************************************************************************)
(* PartnerDocumentsService: the versions of one type of paper that one     *)
(* partner has.  Dates and owner are left out, but for the fact that they, *)
(* and the file, may be edited; the viewers' grants on the file are        *)
(* RoleAccess of Documents.                                                *)
(***************************************************************************)
EXTENDS Handlers, FiniteSets, Naturals

CONSTANT Papers

VARIABLE papers   \* status, version number, and whether it has been edited

paperVars == <<handlerVars, papers>>

NoPaper  == [status |-> "ABSENT", version |-> 0, edited |-> FALSE]
Known    == {p \in Papers : papers[p].status # "ABSENT"}
InForce  == {p \in Papers : papers[p].status = "ACTIVE"}

PapersInit == HandlersInit /\ papers = [p \in Papers |-> NoPaper]

\* An update by id, with the rows that the queries for the versions, or for the paper in
\* force, depend on.
SetPaper(r, p, row) ==
  /\ papers' = [papers EXCEPT ![p] = row]
  /\ Write(r, {p} \cup (IF papers[p].status = "ABSENT" THEN {"versions"} ELSE {}), Idle)

\* create(): the latest version, and the next one.  Nothing is ever removed, so the
\* number of versions is the latest number.
PaperCreateRead(r) ==
  /\ IsIdle(r)
  /\ Continue(r, "paper.create", <<Cardinality(Known) + 1>>, {"versions"})
  /\ UNCHANGED papers

\* (partner, type, version) is unique.
PaperCreate(r, p) ==
  LET n == Args(r)[1]
  IN  /\ At(r, "paper.create") /\ p \notin Known /\ \A q \in Known : papers[q].version # n
      /\ SetPaper(r, p, [status |-> "DRAFT", version |-> n, edited |-> FALSE])

\* update() and activate() are for drafts, archive() for all but archived papers.
PaperRead(r, p, step) ==
  /\ IsIdle(r) /\ p \in Known
  /\ IF step = "paper.archive" THEN papers[p].status # "ARCHIVED" ELSE papers[p].status = "DRAFT"
  /\ Continue(r, step, <<p>>, {p})
  /\ UNCHANGED papers

PaperUpdate(r) ==
  LET p == Args(r)[1]
  IN  At(r, "paper.update") /\ SetPaper(r, p, [papers[p] EXCEPT !.edited = TRUE])

PaperArchive(r) ==
  LET p == Args(r)[1]
  IN  At(r, "paper.archive") /\ SetPaper(r, p, [papers[p] EXCEPT !.status = "ARCHIVED"])

\* Faulty: the paper in force is left as it is.
SupersedeNone(r) ==
  /\ At(r, "paper.supersede")
  /\ Continue(r, "paper.activate", <<Args(r)[1], {}>>, {"in force"})
  /\ UNCHANGED papers

\* The $transaction of activate(): a first statement finds the paper in force, ...
Supersede(r) ==
  /\ At(r, "paper.supersede")
  /\ Continue(r, "paper.activate", <<Args(r)[1], InForce>>, {"in force"})
  /\ UNCHANGED papers

\* ... and what the two statements write appears with the commit.  A paper that has left
\* force in between is not touched.
Activate(r) ==
  LET p == Args(r)[1]
      old == (Args(r)[2] \cap InForce) \ {p}
  IN  /\ At(r, "paper.activate")
      /\ papers' = [q \in Papers |-> CASE q = p -> [papers[q] EXCEPT !.status = "ACTIVE"]
                                       [] q \in old -> [papers[q] EXCEPT !.status = "SUPERSEDED"]
                                       [] OTHER -> papers[q]]
      /\ Write(r, {p, "in force"} \cup old, Idle)

\* The sweep of listForPartner(): one statement, for all papers whose date has come.
SweepPapers(r, S) ==
  /\ IsIdle(r) /\ S # {} /\ S \subseteq InForce
  /\ papers' = [p \in Papers |-> IF p \in S THEN [papers[p] EXCEPT !.status = "EXPIRED"] ELSE papers[p]]
  /\ Put(r, S, Idle)

\* That of getById(): a look-up and an update by id.
SyncRead(r, p) ==
  /\ IsIdle(r) /\ p \in InForce
  /\ Continue(r, "paper.expire", <<p>>, {p})
  /\ UNCHANGED papers

SyncWrite(r) ==
  LET p == Args(r)[1]
  IN  At(r, "paper.expire") /\ SetPaper(r, p, [papers[p] EXCEPT !.status = "EXPIRED"])

PapersNext ==
  \E r \in Slots :
    \/ PaperCreateRead(r) \/ PaperUpdate(r) \/ PaperArchive(r)
    \/ Supersede(r) \/ Activate(r) \/ SyncWrite(r)
    \/ \E p \in Papers :
         \/ PaperCreate(r, p) \/ SyncRead(r, p)
         \/ \E step \in {"paper.update", "paper.supersede", "paper.archive"} : PaperRead(r, p, step)
    \/ \E S \in SUBSET Papers : SweepPapers(r, S)
    \/ Dies(r) /\ UNCHANGED papers

PapersSpec == PapersInit /\ [][PapersNext]_paperVars

-----------------------------------------------------------------------------
\* One paper is in force at most, it is the one that was activated last, what is in force
\* or has been is never edited nor put in force again, and no two versions have one number.
\* All but the last hold unless what a handler looked at changed before it wrote.
PapersHold ==
  [][/\ \A p, q \in Known' : papers'[p].version = papers'[q].version => p = q
     /\ undisturbed' =>
          /\ Cardinality(InForce') <= 1
          /\ \A p \in Known :
               /\ papers[p].status # "DRAFT" =>
                    papers'[p].edited = papers[p].edited /\ papers'[p].status \notin {"ACTIVE", "DRAFT"} \ {papers[p].status}
               /\ papers[p].status = "ARCHIVED" => papers'[p] = papers[p]]_paperVars

\* partner-documents.service.ts: activate() supersedes what was in force "atomically — at
\* most one ACTIVE row per (partner, document type) at a time".
OneInForce == Cardinality(InForce) <= 1
=============================================================================
