----------------------------- MODULE MCRecords -----------------------------
(***************************************************************************)
(* What is kept about a student besides his case's own papers: documents   *)
(* and who may see them, the roadmap's milestones, events from outside,    *)
(* the papers of a partner, and the e-mails that tell of all this.         *)
(* As in MCOffice, a behaviour stays at one scene, which may keep rows or  *)
(* handlers out of play.                                                   *)
(***************************************************************************)
EXTENDS PortalAccess, Milestones, Webhooks, PartnerDocuments, Notifications

VARIABLE scene

\* Two contacts of two students are one person; a second document would be about
\* the second student.
MCStudent == [c \in Contacts |-> c]
MCOwner   == [f \in Files |-> IF f = CHOOSE g \in Files : TRUE THEN CHOOSE c \in Contacts : TRUE
                              ELSE CHOOSE c \in Contacts : c # CHOOSE d \in Contacts : TRUE]

\* One user uploads, another one is the parent, and a third one sees everything.
Uploader  == CHOOSE u \in Readers \ Globals : TRUE
Parent    == CHOOSE u \in Readers \ Globals : u # Uploader
MCAccount == [c \in Contacts |-> Parent]
MCTeam    == [c \in Contacts |-> {Uploader}]

RecordsInit ==
  /\ scene \in {"versions", "downloads", "oversight", "contacts", "milestones", "circles", "events", "papers", "emails"}
  /\ PortalInit /\ PlanInit /\ WebhookInit /\ PapersInit /\ MailInit

\* Handlers that stay out of a scene.
Without(steps) == \A r \in Slots : serving'[r].step \notin steps
First(S) == {CHOOSE s \in S : TRUE}

\* The parent gets no more than P, and documents are asked for by those in U.
Limited(P) == \A x \in granted' : x[2] = Uploader \/ (x[2] = Parent /\ x[3] \in P)
By(U) ==
  \A r \in Slots : serving'[r].step \in DOMAIN Needed =>
    /\ serving'[r].args[2] \in U
    /\ serving'[r].step = "share" => serving'[r].args[3] = <<Parent, {"DOWNLOAD"}>>
OnlyFirst == \A f \in Files \ First(Files) : documents'[f] = NoDocument

Archive ==
  /\ scene \in {"versions", "downloads", "oversight", "contacts"} /\ PortalNext
  /\ UNCHANGED <<scene, taskRows, milestoneRows, webhookRows, papers, mailVars>>
  /\ scene = "versions" =>
       /\ Limited({"DOWNLOAD"}) /\ By({Uploader}) /\ Without({"download", "download.grant"})
       /\ UNCHANGED contactRows /\ scans' \cap First(Files) = {}
       /\ \A f \in Files \ First(Files) : documents'[f] = NoDocument \/ documents'[f].previous # NoFile
  /\ scene = "downloads" =>
       /\ Limited({"DOWNLOAD"}) /\ By({Uploader, Parent}) /\ OnlyFirst /\ Without({"version", "archive"})
       /\ \A c \in Contacts :
            IF c \in First(Contacts) THEN invitations'[c][2] = "NONE" ELSE contacts'[c] = contacts[c]
  /\ scene = "oversight" =>
       /\ Limited({}) /\ By(Globals) /\ OnlyFirst /\ UNCHANGED contactRows /\ Without({"version", "share"})
  /\ scene = "contacts" =>
       /\ Limited({"VIEW", "DOWNLOAD"}) /\ OnlyFirst
       /\ Without({"scan", "share", "download", "version", "archive"})
       /\ \A c \in Contacts \ First(Contacts) : invitations'[c][2] = "NONE"

Roadmap ==
  /\ scene \in {"milestones", "circles"} /\ PlanNext
  /\ UNCHANGED <<scene, portalRows, webhookRows, papers, mailVars>>
  /\ Without({"task.walk"})
  /\ scene = "milestones" =>
       /\ Without({"task.prerequisites"}) /\ milestones'[CHOOSE m \in Milestones : TRUE] = "ABSENT"
       /\ \A m \in Milestones : milestones'[m] # "BLOCKED"
       /\ \A t \in Tasks : tasks'[t].status # "BLOCKED" /\ (tasks'[t].output => tasks'[t].status = "DONE")
  /\ scene = "circles" =>
       /\ \A t \in Tasks : tasks'[t] = NoTask
       /\ Without({"milestone.write", "milestone.checks"})

Receiver ==
  scene = "events" /\ WebhookNext /\ UNCHANGED <<scene, portalRows, taskRows, milestoneRows, papers, mailVars>>

Partner ==
  scene = "papers" /\ PapersNext /\ UNCHANGED <<scene, portalRows, taskRows, milestoneRows, webhookRows, mailVars>>

Mail ==
  /\ scene = "emails" /\ MailNext
  /\ UNCHANGED <<scene, handlerVars, portalRows, taskRows, milestoneRows, webhookRows, papers>>

RecordsNext == Archive \/ Roadmap \/ Receiver \/ Partner \/ Mail

recordsVars == <<scene, handlerVars, portalRows, taskRows, milestoneRows, webhookRows, papers, mailVars>>

RecordsSpec == RecordsInit /\ [][RecordsNext]_recordsVars
=============================================================================
