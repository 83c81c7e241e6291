---------------------------- MODULE PortalAccess ----------------------------
(***************************************************************************)
(* PortalAccessService: the contacts of a student who are invited to the   *)
(* portal, accept, and lose their access again, over the documents that    *)
(* grantCaseAccess() opens to them.                                        *)
(*                                                                         *)
(* Student     the student a contact belongs to                            *)
(* Account     the user with the contact's e-mail address, who is found or *)
(*             created when the contact accepts                            *)
(* Owner       the student a document is about                             *)
(* Team        the members of a student's case, and his own portal user    *)
(* MaxInvitations   how many invitations a contact gets in the model       *)
(***************************************************************************)
EXTENDS Documents, Naturals

CONSTANTS Contacts, Student, Account, Owner, Team, MaxInvitations

ASSUME TeamAssumption ==
  /\ \A c \in Contacts : Account[c] \in Readers
  /\ \A f \in Files : Team[Owner[f]] \subseteq Readers

VARIABLES
  contacts,      \* portal status, and whether the contact is linked to its user
  invitations    \* [contact, number -> NONE, OPEN or USED]

contactRows == <<contacts, invitations>>
portalRows  == <<documentRows, contactRows>>
portalVars  == <<handlerVars, portalRows>>

Numbers == 1..MaxInvitations

PortalInit ==
  /\ DocumentInit
  /\ contacts = [c \in Contacts |-> [status |-> "NONE", linked |-> FALSE]]
  /\ invitations = [c \in Contacts |-> [i \in Numbers |-> "NONE"]]

InviteRead(r, c) ==
  /\ IsIdle(r) /\ contacts[c].status # "ACTIVE"
  /\ Continue(r, "invite.commit", <<c>>, {c})
  /\ UNCHANGED portalRows

\* One $transaction: always a new invitation, the earlier ones stay open.
InviteCommit(r) ==
  LET c == Args(r)[1]
  IN  /\ At(r, "invite.commit")
      /\ \E i \in Numbers :
           /\ \A j \in Numbers : invitations[c][j] = "NONE" <=> j >= i
           /\ invitations' = [invitations EXCEPT ![c][i] = "OPEN"]
      /\ contacts' = [contacts EXCEPT ![c].status = "INVITED"]
      /\ Write(r, {c}, Idle)
      /\ UNCHANGED documentRows

\* acceptInvitation(): an invitation that is neither used nor expired (an open one may
\* be past its date whenever it is not accepted), and the user.
AcceptRead(r, c, i) ==
  /\ IsIdle(r) /\ invitations[c][i] = "OPEN"
  /\ Continue(r, "accept.commit", <<c, i>>, {c})
  /\ UNCHANGED portalRows

AcceptCommit(r) ==
  LET c == Args(r)[1]
  IN  /\ At(r, "accept.commit")
      /\ invitations' = [invitations EXCEPT ![c][Args(r)[2]] = "USED"]
      /\ contacts' = [contacts EXCEPT ![c] = [status |-> "ACTIVE", linked |-> TRUE]]
      /\ Write(r, {c}, Idle)
      /\ UNCHANGED documentRows

RevokeRead(r, c) ==
  /\ IsIdle(r) /\ contacts[c].status = "ACTIVE"
  /\ Continue(r, "revoke.commit", <<c>>, {c})
  /\ UNCHANGED portalRows

\* Faulty: the link is revoked and the grants stay.
RevokeLinkOnly(r) ==
  /\ At(r, "revoke.commit")
  /\ contacts' = [contacts EXCEPT ![Args(r)[1]].status = "REVOKED"]
  /\ Write(r, {Args(r)[1]}, Idle)
  /\ UNCHANGED <<invitations, documentRows>>

\* One $transaction: all the user's grants, whatever student they are about, and the link.
RevokeCommit(r) ==
  LET c == Args(r)[1]
      cut == {x \in granted \ expired : x[2] = Account[c]}
  IN  /\ At(r, "revoke.commit")
      /\ expired' = expired \cup cut
      /\ contacts' = [contacts EXCEPT ![c].status = "REVOKED"]
      /\ Write(r, {c} \cup cut, Idle)
      /\ UNCHANGED <<documents, granted, scans, links, delivered, invitations>>

\* grantCaseAccess(), for evidence that was recorded with a document: the team, some of
\* whom may only view it, and every contact that is linked to a user.
CaseAccess(r, f, viewOnly) ==
  LET linked == {c \in Contacts : Student[c] = Owner[f] /\ contacts[c].linked}
      todo == {f} \X (Team[Owner[f]] \ viewOnly) \X {"VIEW", "DOWNLOAD"}
              \cup {f} \X viewOnly \X {"VIEW"}
              \cup {f} \X ({Account[c] : c \in linked} \ Team[Owner[f]]) \X {"VIEW", "DOWNLOAD"}
  IN  /\ IsIdle(r) /\ Stored(f) /\ viewOnly \subseteq Team[Owner[f]] /\ todo # {}
      /\ Continue(r, "document.grant", <<f, todo, "idle">>, {c \in Contacts : Student[c] = Owner[f]})
      /\ UNCHANGED portalRows

PortalNext ==
  \/ DocumentNext /\ UNCHANGED contactRows
  \/ \E r \in Slots :
       \/ \E c \in Contacts : InviteRead(r, c) \/ RevokeRead(r, c)
       \/ \E c \in Contacts, i \in Numbers : AcceptRead(r, c, i)
       \/ InviteCommit(r) \/ AcceptCommit(r) \/ RevokeCommit(r)
       \/ \E f \in Files, viewOnly \in SUBSET Readers : CaseAccess(r, f, viewOnly)

PortalSpec == PortalInit /\ [][PortalNext]_portalVars

-----------------------------------------------------------------------------
\* Unless a request about the contact overlaps another one, an active link ends in no
\* other way than by being revoked, and then nothing its user was given is left; and
\* whoever is invited has an invitation to accept, whatever the order of these steps.
LinksStand ==
  [][/\ \A c \in Contacts : contacts'[c].status = "INVITED" => \E i \in Numbers : invitations'[c][i] = "OPEN"
     /\ undisturbed' =>
          \A c \in Contacts : contacts[c].status = "ACTIVE" /\ contacts'[c].status # "ACTIVE" =>
            /\ contacts'[c].status = "REVOKED"
            /\ \A x \in granted' : x[2] = Account[c] => x \in expired']_portalVars
=============================================================================
