------------------------------- MODULE MCMail -------------------------------
(***************************************************************************)
(* One message for TLC: its way from discovery to a task, the reply draft  *)
(* in Outlook, and the draft's attachments.  They share no state, so one   *)
(* behaviour is about one of them, the focus.                              *)
(***************************************************************************)
EXTENDS EmailIntake, GraphDraft, DraftAttachments

VARIABLE focus

MailInit ==
  /\ focus \in {"intake", "draft", "attachments"}
  /\ IntakeInit /\ DraftInit /\ AttInit

MailNext ==
  \/ focus = "intake" /\ IntakeNext /\ UNCHANGED <<focus, draftVars, attVars>>
  \/ focus = "draft" /\ DraftNext /\ UNCHANGED <<focus, intakeVars, attVars>>
  \/ focus = "attachments" /\ AttNext /\ UNCHANGED <<focus, intakeVars, draftVars>>

\* No fair step is enabled before the message is discovered.
MailSpec ==
  /\ MailInit /\ [][MailNext]_<<focus, intakeVars, draftVars, attVars>>
  /\ IntakeFairness

\* What the reply draft and its attachments keep in every state: no second copy of a file in
\* Graph, and none missing of a send that is queued.
ReplyInv == DraftTypeOK /\ AttachmentsInv
=============================================================================
