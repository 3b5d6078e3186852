----------------------------- MODULE MCMailbox ------------------------------
(***************************************************************************)
(* The mailbox for TLC: folder synchronisation, the subscriptions that     *)
(* announce changes, and the move of an answered message.  They share no   *)
(* state, so one behaviour is about one of them, the focus.                *)
(***************************************************************************)
EXTENDS MailboxSync, GraphSubscriptions, SourceMove

VARIABLE focus

MailboxInit ==
  /\ focus \in {"sync", "subscriptions", "move"}
  /\ SyncInit /\ SubInit /\ MoveInit
  /\ focus # "move" => plan.required

MailboxNext ==
  \/ focus = "sync" /\ SyncNext /\ UNCHANGED <<focus, subVars, moveVars>>
  \/ focus = "subscriptions" /\ SubNext /\ UNCHANGED <<focus, syncVars, moveVars>>
  \/ focus = "move" /\ MoveNext /\ UNCHANGED <<focus, syncVars, subVars>>

\* No fair step is enabled in the initial state, so that the fairness of each part holds of the
\* behaviours that are about another.
MailboxSpec ==
  /\ MailboxInit /\ [][MailboxNext]_<<focus, syncVars, subVars, moveVars>>
  /\ SyncFairness /\ SubFairness /\ MoveFairness

\* What a folder's rows say of the mailbox, in every state: nothing the checkpoint has passed is
\* unknown or stands with the wrong membership, and the remote subscription a row names is its own.
FolderInv == SyncInv /\ SubInv
=============================================================================
