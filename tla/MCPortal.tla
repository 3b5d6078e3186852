------------------------------ MODULE MCPortal ------------------------------
(***************************************************************************)
(* Portal assistance for TLC: the browser session with its jobs, and the   *)
(* submission of one portal run.  They share no state, so one behaviour is *)
(* about one of them, the focus.                                           *)
(***************************************************************************)
EXTENDS PortalSession, PortalRun

VARIABLE focus

PortalMCInit ==
  /\ focus \in {"session", "run"}
  /\ SessionInit /\ PortalInit

PortalMCNext ==
  \/ focus = "session" /\ SessionNext /\ UNCHANGED <<focus, portalVars>>
  \/ focus = "run" /\ PortalNext /\ UNCHANGED <<focus, sessionVars>>

\* No fair step is enabled before a session exists.
PortalMCSpec ==
  /\ PortalMCInit /\ [][PortalMCNext]_<<focus, sessionVars, portalVars>>
  /\ SessionFairness

\* The invariant of a portal run and its sessions: a filing is recorded once, together with the
\* advance of its case.
PortalInv == SessionTypeOK /\ PortalTypeOK /\ SubmittedOnce
=============================================================================
