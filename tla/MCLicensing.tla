---------------------------- MODULE MCLicensing -----------------------------
(***************************************************************************)
(* Licensing records for TLC: the licence inventory and its import,        *)
(* requirement evaluation, a compliance case, its document packets and     *)
(* form, the document catalogue behind them, and the governance of the     *)
(* portals it is filed through.  They share no state, so one behaviour is  *)
(* about one of them, the focus; the initial states with the focus         *)
(* "evaluator" enumerate what is asked of the requirement evaluator.       *)
(***************************************************************************)
EXTENDS LicenseInventory, Requirements, ComplianceCase, Packets, FormPreparation, DocumentCatalog,
        PortalGovernance

VARIABLES
  focus,
  question   \* two rules and what is known of the facts

\* Two documents of one type, the one named first the more recent.
TwoBonds == {"b1", "b2"}
BondFacts ==
  [d \in TwoBonds |-> [type |-> "bond", entity |-> "ours", jurisdiction |-> "-",
                       confidentiality |-> "INTERNAL", reuse |-> TRUE, effective |-> IF d = "b1" THEN 2 ELSE 1]]
BondChecklist ==
  [bond |-> [type |-> "bond", required |-> TRUE, strategy |-> "LATEST_APPROVED",
             maxConfidentiality |-> "RESTRICTED", reuse |-> FALSE]]

\* A field to fill in and one to sign.
TwoFields ==
  [name |-> [type |-> "TEXT", required |-> TRUE], sig |-> [type |-> "SIGNATURE", required |-> TRUE]]

\* Every rule on one or two facts, cited or not.
SmallRules ==
  [cond : [key : {"all", "any", "none"}, over : {{"f"}, {"f", "g"}}],
   outcome : {"LIKELY_REQUIRED", "LIKELY_NOT_REQUIRED"}, at : {"any", "j1"}, priority : {100},
   from : {0}, to : {9}, counsel : {FALSE},
   cites : {{}, {[fresh |-> "FRESH", level |-> "OFFICIAL_PRIMARY"]}}]

\* The rules ask about facts of the profile.
ASSUME QuestionFacts == {"f", "g"} \subseteq Facts

LicensingInit ==
  /\ focus \in {"inventory", "requirements", "case", "packets", "form", "documents", "governance",
               "evaluator"}
  /\ question \in IF focus = "evaluator"
                  THEN [rules : {{r, s} : r, s \in SmallRules}, known : [Facts -> Truths]]
                  ELSE {[rules |-> {}, known |-> [x \in Facts |-> "U"]]}
  /\ LicInit /\ ReqInit /\ CaseInit /\ PacketInit /\ FormInit /\ CatalogInit /\ GovInit
  /\ focus # "governance" => portal.level = "PREPARE_ONLY"
  /\ focus # "requirements" => ruleSet.outcome = "LIKELY_REQUIRED"

LicensingNext ==
  \/ /\ focus = "inventory" /\ LicNext
     /\ UNCHANGED <<focus, question, reqVars, caseVars, packetVars, formVars, docVars, govVars>>
  \/ /\ focus = "requirements" /\ ReqNext
     /\ UNCHANGED <<focus, question, licVars, caseVars, packetVars, formVars, docVars, govVars>>
  \/ /\ focus = "case" /\ CaseNext
     /\ UNCHANGED <<focus, question, licVars, reqVars, packetVars, formVars, docVars, govVars>>
  \/ /\ focus = "packets" /\ PacketNext
     /\ UNCHANGED <<focus, question, licVars, reqVars, caseVars, formVars, docVars, govVars>>
  \/ /\ focus = "form" /\ FormNext
     /\ UNCHANGED <<focus, question, licVars, reqVars, caseVars, packetVars, docVars, govVars>>
  \/ /\ focus = "documents" /\ CatalogNext
     /\ UNCHANGED <<focus, question, licVars, reqVars, caseVars, packetVars, formVars, govVars>>
  \/ /\ focus = "governance" /\ GovNext
     /\ UNCHANGED <<focus, question, licVars, reqVars, caseVars, packetVars, formVars, docVars>>

LicensingSpec ==
  /\ LicensingInit
  /\ [][LicensingNext]_<<focus, question, licVars, reqVars, caseVars, packetVars, formVars, docVars, govVars>>

\* What a filing rests on, in every state: a case completed only on renewed evidence, forms that
\* hold entitled values and leave signed, and reviews and adapters of portals in order.
FilingInv == CaseInv /\ FormInv /\ GovTypeOK

\* What is filed or reused, in every state: archives hold the bytes their approved manifest pins,
\* and the catalogue misses no file that the reconciliation has passed.
DocumentsInv == PacketInv /\ CatalogInv

\* Signatures bind: the fields of a form approved for signature never change, and no case goes on
\* to submission with a form unsigned, unless that form came after the check of a slow request.
SignaturesBind == FrozenFieldsKeep /\ SubmissionIsSigned

\* Learning a missing fact never turns a "not required" into anything else: the evaluator gives
\* that answer only where no rule in force still waits for a fact.
NotRequiredSurvivesFacts == SurvivesFacts(question.rules, question.known)
=============================================================================
