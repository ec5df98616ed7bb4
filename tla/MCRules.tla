------------------------------- MODULE MCRules -------------------------------
(***************************************************************************)
(* Access, the wire to the mail provider, DMARC reports and the door for   *)
(* inbound mail, which share no state here: each behaviour runs one of     *)
(* them, named by part, with the others at rest in one of their initial    *)
(* states.                                                                 *)
(***************************************************************************)
EXTENDS Access, Transports, Dmarc, Intake, TLC

VARIABLE part

vars == <<part, accessVars, transportVars, dmarcVars, intakeVars>>

Init == /\ part \in {"access", "wire", "dmarc", "door"}
        /\ IF part = "access" THEN TRUE ELSE owner = [b \in Box |-> Nobody]
        /\ IF part = "wire" THEN TRUE ELSE setup = CHOOSE e \in Environments : TRUE
        /\ IF part = "dmarc" THEN TRUE
           ELSE /\ content = [r \in Report |-> CHOOSE c \in Contents : TRUE]
                /\ mail = CHOOSE m \in ReportMails : TRUE
        /\ IF part = "door" THEN IntakeInit
           ELSE email = Plain /\ policy = [label |-> 50, reject |-> 90] /\ stored = {}
        /\ AccessInit /\ TransportInit /\ DmarcInit

Calling == part = "access" /\ AccessNext /\ UNCHANGED <<part, transportVars, dmarcVars, intakeVars>>
Wiring == part = "wire" /\ TransportNext /\ UNCHANGED <<part, accessVars, dmarcVars, intakeVars>>
Reporting == part = "dmarc" /\ DmarcNext /\ UNCHANGED <<part, accessVars, transportVars, intakeVars>>
Arriving == part = "door" /\ IntakeNext /\ UNCHANGED <<part, accessVars, transportVars, dmarcVars>>

Next == Calling \/ Wiring \/ Reporting \/ Arriving

Spec == Init /\ [][Next]_vars

\* SPAM_LABEL_THRESHOLD and SPAM_REJECT_THRESHOLD: the defaults, and never rejecting.
DefaultThresholds == {<<50, 90>>, <<10, 0>>}

\* The operator made the org and the others joined it; or there is none yet.
OrgOfOperator == {[a \in Owner |-> IF a = OperatorAccount THEN "admin" ELSE "member"]}
NoOrg == {[a \in Owner |-> "none"]}

Symmetry == Permutations(Client) \cup Permutations(Receiver)
=============================================================================
