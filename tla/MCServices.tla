----------------------------- MODULE MCServices -----------------------------
(***************************************************************************)
(* The services around the mailbox, which share no table: each behaviour   *)
(* runs one of them, named by part, with the others at rest.               *)
(***************************************************************************)
EXTENDS LongPoll, Webhooks, SendGate, Labels

VARIABLE part

vars == <<part, pollVars, hookVars, gateVars, labelVars>>

Init == /\ part \in {"poll", "hooks", "gate", "labels"}
        /\ PollInit /\ HookInit /\ GateInit /\ LabelInit
        /\ part # "hooks" => due = {<<m, "message.sent">> : m \in Report}
        /\ part # "labels" => tags = [m \in Letter |-> {}]

Polling == part = "poll" /\ PollNext /\ UNCHANGED <<part, hookVars, gateVars, labelVars>>
Hooking == part = "hooks" /\ HookNext /\ UNCHANGED <<part, pollVars, gateVars, labelVars>>
Gating == part = "gate" /\ GateNext /\ UNCHANGED <<part, pollVars, hookVars, labelVars>>
Labelling == part = "labels" /\ LabelNext /\ UNCHANGED <<part, pollVars, hookVars, gateVars>>

Next == Polling \/ Hooking \/ Gating \/ Labelling

\* The clock runs, timers fire and D1 answers; the queue hands out its jobs.
Fairness ==
    /\ WF_vars(Polling /\ clock' # clock)
    /\ \A c \in Client : WF_vars(Polling /\ WaitStep(c))
    /\ WF_vars(Hooking /\ Consume)

Spec == Init /\ [][Next]_vars /\ Fairness
=============================================================================
