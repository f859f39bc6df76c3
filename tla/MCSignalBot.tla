---------------------------- MODULE MCSignalBot ----------------------------
(***************************************************************************)
(* SignalBot for TLC, in both of its configurations.  config.paper_trading *)
(* never changes while the bot runs, so each behaviour has one of the two  *)
(* values; it is chosen in the initial state and the step of the other     *)
(* configuration never happens.  SignalBot's own properties do not mention *)
(* the configuration and are checked of both.                              *)
(***************************************************************************)
EXTENDS SignalBot

VARIABLE paper  \* config.paper_trading of this behaviour

Paper == INSTANCE SignalBot WITH PaperTrading <- TRUE
Live == INSTANCE SignalBot WITH PaperTrading <- FALSE

allVars == <<paper, state, failures, successes, probes, cooling, phase, task, pushed,
             killed, trading, connected, adapters, healthy, losses, wins>>

MCInit == Init /\ paper \in BOOLEAN

PaperStep == paper /\ Paper!Next /\ UNCHANGED paper
LiveStep == ~paper /\ Live!Next /\ UNCHANGED paper

MCNext == PaperStep \/ LiveStep

MCSpec ==
    /\ MCInit /\ [][MCNext]_allVars
    /\ \A s \in Symbols : WF_allVars(paper /\ UNCHANGED paper /\ Paper!TaskStep(s))
    /\ \A s \in Symbols : WF_allVars(~paper /\ UNCHANGED paper /\ Live!TaskStep(s))
    /\ WF_allVars(UNCHANGED paper /\ WakeUp)
    /\ WF_allVars(UNCHANGED paper /\ \E S \in SUBSET Symbols : StartTasks(S))
    /\ WF_allVars(UNCHANGED paper /\ WaveDone)
    /\ WF_allVars(UNCHANGED paper /\ PollStatus)
    /\ WF_allVars(UNCHANGED paper /\ CooldownElapses)
=============================================================================
