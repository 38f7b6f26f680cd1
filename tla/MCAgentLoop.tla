----------------------------- MODULE MCAgentLoop -----------------------------
(* Small instances of AgentLoop for TLC.                                    *)
EXTENDS AgentLoop

CONSTANTS s1, s2, f1, f2

OneSteer == {s1}
TwoSteers == {s1, s2}
OneFollowUp == {f1}
TwoFollowUps == {f1, f2}
NoMessages == {}
=============================================================================
