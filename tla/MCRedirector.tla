---------------------------- MODULE MCRedirector ----------------------------
(***************************************************************************)
(* Small instances of Redirector for TLC.                                  *)
(***************************************************************************)
EXTENDS Redirector

\* The members of RuleSets and Endpoints, as model values.
CONSTANTS r1, r2, none, e1, e2

\* Everything at once; everything the code provides for; the same with a
\* registry that takes every write; and with nobody else at the table.
Provided == EventNames \ {"remove", "repoint", "restart", "early"}
SafetyEnvironments ==
  {EventNames, Provided, Provided \ {"install"}, Provided \ {"install", "tamper"}}

\* Other software, a server and a subscription that fail, within one window of
\* the repair budget and over several.
LivenessEnvironments ==
  {{"tamper", "select", "watch"}, {"tamper", "select", "watch", "window"}}
AllEnvironments == SafetyEnvironments \cup LivenessEnvironments

\* What the guardian is there for, where other software, a server and a
\* subscription may fail it: the rule comes back or redirection is given up,
\* the dead server is reported, and the fight within one window ends
\* (redirector.cpp:257-436).
GuardianAttends ==
  events \in LivenessEnvironments => RuleRestored /\ ServerDeathReported /\ FightEnds
=============================================================================
