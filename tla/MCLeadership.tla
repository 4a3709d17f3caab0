---------------------------- MODULE MCLeadership ----------------------------
(***************************************************************************)
(* Small instances of Tasks, TaskFields and PositionWizard for TLC.  Each  *)
(* behaviour exercises one of them, the others stand still.                *)
(***************************************************************************)
EXTENDS MCTasks, MCPositionWizard

LeadershipInit == part \in {"tasks", "fields", "terms"} /\ PartsInit /\ TermsInit

LeadershipNext ==
    \/ MCNext /\ UNCHANGED termVars
    \/ part = "terms" /\ OneWriteNext /\ UNCHANGED <<vars, fieldVars, part>>

LeadershipSpec == LeadershipInit /\ [][LeadershipNext]_<<vars, fieldVars, part, termVars>>

SameNames == SameRequests \union Symmetric
=============================================================================
