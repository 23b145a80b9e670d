------------------------------ MODULE ModalApp -------------------------------
(***************************************************************************)
(* The functions of modal_app.py side by side: the deployed server, a      *)
(* child process of the sentinel pilot, the pilot's driver with its pairs  *)
(* and files, Correctness Protocol V2, and its audit.  Each runs in a      *)
(* container or a process of its own and they share no state: one of them  *)
(* is chosen, and the others stay where they start.                        *)
(***************************************************************************)
EXTENDS ApiServer, SentinelChild, SentinelPilot, ProtocolAudit

VARIABLE chosen   \* the function that runs

vars == <<serverVars, childVars, pilotVars, protocolVars, auditVars, chosen>>

Init ==
    /\ chosen \in {"server", "child", "pilot", "protocol", "audit"}
    /\ ServerInit /\ ChildInit /\ PilotInit /\ ProtocolInit /\ AuditInit
    /\ chosen # "child" => impl = "custom" /\ mode = "complete_system"

ServerStep ==
    /\ chosen = "server" /\ ServerNext
    /\ UNCHANGED <<childVars, pilotVars, protocolVars, auditVars, chosen>>
ChildStep ==
    /\ chosen = "child" /\ ChildNext
    /\ UNCHANGED <<serverVars, pilotVars, protocolVars, auditVars, chosen>>
PilotStep ==
    /\ chosen = "pilot" /\ PilotNext
    /\ UNCHANGED <<serverVars, childVars, protocolVars, auditVars, chosen>>
ProtocolStep ==
    /\ chosen = "protocol" /\ ProtocolNext
    /\ UNCHANGED <<serverVars, childVars, pilotVars, auditVars, chosen>>
AuditStep ==
    /\ chosen = "audit" /\ AuditNext
    /\ UNCHANGED <<serverVars, childVars, pilotVars, protocolVars, chosen>>

Next == ServerStep \/ ChildStep \/ PilotStep \/ ProtocolStep \/ AuditStep

Spec == Init /\ [][Next]_vars
==============================================================================
