------------------------------ MODULE Console -------------------------------
(***************************************************************************)
(* The officer console's rooms where one officer's reads and writes meet   *)
(* those of others: the Campaign Studio, the queues, the register of       *)
(* applications and the data protection officer's requests. They share no  *)
(* state, so an officer who goes from one to another adds nothing to       *)
(* either, and each behaviour keeps to one.                                *)
(***************************************************************************)
EXTENDS Studio, Decisions, Register, Erasure

VARIABLE room    \* "campaigns", "queues", "register" or "erasure"

consoleVars == <<room, studioVars, decisionVars, registerVars, erasureVars>>

ConsoleInit ==
  /\ room \in {"campaigns", "queues", "register", "erasure"}
  /\ StudioInit /\ DecisionsInit /\ RegisterInit /\ ErasureInit
  /\ room # "queues" => status = CHOOSE s \in Starting : TRUE
  /\ room # "campaigns" => studio.may = CHOOSE p \in Posts : TRUE

InTheStudio ==
  /\ room = "campaigns" /\ (StudioOfficer \/ StudioService)
  /\ UNCHANGED <<room, decisionVars, registerVars, erasureVars>>

AtTheQueues ==
  /\ room = "queues" /\ (QueueOfficer \/ QueueService)
  /\ UNCHANGED <<room, studioVars, registerVars, erasureVars>>

AtTheRegister ==
  /\ room = "register" /\ RegisterNext
  /\ UNCHANGED <<room, studioVars, decisionVars, erasureVars>>

AtTheRequests ==
  /\ room = "erasure" /\ (DpoOfficer \/ DpoService)
  /\ UNCHANGED <<room, studioVars, decisionVars, registerVars>>

ConsoleNext == InTheStudio \/ AtTheQueues \/ AtTheRegister \/ AtTheRequests

ConsoleSpec == ConsoleInit /\ [][ConsoleNext]_consoleVars

-----------------------------------------------------------------------------
(* A refusal stays with the mutation that got it until it is reset or used *)
(* again. A request's dialog shows only what was said of that request, and *)
(* a row's only what was said of that row, with one exception: after a     *)
(* bulk, a dialog that shortlists or rejects may show the last refusal of  *)
(* the bulk, of whatever row (QueuesPage.tsx:200, 228-229, 274).           *)
RefusalIsOfThisDialog == RefusalIsOfThisRow /\ RefusalIsOfThisRequest
=============================================================================
