------------------------------ MODULE MCService ------------------------------
(***************************************************************************)
(* The service of an evening, with what must end.  Three instances of Tables   *)
(* side by side: many sessions of a table with one order each, the bill of one *)
(* session with several orders, its ticket and payment, and the mains of one   *)
(* session, whose firings may break off.  And the tickets of the kitchen, with *)
(* print agents that answer in time or crash.                                  *)
(***************************************************************************)
EXTENDS Tables, PrintQueue

\* Together and Alone of the instances of one session.
CONSTANTS BillTogether, BillAlone, MainsTogether, MainsAlone

VARIABLE scene

Bill_  == INSTANCE Tables WITH Together <- BillTogether, Alone <- BillAlone,
                               MaxSessions <- 1, MaxSent <- 2
Mains_ == INSTANCE Tables WITH Together <- MainsTogether, Alone <- MainsAlone,
                               MaxSessions <- 1, MaxSent <- 2

mcVars == <<tableVars, queueVars, scene>>

MCInit == /\ \/ scene \in {"openings", "kitchen"} /\ Init
             \/ scene = "bill" /\ Bill_!Init
             \/ scene = "mains" /\ Mains_!Init
          /\ QueueInit
MCNext == /\ UNCHANGED scene
          /\ \/ scene = "openings" /\ Next /\ UNCHANGED queueVars
             \/ scene = "bill" /\ Bill_!Next /\ UNCHANGED queueVars
             \/ scene = "mains" /\ Mains_!Next /\ UNCHANGED queueVars
             \/ scene = "kitchen" /\ QueueNext /\ UNCHANGED tableVars

InKitchen(step) == scene = "kitchen" /\ step /\ UNCHANGED <<tableVars, scene>>

\* The fairness of Tables and that of PrintQueue.
MCFairness ==
    /\ \A p \in Requests : SF_mcVars(/\ UNCHANGED <<queueVars, scene>>
                                     /\ \/ scene = "openings" /\ Step(p)
                                        \/ scene = "bill" /\ Bill_!Step(p)
                                        \/ scene = "mains" /\ Mains_!Step(p))
    /\ \A c \in Clients  : WF_mcVars(InKitchen(ClientStep(c)))
    /\ \A a \in Agents : WF_mcVars(InKitchen(AgentStep(a)))
    /\ \A j \in JobIds : WF_mcVars(InKitchen(ClaimExpires(j)))
    /\ WF_mcVars(InKitchen(AckStep))

MCSpec == MCInit /\ [][MCNext]_mcVars /\ MCFairness
=============================================================================
