----------------------------- MODULE MCChatRequest -----------------------------
(***************************************************************************)
(* The main chat and one agent, two models.                                *)
(***************************************************************************)
EXTENDS ChatRequest, TLC

CONSTANTS pro, flash, main, agent

ProThenFlash == <<pro, flash>>
AllTerminal == [k \in Kinds |-> "terminal"]
StickyIfTransient == [AllTerminal EXCEPT !["transient"] = "sticky"]
MainTwiceAgentOnce == main :> 2 @@ agent :> 1
AgentWantsPro == [c \in Chat |-> pro]
AgentWantsFlash == [c \in Chat |-> flash]
=============================================================================
