-------------------------- MODULE MCAgentLifecycle --------------------------
(***************************************************************************)
(* AgentLifecycle for TLC: the ways in which the agent may be started.     *)
(***************************************************************************)
EXTENDS AgentLifecycle

\* Only the register command registers again, and it starts no sensor workers.
AllConfigs ==
  {c \in [headless : BOOLEAN, mqtt : BOOLEAN, registered : BOOLEAN, prompt : BOOLEAN,
          register : BOOLEAN, force : BOOLEAN, unclosed : BOOLEAN] :
      (c.force => c.register) /\ (c.unclosed => ~c.register)}
=============================================================================
