------------------------------ MODULE MCClients ------------------------------
(* Instances for TLC of two components that share no state: the connection to *)
(* the MCP server and the chat panel.  One of them moves in a behaviour while *)
(* the other stays as it is.                                                  *)
EXTENDS McpSession, ChatPanel

CONSTANT Part   \* the components that may move

VARIABLE part

\* Where the session does not move, it is the one of a first window.
MCInit ==
  /\ part \in Part
  /\ SessionInit /\ ChatInit
  /\ part # "session" =>
       card = "none" /\ setting = Unset /\ \A e \in Endpoint : running[e] = "ok"

MCNext ==
  \/ part = "session" /\ SessionNext /\ UNCHANGED <<part, chatVars>>
  \/ part = "chat" /\ ChatNext /\ UNCHANGED <<part, sessionVars>>

MCSpec ==
  /\ MCInit
  /\ [][MCNext]_<<part, sessionVars, chatVars>>
  /\ SessionFairness
=============================================================================
