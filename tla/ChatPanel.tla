----------------------------- MODULE ChatPanel -----------------------------
(* The AI chat panel (KiCadChatPanel): prompts that overlap in runPrompt, the *)
(* one abort controller they share, cancel and clear, the history stored in   *)
(* the workspace state, and a panel that is closed and opened again while an  *)
(* earlier one still has prompts under way.                                   *)
EXTENDS Naturals, Sequences, SequencesExt

CONSTANTS
  Prompt,      \* prompts sent from the webview or by a command
  NoPrompt,
  MaxPanels,   \* panels opened
  MaxHistory   \* AI_CHAT_MAX_HISTORY

ASSUME ChatAssumption ==
  /\ NoPrompt \notin Prompt
  /\ MaxPanels \in Nat \ {0} /\ MaxHistory \in Nat \ {0}

Panel == 1 .. MaxPanels
Text == {"prompt", "empty", "answer"}

VARIABLES
  panel,       \* the newest panel
  isOpen,      \* whether it is open, which makes it KiCadChatPanel.instance
  history,     \* the messages of each panel: prompts and answers
  stored,      \* the history in the workspace state
  busy,        \* busy of each panel
  controller,  \* abortController: the prompt that made it, NoPrompt if undefined
  aborted,     \* the controllers that are aborted
  stage,       \* how far runPrompt is with each prompt
  home,        \* the panel of each prompt
  signal,      \* whose controller's signal its stream was given
  late         \* history: what is stored last came from an earlier panel's prompt

chatVars == <<panel, isOpen, history, stored, busy, controller, aborted, stage,
              home, signal, late>>

Before  == {"selecting", "asked", "announced"}
Busy    == {"starting", "streaming", "stopping"}
ChatMessage == [prompt : Prompt, text : Text]

ChatInit ==
  /\ panel = 1 /\ isOpen = TRUE
  /\ history = [p \in Panel |-> <<>>] /\ stored = <<>>
  /\ busy = [p \in Panel |-> FALSE]
  /\ controller = [p \in Panel |-> NoPrompt]
  /\ aborted = {}
  /\ stage = [r \in Prompt |-> "unsent"]
  /\ home = [r \in Prompt |-> 1]
  /\ signal = [r \in Prompt |-> NoPrompt]
  /\ late = FALSE

IsOpen(p) == isOpen /\ p = panel
Goes(r, to) == stage' = [stage EXCEPT ![r] = to]
Trim(h) == IF Len(h) > MaxHistory THEN SubSeq(h, Len(h) - MaxHistory + 1, Len(h)) ELSE h

(* abortController?.abort()                                                   *)
Abort(p) == aborted' = aborted \cup ({controller[p]} \ {NoPrompt})

PersistUntrimmed(p, h) ==
  /\ history' = [history EXCEPT ![p] = h]
  /\ stored' = Trim(h)
  /\ late' = (p # panel)

(* The history of p becomes h, trimmed, and is stored.                        *)
Persist(p, h) ==
  /\ history' = [history EXCEPT ![p] = Trim(h)]
  /\ stored' = Trim(h)
  /\ late' = (p # panel)

(* The webview, which lets no prompt through once it was told busy, or a      *)
(* command, which is not kept back.                                           *)
Send(r) ==
  /\ stage[r] = "unsent" /\ isOpen
  /\ IF busy[panel] THEN Abort(panel) ELSE UNCHANGED aborted
  /\ home' = [home EXCEPT ![r] = panel]
  /\ Goes(r, "selecting")
  /\ UNCHANGED <<panel, isOpen, history, stored, busy, controller, signal, late>>

ProviderSelected(r) ==
  /\ stage[r] = "selecting"
  /\ Goes(r, "asked")
  /\ Persist(home[r], Append(history[home[r]], [prompt |-> r, text |-> "prompt"]))
  /\ UNCHANGED <<panel, isOpen, busy, controller, aborted, home, signal>>

AnswerAnnounced(r) ==
  /\ stage[r] = "asked"
  /\ Goes(r, "announced")
  /\ Persist(home[r], Append(history[home[r]], [prompt |-> r, text |-> "empty"]))
  /\ UNCHANGED <<panel, isOpen, busy, controller, aborted, home, signal>>

(* There is no provider, the connection test rejects, or the panel is closed  *)
(* and a message to it throws, before the try block or in it.                 *)
GivesUp(r) ==
  /\ \/ stage[r] \in {"selecting", "announced"}
     \/ stage[r] \in {"asked", "starting"} /\ ~IsOpen(home[r])
  /\ Goes(r, "done")
  /\ UNCHANGED <<panel, isOpen, history, stored, busy, controller, aborted,
                 home, signal, late>>

BecomesBusy(r) ==
  /\ stage[r] = "announced"
  /\ Goes(r, "starting")
  /\ busy' = [busy EXCEPT ![home[r]] = TRUE]
  /\ controller' = [controller EXCEPT ![home[r]] = r]
  /\ UNCHANGED <<panel, isOpen, history, stored, aborted, home, signal, late>>

FinishUnsaved(r, h) ==
  /\ Goes(r, "done")
  /\ busy' = [busy EXCEPT ![home[r]] = FALSE]
  /\ controller' = [controller EXCEPT ![home[r]] = NoPrompt]
  /\ history' = [history EXCEPT ![home[r]] = h]
  /\ UNCHANGED <<panel, isOpen, stored, aborted, home, signal, late>>

FinishUnlessAborted(r, h) ==
  /\ Goes(r, "done")
  /\ IF r \in aborted
       THEN UNCHANGED <<busy, controller>>
       ELSE /\ busy' = [busy EXCEPT ![home[r]] = FALSE]
            /\ controller' = [controller EXCEPT ![home[r]] = NoPrompt]
  /\ Persist(home[r], h)
  /\ UNCHANGED <<panel, isOpen, aborted, home, signal>>

(* The finally block.                                                         *)
Finish(r, h) ==
  /\ Goes(r, "done")
  /\ busy' = [busy EXCEPT ![home[r]] = FALSE]
  /\ controller' = [controller EXCEPT ![home[r]] = NoPrompt]
  /\ Persist(home[r], h)
  /\ UNCHANGED <<panel, isOpen, aborted, home, signal>>

(* The stream gets the signal of the controller there is now.  Without one    *)
(* the call throws, and the catch block throws as well.                       *)
StartsStreaming(r) ==
  /\ stage[r] = "starting"
  /\ IF controller[home[r]] = NoPrompt
       THEN Finish(r, history[home[r]])
       ELSE /\ Goes(r, "streaming")
            /\ signal' = [signal EXCEPT ![r] = controller[home[r]]]
            /\ UNCHANGED <<panel, isOpen, history, stored, busy, controller,
                           aborted, home, late>>

(* The message object is changed where the history still holds it.            *)
Answered(r) ==
  LET h == history[home[r]]
  IN [i \in DOMAIN h |-> IF h[i] = [prompt |-> r, text |-> "empty"]
                           THEN [h[i] EXCEPT !.text = "answer"] ELSE h[i]]

Chunk(r) ==
  /\ stage[r] = "streaming"
  /\ history' = [history EXCEPT ![home[r]] = Answered(r)]
  /\ UNCHANGED <<panel, isOpen, stored, busy, controller, aborted, stage, home,
                 signal, late>>

(* The stream ends, with text or without, or it fails in some other way than  *)
(* by an abort, and the error becomes the answer.                             *)
StreamEnds(r) ==
  /\ stage[r] = "streaming"
  /\ \E h \in {history[home[r]], Answered(r)} : Finish(r, h)

(* A post to a closed panel throws, in the try block or in the catch block.   *)
StreamThrows(r) ==
  /\ \/ stage[r] = "streaming" /\ (controller[home[r]] = NoPrompt \/ ~IsOpen(home[r]))
     \/ stage[r] = "stopping" /\ ~IsOpen(home[r])
  /\ Finish(r, history[home[r]])

(* The stream rejects with an abort, or fails while the panel's controller,   *)
(* whosever it is, is aborted.                                                *)
StreamStops(r) ==
  /\ stage[r] = "streaming"
  /\ signal[r] \in aborted \/ controller[home[r]] \in aborted
  /\ Goes(r, "stopping")
  /\ UNCHANGED <<panel, isOpen, history, stored, busy, controller, aborted,
                 home, signal, late>>

(* An answer without text is taken out of the history, if it still holds it.  *)
Stopped(r) ==
  /\ stage[r] = "stopping"
  /\ LET h     == history[home[r]]
         empty == [prompt |-> r, text |-> "empty"]
     IN  \/ ~Contains(h, empty) /\ Finish(r, h)
         \/ \E i \in DOMAIN h : h[i] = empty /\ Finish(r, RemoveAt(h, i))

Cancel ==
  /\ isOpen
  /\ Abort(panel)
  /\ UNCHANGED <<panel, isOpen, history, stored, busy, controller, stage, home,
                 signal, late>>

Clear ==
  /\ isOpen
  /\ Persist(panel, <<>>)
  /\ UNCHANGED <<panel, isOpen, busy, controller, aborted, stage, home, signal>>

ClosePanel ==
  /\ isOpen
  /\ isOpen' = FALSE
  /\ Abort(panel)
  /\ UNCHANGED <<panel, history, stored, busy, controller, stage, home, signal, late>>

OpenPanel ==
  /\ ~isOpen /\ panel < MaxPanels
  /\ isOpen' = TRUE
  /\ panel' = panel + 1
  /\ history' = [history EXCEPT ![panel + 1] = stored]
  /\ late' = FALSE
  /\ UNCHANGED <<stored, busy, controller, aborted, stage, home, signal>>

ChatNext ==
  \/ \E r \in Prompt :
       \/ Send(r) \/ ProviderSelected(r) \/ AnswerAnnounced(r) \/ GivesUp(r)
       \/ BecomesBusy(r) \/ StartsStreaming(r) \/ Chunk(r) \/ StreamEnds(r)
       \/ StreamThrows(r) \/ StreamStops(r) \/ Stopped(r)
  \/ Cancel \/ Clear \/ ClosePanel \/ OpenPanel

ChatSpec == ChatInit /\ [][ChatNext]_chatVars
-----------------------------------------------------------------------------
(* The types, and that no history, in memory or stored, is longer than        *)
(* AI_CHAT_MAX_HISTORY, whoever adds to it.                                   *)
ChatTypeOK ==
  /\ panel \in Panel
  /\ isOpen \in BOOLEAN
  /\ history \in [Panel -> Seq(ChatMessage)]
  /\ stored \in Seq(ChatMessage)
  /\ busy \in [Panel -> BOOLEAN]
  /\ controller \in [Panel -> Prompt \cup {NoPrompt}]
  /\ aborted \subseteq Prompt
  /\ stage \in [Prompt -> {"unsent", "done"} \cup Before \cup Busy]
  /\ home \in [Prompt -> Panel]
  /\ signal \in [Prompt -> Prompt \cup {NoPrompt}]
  /\ late \in BOOLEAN
  /\ Len(stored) <= MaxHistory
  /\ \A p \in Panel : Len(history[p]) <= MaxHistory

InFlight(r) == stage[r] \in Before \cup Busy

(* When no prompt is under way, the next window finds what the panel shows:   *)
(* prompts, answers, partial answers of streams that were stopped, without    *)
(* the empty answers that were taken back.  A prompt of an earlier panel      *)
(* stores its own history over it.                                            *)
StoredAtRest ==
  isOpen /\ ~late /\ (\A r \in Prompt : ~InFlight(r)) => stored = history[panel]

(* The panel is released: when no prompt of it streams, it is not busy and    *)
(* holds no controller, however prompts overlapped, failed or were cancelled. *)
BusyAtRest ==
  isOpen /\ (\A r \in Prompt : home[r] = panel => stage[r] \notin Busy)
    => ~busy[panel] /\ controller[panel] = NoPrompt

(* What the test "aborts in-flight stream on cancel message" says of every    *)
(* stream: cancel reaches it, if nothing has aborted it before.               *)
StreamsCancellable ==
  \A r \in Prompt :
    stage[r] = "streaming" /\ IsOpen(home[r])
      => signal[r] \in aborted \cup {controller[home[r]]}
=============================================================================
