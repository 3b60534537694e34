----------------------------- MODULE ViewsProofs ------------------------------
(* What two views keep: the chat panel, with its histories within their       *)
(* limit and at rest, for any number of prompts and panels and any limit, and *)
(* the Quality Gates, for any number of runs.                                 *)
EXTENDS ChatPanel, QualityGates, SequenceTheorems, TLAPS

\* The two halves of the types: what is said, and who says it.
Histories ==
  /\ history \in [Panel -> Seq(ChatMessage)]
  /\ stored \in Seq(ChatMessage)
  /\ late \in BOOLEAN
  /\ Len(stored) <= MaxHistory
  /\ \A p \in Panel : Len(history[p]) <= MaxHistory

Prompting ==
  /\ panel \in Panel
  /\ isOpen \in BOOLEAN
  /\ busy \in [Panel -> BOOLEAN]
  /\ controller \in [Panel -> Prompt \cup {NoPrompt}]
  /\ aborted \subseteq Prompt
  /\ stage \in [Prompt -> {"unsent", "done"} \cup Before \cup Busy]
  /\ home \in [Prompt -> Panel]
  /\ signal \in [Prompt -> Prompt \cup {NoPrompt}]

LEMMA TypeHalves == ChatTypeOK <=> Histories /\ Prompting
BY DEF ChatTypeOK, Histories, Prompting

LEMMA Trimmed ==
  ASSUME NEW h \in Seq(ChatMessage)
  PROVE  Trim(h) \in Seq(ChatMessage) /\ Len(Trim(h)) \in Nat
         /\ Len(Trim(h)) <= MaxHistory
<1>1. Len(h) \in Nat /\ MaxHistory \in Nat \ {0}
  BY LenProperties, ChatAssumption
<1>2. CASE Len(h) <= MaxHistory
  BY <1>1, <1>2 DEF Trim
<1>3. CASE Len(h) > MaxHistory
  <2> DEFINE m == Len(h) - MaxHistory + 1
             n == Len(h)
             r == SubSeq(h, m, n)
  <2>1. m \in Int /\ n \in Int /\ \A i \in m..n : h[i] \in ChatMessage
    <3>1. \A i \in m..n : i \in 1..Len(h)
      BY <1>1, <1>3
    <3> QED BY <1>1, <3>1, ElementOfSeq
  <2>2. Trim(h) = r
    BY <1>1, <1>3 DEF Trim
  <2>3. m <= n /\ n - m + 1 = MaxHistory
    BY <1>1
  <2> HIDE DEF m, n
  <2>4. r \in Seq(ChatMessage) /\ Len(r) = IF m <= n THEN n - m + 1 ELSE 0
    BY <2>1, SubSeqProperties
  <2> QED BY <1>1, <2>2, <2>3, <2>4
<1> QED BY <1>1, <1>2, <1>3

LEMMA PersistTyped ==
  ASSUME Histories, NEW p \in Panel, NEW h \in Seq(ChatMessage), Persist(p, h)
  PROVE  Histories'
<1>1. Trim(h) \in Seq(ChatMessage) /\ Len(Trim(h)) <= MaxHistory
  BY Trimmed
<1>2. history' \in [Panel -> Seq(ChatMessage)] /\ stored' \in Seq(ChatMessage)
  BY <1>1 DEF Persist, Histories
<1>3. late' \in BOOLEAN
  BY DEF Persist
<1>4. Len(stored') <= MaxHistory /\ \A q \in Panel : Len(history'[q]) <= MaxHistory
  BY <1>1 DEF Persist, Histories
<1> QED BY <1>2, <1>3, <1>4 DEF Histories

LEMMA AnsweredTyped ==
  ASSUME Histories, Prompting, NEW r \in Prompt
  PROVE  Answered(r) \in Seq(ChatMessage) /\ Len(Answered(r)) = Len(history[home[r]])
<1> DEFINE h == history[home[r]]
<1>1. h \in Seq(ChatMessage) /\ Len(h) \in Nat /\ DOMAIN h = 1..Len(h)
  BY LenProperties DEF Histories, Prompting
<1>2. \A i \in 1..Len(h) : h[i] \in ChatMessage
  BY <1>1, ElementOfSeq
<1> HIDE DEF h
<1>3. \A m \in ChatMessage : [m EXCEPT !.text = "answer"] \in ChatMessage
  BY DEF ChatMessage, Text
<1>4. Answered(r) \in [1..Len(h) -> ChatMessage]
  BY <1>1, <1>2, <1>3 DEF Answered, h
<1> QED BY <1>1, <1>4 DEF h

LEMMA WithoutTyped ==
  ASSUME NEW h \in Seq(ChatMessage), NEW i \in DOMAIN h
  PROVE  RemoveAt(h, i) \in Seq(ChatMessage)
<1>1. i \in 1..Len(h) /\ Len(h) \in Nat
  BY LenProperties
<1> DEFINE k == i + 1
           n == Len(h)
           m == i - 1
<1>2. /\ m \in Int /\ k \in Int /\ n \in Int
      /\ \A j \in 1..m : h[j] \in ChatMessage
      /\ \A j \in k..n : h[j] \in ChatMessage
  <2>1. \A j \in 1..m : j \in 1..Len(h)
    BY <1>1
  <2>2. \A j \in k..n : j \in 1..Len(h)
    BY <1>1
  <2> QED BY <1>1, <2>1, <2>2, ElementOfSeq
<1>3. RemoveAt(h, i) = SubSeq(h, 1, m) \o SubSeq(h, k, n)
  BY DEF RemoveAt
<1> HIDE DEF k, n, m
<1>4. SubSeq(h, 1, m) \in Seq(ChatMessage) /\ SubSeq(h, k, n) \in Seq(ChatMessage)
  BY <1>2, SubSeqProperties
<1> QED BY <1>3, <1>4, ConcatProperties

LEMMA FinishTyped ==
  ASSUME Histories, Prompting, NEW r \in Prompt, NEW h \in Seq(ChatMessage),
         Finish(r, h)
  PROVE  Histories' /\ Prompting'
<1>1. Histories'
  BY PersistTyped DEF Finish, Prompting
<1>2. busy' \in [Panel -> BOOLEAN]
  BY DEF Finish, Prompting
<1>3. Prompting'
  BY <1>2 DEF Finish, Goes, Prompting, Before, Busy
<1> QED BY <1>1, <1>3

LEMMA AbortTyped ==
  ASSUME Prompting, NEW p \in Panel, Abort(p)
  PROVE  aborted' \subseteq Prompt
BY DEF Prompting, Abort

LEMMA PromptTyped ==
  ASSUME Histories, Prompting, NEW r \in Prompt,
         \/ Send(r) \/ ProviderSelected(r) \/ AnswerAnnounced(r) \/ GivesUp(r)
         \/ BecomesBusy(r) \/ StartsStreaming(r) \/ Chunk(r) \/ StreamEnds(r)
         \/ StreamThrows(r) \/ StreamStops(r) \/ Stopped(r)
  PROVE  Histories' /\ Prompting'
<1> USE DEF Before, Busy
<1> DEFINE h == history[home[r]]
<1>1. home[r] \in Panel /\ h \in Seq(ChatMessage)
  BY DEF Histories, Prompting
<1>2. CASE Send(r)
  <2>1. aborted' \subseteq Prompt
    BY <1>2, AbortTyped DEF Send, Prompting
  <2>2. Prompting'
    BY <1>2, <2>1 DEF Send, Goes, Prompting
  <2> QED BY <1>2, <2>2 DEF Send, Histories
<1>3. CASE ProviderSelected(r) \/ AnswerAnnounced(r)
  <2>1. \A t \in Text : [prompt |-> r, text |-> t] \in ChatMessage
    BY DEF ChatMessage
  <2>2. \A m \in ChatMessage : Append(h, m) \in Seq(ChatMessage)
    BY <1>1, AppendProperties
  <2>3. Histories'
    BY <1>1, <1>3, <2>1, <2>2, PersistTyped DEF ProviderSelected,
       AnswerAnnounced, Text
  <2>4. Prompting'
    BY <1>3 DEF ProviderSelected, AnswerAnnounced, Goes, Prompting
  <2> QED BY <2>3, <2>4
<1>4. CASE GivesUp(r) \/ StreamStops(r)
  <2>1. Histories'
    BY <1>4 DEF GivesUp, StreamStops, Histories
  <2>2. Prompting'
    BY <1>4 DEF GivesUp, StreamStops, Goes, Prompting
  <2> QED BY <2>1, <2>2
<1>5. CASE BecomesBusy(r)
  <2>1. Histories'
    BY <1>5 DEF BecomesBusy, Histories
  <2>2. busy' \in [Panel -> BOOLEAN]
    BY <1>5 DEF BecomesBusy, Prompting
  <2>3. Prompting'
    BY <1>5, <2>2 DEF BecomesBusy, Goes, Prompting
  <2> QED BY <2>1, <2>3
<1>6. CASE StartsStreaming(r)
  <2>1. CASE controller[home[r]] = NoPrompt
    BY <1>1, <1>6, <2>1, FinishTyped DEF StartsStreaming
  <2>2. CASE controller[home[r]] # NoPrompt
    <3>1. Histories'
      BY <1>6, <2>2 DEF StartsStreaming, Histories
    <3>2. Prompting'
      BY <1>1, <1>6, <2>2 DEF StartsStreaming, Goes, Prompting
    <3> QED BY <3>1, <3>2
  <2> QED BY <2>1, <2>2
<1>7. CASE Chunk(r)
  <2>1. Answered(r) \in Seq(ChatMessage) /\ Len(Answered(r)) = Len(h)
    BY AnsweredTyped
  <2>2. Histories'
    BY <1>1, <1>7, <2>1 DEF Chunk, Histories
  <2>3. Prompting'
    BY <1>7 DEF Chunk, Prompting
  <2> QED BY <2>2, <2>3
<1>8. CASE StreamEnds(r) \/ StreamThrows(r)
  BY <1>1, <1>8, AnsweredTyped, FinishTyped DEF StreamEnds, StreamThrows
<1>9. CASE Stopped(r)
  <2>1. PICK g \in Seq(ChatMessage) : Finish(r, g)
    BY <1>1, <1>9, WithoutTyped DEF Stopped
  <2> QED BY <2>1, FinishTyped
<1> QED BY <1>2, <1>3, <1>4, <1>5, <1>6, <1>7, <1>8, <1>9

LEMMA PanelTyped ==
  ASSUME Histories, Prompting, Cancel \/ Clear \/ ClosePanel \/ OpenPanel
  PROVE  Histories' /\ Prompting'
<1>1. panel \in Panel
  BY DEF Prompting
<1>2. CASE Cancel \/ ClosePanel
  <2>1. aborted' \subseteq Prompt
    BY <1>1, <1>2, AbortTyped DEF Cancel, ClosePanel
  <2>2. Histories'
    BY <1>2 DEF Cancel, ClosePanel, Histories
  <2>3. isOpen' \in {isOpen, FALSE}
    BY <1>2 DEF Cancel, ClosePanel
  <2>4. isOpen' \in BOOLEAN
    BY <2>3 DEF Prompting
  <2>5. UNCHANGED <<panel, busy, controller, stage, home, signal>>
    BY <1>2 DEF Cancel, ClosePanel
  <2>6. Prompting'
    BY <2>1, <2>4, <2>5 DEF Prompting
  <2> QED BY <2>2, <2>6
<1>3. CASE Clear
  <2>1. Histories'
    BY <1>1, <1>3, EmptySeq, PersistTyped DEF Clear
  <2>2. Prompting'
    BY <1>3 DEF Clear, Prompting
  <2> QED BY <2>1, <2>2
<1>4. CASE OpenPanel
  <2>1. panel + 1 \in Panel
    BY <1>1, <1>4, ChatAssumption DEF OpenPanel, Panel
  <2>2. Histories'
    BY <1>4, <2>1 DEF OpenPanel, Histories
  <2>3. Prompting'
    BY <1>4, <2>1 DEF OpenPanel, Prompting
  <2> QED BY <2>2, <2>3
<1> QED BY <1>2, <1>3, <1>4

\* Every history, of a panel or stored, is one of messages and no longer than
\* the limit, whichever prompts add to it, are stopped or answered late.
THEOREM ChatTyped == ChatSpec => []ChatTypeOK
<1>1. ChatInit => ChatTypeOK
  <2> SUFFICES ASSUME ChatInit PROVE ChatTypeOK
    OBVIOUS
  <2>1. 1 \in Panel /\ MaxHistory \in Nat
    BY ChatAssumption DEF Panel
  <2>2. Histories
    <3>1. <<>> \in Seq(ChatMessage) /\ Len(<<>>) = 0
      BY EmptySeq
    <3>2. history \in [Panel -> Seq(ChatMessage)] /\ stored \in Seq(ChatMessage)
      BY <3>1 DEF ChatInit
    <3>3. Len(stored) <= MaxHistory /\ \A p \in Panel : Len(history[p]) <= MaxHistory
      BY <2>1, <3>1 DEF ChatInit
    <3>4. late \in BOOLEAN
      BY DEF ChatInit
    <3> QED BY <3>2, <3>3, <3>4 DEF Histories
  <2>3. Prompting
    BY <2>1 DEF ChatInit, Prompting
  <2> QED BY <2>2, <2>3, TypeHalves
<1>2. ChatTypeOK /\ [ChatNext]_chatVars => ChatTypeOK'
  <2> SUFFICES ASSUME Histories, Prompting, [ChatNext]_chatVars
               PROVE  Histories' /\ Prompting'
    BY TypeHalves DEF ChatTypeOK, Histories, Prompting
  <2>1. CASE UNCHANGED chatVars
    BY <2>1 DEF chatVars, Histories, Prompting
  <2> QED BY <2>1, PromptTyped, PanelTyped DEF ChatNext
<1> QED BY <1>1, <1>2, PTL DEF ChatSpec

-----------------------------------------------------------------------------
\* What the invariants need of the types: every prompt is one of a panel there
\* was, and the tables have their entries.
Shape ==
  /\ panel \in Panel
  /\ DOMAIN history = Panel
  /\ home \in [Prompt -> Panel]
  /\ \A r \in Prompt : home[r] <= panel
  /\ stage \in [Prompt -> {"unsent", "done"} \cup Before \cup Busy]
  /\ controller \in [Panel -> Prompt \cup {NoPrompt}]
  /\ DOMAIN busy = Panel

\* Panels to come are as they will be made.
Fresh == \A p \in Panel : p > panel => busy[p] = FALSE /\ controller[p] = NoPrompt

\* An open panel is busy, or has a controller, only while a prompt of it is in
\* the try block.
BusyHeld ==
  isOpen = TRUE /\ (busy[panel] # FALSE \/ controller[panel] # NoPrompt) =>
    \E r \in Prompt : home[r] = panel /\ stage[r] \in Busy

RestInv == Shape /\ Fresh /\ BusyHeld

LEMMA RestInit == ChatInit => RestInv
<1> SUFFICES ASSUME ChatInit PROVE RestInv
  OBVIOUS
<1> USE DEF ChatInit
<1>1. 1 \in Panel
  BY ChatAssumption DEF Panel
<1>2. home \in [Prompt -> Panel] /\ \A r \in Prompt : home[r] <= panel
  BY <1>1
<1>3. stage \in [Prompt -> {"unsent", "done"} \cup Before \cup Busy]
  OBVIOUS
<1>4. controller \in [Panel -> Prompt \cup {NoPrompt}]
  OBVIOUS
<1>5. Shape
  BY <1>1, <1>2, <1>3, <1>4 DEF Shape
<1>6. Fresh
  BY DEF Fresh
<1>7. BusyHeld
  BY <1>1 DEF BusyHeld
<1> QED BY <1>5, <1>6, <1>7 DEF RestInv

LEMMA PanelsAreNumbers == Panel \subseteq Nat
BY ChatAssumption DEF Panel

\* Steps of prompt r that leave busy and controllers alone and keep it out of
\* the try block, or in it.
LEMMA SameBusy ==
  ASSUME RestInv, NEW r \in Prompt, NEW to \in {"unsent", "done"} \cup Before \cup Busy,
         UNCHANGED <<panel, isOpen, busy, controller, home>>,
         DOMAIN history' = Panel,
         Goes(r, to),
         stage[r] \in Busy => to \in Busy \/ isOpen # TRUE \/ home[r] # panel
  PROVE  RestInv'
<1> USE DEF RestInv, Goes
<1>1. Shape'
  BY DEF Shape
<1>2. Fresh'
  BY DEF Fresh
<1>3. BusyHeld'
  <2> SUFFICES ASSUME isOpen = TRUE, busy[panel] # FALSE \/ controller[panel] # NoPrompt
               PROVE  \E q \in Prompt : home[q] = panel /\ stage'[q] \in Busy
    BY DEF BusyHeld
  <2>1. PICK q \in Prompt : home[q] = panel /\ stage[q] \in Busy
    BY DEF BusyHeld
  <2>2. stage'[q] \in Busy
    BY <2>1 DEF Shape
  <2> QED BY <2>1, <2>2
<1> QED BY <1>1, <1>2, <1>3

LEMMA FinishRests ==
  ASSUME RestInv, NEW r \in Prompt, NEW h, Finish(r, h)
  PROVE  RestInv'
<1> USE DEF RestInv, Finish, Goes, Persist
<1>1. Shape'
  BY DEF Shape
<1>2. Fresh'
  BY DEF Fresh, Shape
<1>3. BusyHeld'
  <2>1. CASE home[r] = panel
    <3>1. busy'[panel] = FALSE /\ controller'[panel] = NoPrompt /\ panel' = panel
      BY <2>1 DEF Shape
    <3> QED BY <3>1 DEF BusyHeld
  <2>2. CASE home[r] # panel
    <3> SUFFICES ASSUME isOpen = TRUE, busy'[panel] # FALSE \/ controller'[panel] # NoPrompt
                 PROVE  \E q \in Prompt : home[q] = panel /\ stage'[q] \in Busy
      BY DEF BusyHeld
    <3>1. busy'[panel] = busy[panel] /\ controller'[panel] = controller[panel]
      BY <2>2 DEF Shape
    <3>2. PICK q \in Prompt : home[q] = panel /\ stage[q] \in Busy
      BY <3>1 DEF BusyHeld
    <3>3. q # r /\ stage'[q] = stage[q]
      BY <2>2, <3>2 DEF Shape
    <3> QED BY <3>2, <3>3
  <2> QED BY <2>1, <2>2
<1> QED BY <1>1, <1>2, <1>3

LEMMA PromptRests ==
  ASSUME RestInv, NEW r \in Prompt,
         \/ ProviderSelected(r) \/ AnswerAnnounced(r) \/ GivesUp(r) \/ BecomesBusy(r)
         \/ StartsStreaming(r) \/ Chunk(r) \/ StreamEnds(r) \/ StreamThrows(r)
         \/ StreamStops(r) \/ Stopped(r)
  PROVE  RestInv'
<1> USE DEF Before, Busy
<1>1. CASE ProviderSelected(r)
  BY <1>1, SameBusy DEF ProviderSelected, Persist, RestInv, Shape
<1>2. CASE AnswerAnnounced(r)
  BY <1>2, SameBusy DEF AnswerAnnounced, Persist, RestInv, Shape
<1>3. CASE GivesUp(r)
  <2>1. stage[r] \in Busy => isOpen # TRUE \/ home[r] # panel
    BY <1>3 DEF GivesUp, IsOpen
  <2> QED BY <1>3, <2>1, SameBusy DEF GivesUp, RestInv, Shape
<1>4. CASE BecomesBusy(r)
  <2> USE DEF BecomesBusy, Goes, RestInv
  <2>1. Shape'
    BY <1>4 DEF Shape
  <2>2. Fresh'
    BY <1>4, PanelsAreNumbers DEF Fresh, Shape
  <2>3. BusyHeld'
    <3> SUFFICES ASSUME isOpen = TRUE, busy'[panel] # FALSE \/ controller'[panel] # NoPrompt
                 PROVE  \E q \in Prompt : home[q] = panel /\ stage'[q] \in Busy
      BY <1>4 DEF BusyHeld
    <3>1. CASE home[r] = panel
      BY <1>4, <3>1 DEF Shape
    <3>2. CASE home[r] # panel
      <4>1. busy'[panel] = busy[panel] /\ controller'[panel] = controller[panel]
        BY <1>4, <3>2 DEF Shape
      <4>2. PICK q \in Prompt : home[q] = panel /\ stage[q] \in Busy
        BY <4>1 DEF BusyHeld
      <4>3. stage'[q] = stage[q]
        BY <1>4, <3>2, <4>2 DEF Shape
      <4> QED BY <4>2, <4>3
    <3> QED BY <3>1, <3>2
  <2> QED BY <2>1, <2>2, <2>3
<1>5. CASE StartsStreaming(r)
  <2>1. CASE controller[home[r]] = NoPrompt
    BY <1>5, <2>1, FinishRests DEF StartsStreaming
  <2>2. CASE controller[home[r]] # NoPrompt
    BY <1>5, <2>2, SameBusy DEF StartsStreaming, RestInv, Shape
  <2> QED BY <2>1, <2>2
<1>6. CASE Chunk(r)
  BY <1>6 DEF Chunk, RestInv, Shape, Fresh, BusyHeld
<1>7. CASE StreamEnds(r) \/ StreamThrows(r) \/ Stopped(r)
  BY <1>7, FinishRests DEF StreamEnds, StreamThrows, Stopped
<1>8. CASE StreamStops(r)
  BY <1>8, SameBusy DEF StreamStops, RestInv, Shape
<1> QED BY <1>1, <1>2, <1>3, <1>4, <1>5, <1>6, <1>7, <1>8

LEMMA SendRests ==
  ASSUME RestInv, NEW r \in Prompt, Send(r)
  PROVE  RestInv'
<1> USE DEF Send, Goes, RestInv, Before, Busy
<1>1. Shape'
  <2>1. home' \in [Prompt -> Panel]
    BY DEF Shape
  <2>2. \A q \in Prompt : home'[q] <= panel'
    BY PanelsAreNumbers DEF Shape
  <2>3. stage' \in [Prompt -> {"unsent", "done"} \cup Before \cup Busy]
    BY DEF Shape
  <2>4. panel' \in Panel /\ DOMAIN history' = Panel /\ DOMAIN busy' = Panel
    BY DEF Shape
  <2>5. controller' \in [Panel -> Prompt \cup {NoPrompt}]
    BY DEF Shape
  <2> HIDE DEF Send, Goes, RestInv, Before, Busy
  <2> QED BY <2>1, <2>2, <2>3, <2>4, <2>5 DEF Shape
<1>2. Fresh'
  BY DEF Fresh
<1>3. BusyHeld'
  <2> SUFFICES ASSUME isOpen = TRUE, busy[panel] # FALSE \/ controller[panel] # NoPrompt
               PROVE  \E q \in Prompt : home'[q] = panel /\ stage'[q] \in Busy
    BY DEF BusyHeld
  <2>1. PICK q \in Prompt : home[q] = panel /\ stage[q] \in Busy
    BY DEF BusyHeld
  <2>2. q # r
    BY <2>1
  <2> QED BY <2>1, <2>2 DEF Shape
<1> QED BY <1>1, <1>2, <1>3

LEMMA PanelRests ==
  ASSUME RestInv, Cancel \/ Clear \/ ClosePanel \/ OpenPanel \/ UNCHANGED chatVars
  PROVE  RestInv'
<1> USE DEF RestInv
<1>1. CASE Cancel \/ Clear \/ UNCHANGED chatVars
  BY <1>1 DEF Cancel, Clear, Persist, chatVars, Shape, Fresh, BusyHeld
<1>2. CASE ClosePanel
  BY <1>2 DEF ClosePanel, Shape, Fresh, BusyHeld
<1>3. CASE OpenPanel
  <2>1. panel' = panel + 1 /\ panel' \in Panel
        /\ UNCHANGED <<busy, controller, stage, home>> /\ DOMAIN history' = Panel
    BY <1>3, ChatAssumption DEF OpenPanel, Shape, Panel
  <2>2. Shape'
    <3>1. \A q \in Prompt : home'[q] <= panel'
      <4> SUFFICES ASSUME NEW q \in Prompt PROVE home[q] <= panel + 1
        BY <2>1
      <4>1. home[q] \in Nat /\ panel \in Nat /\ home[q] <= panel
        BY PanelsAreNumbers DEF Shape
      <4> QED BY <4>1
    <3> QED BY <2>1, <3>1 DEF Shape
  <2>3. Fresh'
    BY <2>1, PanelsAreNumbers DEF Fresh, Shape
  <2>4. busy[panel'] = FALSE /\ controller[panel'] = NoPrompt
    BY <2>1, PanelsAreNumbers DEF Fresh, Shape
  <2>5. BusyHeld'
    BY <2>1, <2>4 DEF BusyHeld
  <2> QED BY <2>2, <2>3, <2>5
<1> QED BY <1>1, <1>2, <1>3

LEMMA RestNext ==
  ASSUME RestInv, [ChatNext]_chatVars
  PROVE  RestInv'
BY PromptRests, SendRests, PanelRests DEF ChatNext

\* A panel whose prompts are over is not busy and holds no controller, however
\* they overlapped, failed or were cancelled.
THEOREM BusyAtRestAlways == ChatSpec => []BusyAtRest
<1>1. ChatInit => RestInv
  BY RestInit
<1>2. RestInv /\ [ChatNext]_chatVars => RestInv'
  BY RestNext
<1>3. RestInv => BusyAtRest
  BY DEF RestInv, BusyHeld, BusyAtRest
<1> QED BY <1>1, <1>2, <1>3, PTL DEF ChatSpec
-----------------------------------------------------------------------------
\* The stored history is the open panel's, unless one of its streams has added
\* to an answer since, or an earlier panel's prompt has stored its own.
StoredHeld ==
  isOpen = TRUE /\ ~late
    /\ (\A r \in Prompt : home[r] = panel => stage[r] \notin {"streaming", "stopping"})
  => stored = history[panel]

LEMMA PersistStores ==
  ASSUME Shape, NEW p \in Panel, NEW h, Persist(p, h), panel' = panel
  PROVE  StoredHeld'
<1>1. CASE p = panel
  BY <1>1 DEF Persist, Shape, StoredHeld
<1>2. CASE p # panel
  BY <1>2 DEF Persist, StoredHeld
<1> QED BY <1>1, <1>2

\* Steps that change no history and end no stream of the open panel.
LEMMA SameHistory ==
  ASSUME StoredHeld, UNCHANGED <<panel, isOpen, history, stored, late>>,
         \A r \in Prompt :
           home[r] = panel /\ stage[r] \in {"streaming", "stopping"} =>
             home'[r] = panel /\ stage'[r] \in {"streaming", "stopping"}
  PROVE  StoredHeld'
BY DEF StoredHeld

LEMMA StoredNext ==
  ASSUME RestInv, StoredHeld, [ChatNext]_chatVars
  PROVE  StoredHeld'
<1> USE DEF RestInv, Shape, Goes
<1>1. ASSUME NEW r \in Prompt,
             \/ ProviderSelected(r) \/ AnswerAnnounced(r)
             \/ \E h : Finish(r, h)
      PROVE  StoredHeld'
  BY <1>1, PersistStores DEF ProviderSelected, AnswerAnnounced, Finish
<1>2. ASSUME NEW r \in Prompt, StreamEnds(r) \/ StreamThrows(r) \/ Stopped(r)
      PROVE  StoredHeld'
  BY <1>1, <1>2 DEF StreamEnds, StreamThrows, Stopped
<1>3. ASSUME NEW r \in Prompt, GivesUp(r) \/ BecomesBusy(r) \/ StreamStops(r) \/ Send(r)
      PROVE  StoredHeld'
  BY <1>3, SameHistory DEF GivesUp, BecomesBusy, StreamStops, Send
<1>4. ASSUME NEW r \in Prompt, StartsStreaming(r) PROVE StoredHeld'
  <2>1. CASE controller[home[r]] = NoPrompt
    BY <1>1, <1>4, <2>1 DEF StartsStreaming
  <2>2. CASE controller[home[r]] # NoPrompt
    BY <1>4, <2>2, SameHistory DEF StartsStreaming
  <2> QED BY <2>1, <2>2
<1>5. ASSUME NEW r \in Prompt, Chunk(r) PROVE StoredHeld'
  <2>1. CASE home[r] = panel
    BY <1>5, <2>1 DEF Chunk, StoredHeld
  <2>2. CASE home[r] # panel
    BY <1>5, <2>2 DEF Chunk, StoredHeld
  <2> QED BY <2>1, <2>2
<1>6. CASE Cancel \/ UNCHANGED chatVars
  BY <1>6, SameHistory DEF Cancel, chatVars
<1>7. CASE Clear
  BY <1>7, PersistStores DEF Clear
<1>8. CASE ClosePanel
  BY <1>8 DEF ClosePanel, StoredHeld
<1>9. CASE OpenPanel
  <2>1. panel' = panel + 1 /\ panel' \in Panel
    BY <1>9, ChatAssumption DEF OpenPanel, Panel
  <2>2. history'[panel'] = stored /\ stored' = stored
    BY <1>9, <2>1 DEF OpenPanel
  <2> QED BY <2>2 DEF StoredHeld
<1> QED
  BY <1>1, <1>2, <1>3, <1>4, <1>5, <1>6, <1>7, <1>8, <1>9 DEF ChatNext

\* With no prompt under way the stored history is the one the panel shows,
\* whatever was stopped, failed or cleared before.
THEOREM StoredAtRestAlways == ChatSpec => []StoredAtRest
<1>1. ChatInit => RestInv /\ StoredHeld
  BY RestInit, ChatAssumption DEF ChatInit, StoredHeld, Panel
<1>2. RestInv /\ StoredHeld /\ [ChatNext]_chatVars => (RestInv /\ StoredHeld)'
  BY RestNext, StoredNext
<1>3. StoredHeld => StoredAtRest
  BY DEF StoredHeld, StoredAtRest, InFlight, Before, Busy
<1> QED BY <1>1, <1>2, <1>3, PTL DEF ChatSpec

-----------------------------------------------------------------------------
(* The Quality Gates view.                                                    *)

GatesType ==
  /\ design \in Nat
  /\ answers \in [GateRun -> [GateCall -> Nat]]
  /\ asked \in [GateRun -> {"none", "all", "drc"} \cup Gate]
  /\ gates \in [Gate -> Nat] /\ cached = gates
  /\ ended \in [Gate -> Nat] /\ misplaced \subseteq Gate

\* What the view has of a gate is what ended says, but for misplaced rows.
GatesAgree == GatesType /\ \A g \in Gate \ misplaced : gates[g] = ended[g]

LEMMA AnswersType ==
  ASSUME GatesType, NEW r \in GateRun, NEW g \in Gate
  PROVE  answers[r][CallFor(g)] \in Nat
<1>1. CallFor(g) \in GateCall
  BY DEF CallFor, GateCall
<1> QED BY <1>1 DEF GatesType

LEMMA GatesRunEnds ==
  ASSUME GatesAgree, NEW r \in GateRun, RunEnds(r)
  PROVE  GatesAgree'
<1> DEFINE what == asked[r]
           got == answers[r]
<1>1. what \in {"all", "drc"} \cup Gate
  BY DEF GatesAgree, GatesType, RunEnds
<1>2. /\ cached' = gates' /\ UNCHANGED design
      /\ asked' = [asked EXCEPT ![r] = "none"]
      /\ answers' = [answers EXCEPT ![r] = NoAnswers]
  BY DEF RunEnds
<1>3. answers' \in [GateRun -> [GateCall -> Nat]]
  BY <1>2 DEF GatesAgree, GatesType, NoAnswers
<1>4. asked' \in [GateRun -> {"none", "all", "drc"} \cup Gate]
  BY <1>2 DEF GatesAgree, GatesType
<1>5. /\ "drc" \notin Gate /\ "all" \notin Gate /\ FirstRow \in ProjectGates
      /\ ProjectGates = {"schematic", "connectivity"} /\ ProjectGates \subseteq Gate
      /\ Calls("drc") = {"placement", "transfer"}
      /\ Calls("drc") \subseteq Gate \ ProjectGates
  BY GatesAssumption DEF Gate, ProjectGates, Calls
<1>6. gates \in [Gate -> Nat] /\ ended \in [Gate -> Nat]
      /\ \A g \in Gate \ misplaced : gates[g] = ended[g]
  BY DEF GatesAgree, GatesType
<1>7. \A g \in Gate : got[CallFor(g)] \in Nat
  BY AnswersType DEF GatesAgree
<1>8. ended' = [g \in Gate |->
                  IF what = "all" THEN AllGates(got)[g]
                  ELSE IF what = g \/ (what = "drc" /\ g \in Calls("drc"))
                    THEN got[CallFor(g)]
                    ELSE ended[g]]
  BY DEF RunEnds
<1>9. misplaced' = IF what = "all" THEN {}
                   ELSE IF Misplaces(what) THEN misplaced \cup {what, FirstRow}
                   ELSE misplaced \ {what}
  BY DEF RunEnds
<1>10. CASE what = "all"
  <2>1. gates' = AllGates(got)
    BY <1>5, <1>10 DEF RunEnds
  <2>2. AllGates(got) \in [Gate -> Nat]
    BY <1>7 DEF AllGates
  <2>3. ended' = AllGates(got)
    BY <1>8, <1>10, <2>2 DEF AllGates
  <2>4. misplaced' = {}
    BY <1>9, <1>10
  <2> QED BY <1>2, <1>3, <1>4, <2>1, <2>2, <2>3, <2>4 DEF GatesAgree, GatesType
<1>11. CASE what = "drc"
  <2>1. gates' = DrcGates(got)
    BY <1>5, <1>11 DEF RunEnds
  <2>2. ended' = [g \in Gate |-> IF g \in Calls("drc") THEN got[CallFor(g)]
                                 ELSE ended[g]]
    BY <1>5, <1>8, <1>11
  <2>3. \A g \in Calls("drc") : CallFor(g) = g
    BY <1>5 DEF CallFor
  <2>4. gates' = [g \in Gate |-> IF g \in Calls("drc") THEN got[CallFor(g)]
                                 ELSE gates[g]]
    BY <2>1, <2>3 DEF DrcGates
  <2>5. misplaced' = misplaced
    <3>1. ~Misplaces(what) /\ what # "all"
      BY <1>5, <1>11 DEF Misplaces
    <3>2. misplaced' = misplaced \ {"drc"} /\ "drc" \notin misplaced
      BY <1>5, <1>9, <1>11, <3>1 DEF GatesAgree, GatesType
    <3> QED BY <3>2
  <2>6. gates' \in [Gate -> Nat] /\ ended' \in [Gate -> Nat]
    BY <1>6, <1>7, <2>2, <2>4
  <2>7. \A g \in Gate \ misplaced' : gates'[g] = ended'[g]
    BY <1>6, <2>2, <2>4, <2>5
  <2> QED BY <1>2, <1>3, <1>4, <2>5, <2>6, <2>7 DEF GatesAgree, GatesType
<1>12. CASE what \in Gate
  <2>1. gates' = OneGate(what, got)
    BY <1>5, <1>12 DEF RunEnds
  <2>2. ended' = [g \in Gate |-> IF what = g THEN got[CallFor(g)] ELSE ended[g]]
    BY <1>5, <1>8, <1>12
  <2>3. ended' \in [Gate -> Nat]
    BY <1>6, <1>7, <2>2
  <2>4. CASE ~Misplaces(what)
    <3>1. what \notin ProjectGates \/ what = FirstRow
      BY <2>4 DEF Misplaces
    <3>2. gates' = [gates EXCEPT ![what] = got[CallFor(what)]]
      BY <1>5, <2>1, <3>1 DEF OneGate
    <3>3. misplaced' = misplaced \ {what}
      BY <1>5, <1>9, <1>12, <2>4
    <3>4. gates' \in [Gate -> Nat] /\ \A g \in Gate \ misplaced' : gates'[g] = ended'[g]
      BY <1>6, <1>7, <1>12, <2>2, <3>2, <3>3
    <3> QED BY <1>2, <1>3, <1>4, <2>3, <3>3, <3>4 DEF GatesAgree, GatesType
  <2>5. CASE Misplaces(what)
    <3>1. misplaced' = misplaced \cup ProjectGates /\ what \in ProjectGates
      BY <1>5, <1>9, <1>12, <2>5 DEF Misplaces
    <3>2. /\ gates' \in [Gate -> Nat]
          /\ \A g \in Gate \ ProjectGates : gates'[g] = gates[g]
      BY <1>5, <1>6, <1>7, <1>12, <2>1, <2>5 DEF OneGate, Misplaces
    <3>3. \A g \in Gate \ misplaced' : gates'[g] = ended'[g]
      BY <1>6, <2>2, <3>1, <3>2
    <3> QED BY <1>2, <1>3, <1>4, <1>5, <2>3, <3>1, <3>2, <3>3 DEF GatesAgree, GatesType
  <2> QED BY <2>4, <2>5
<1> QED BY <1>1, <1>10, <1>11, <1>12

LEMMA GatesAgreeStep ==
  ASSUME GatesAgree, [GatesNext]_gatesVars
  PROVE  GatesAgree'
<1> USE DEF GatesAgree, GatesType
<1>1. ASSUME NEW r \in GateRun, NEW what \in {"all", "drc"} \cup Gate,
             StartRun(r, what)
      PROVE  GatesAgree'
  BY <1>1 DEF StartRun
<1>2. ASSUME NEW r \in GateRun, RunAll(r) \/ RunGate(r) \/ DrcTimer(r)
      PROVE  GatesAgree'
  BY <1>1, <1>2 DEF RunAll, RunGate, DrcTimer
<1>3. ASSUME NEW r \in GateRun, NEW c \in GateCall, GateAnswered(r, c)
      PROVE  GatesAgree'
  <2>1. [answers[r] EXCEPT ![c] = design] \in [GateCall -> Nat]
    OBVIOUS
  <2> QED BY <1>3, <2>1 DEF GateAnswered
<1>4. ASSUME NEW r \in GateRun, RunFails(r) PROVE GatesAgree'
  <2>1. NoAnswers \in [GateCall -> Nat]
    BY DEF NoAnswers
  <2> QED BY <1>4, <2>1 DEF RunFails
<1>5. CASE ScheduleDrcRefresh \/ ReadCache \/ EditDesign \/ UNCHANGED gatesVars
  BY <1>5 DEF ScheduleDrcRefresh, ReadCache, EditDesign, gatesVars
<1> QED BY <1>2, <1>3, <1>4, <1>5, GatesRunEnds DEF GatesNext

\* Every gate shows what the last run that asked for it found, for any number of
\* overlapping runs of any gates, but for the rows a run of one gate misplaced.
THEOREM GatesShowLastRunAlways == GatesSpec => []GatesShowLastRun
<1>1. GatesInit => GatesAgree
  BY DEF GatesInit, GatesAgree, GatesType, NoAnswers
<1>2. GatesAgree => GatesShowLastRun
  BY DEF GatesAgree, GatesType, GatesShowLastRun
<1> QED BY <1>1, <1>2, GatesAgreeStep, PTL DEF GatesSpec
=============================================================================
