------------------------------- MODULE ReplProofs -------------------------------
(***************************************************************************)
(* Theorems about Repl, for every set of texts, commands, calls and        *)
(* replies, however often the session is opened and whatever may happen.   *)
(***************************************************************************)
EXTENDS Repl, ConversationProofs

-----------------------------------------------------------------------------
(* The inductive invariant, in parts.                                      *)

(* Where the loop is says where the turn can be.                           *)
Placed ==
    /\ mode \in {"opening", "prompt", "have", "command", "exited"} => pc = "idle"
    /\ mode \in {"opening", "command", "exited"} => slot = NoText
    /\ mode = "have" => slot # NoText
    /\ mode = "turnover" /\ turnStatus = "ok" => pc = "idle"
    /\ pc # "idle" => outcome = "none"
    /\ discard => mode = "turn" /\ slot # NoText

(* The live context is the log's from the end of the opening on, and as    *)
(* long as anything may still be sent.                                     *)
LiveWhileItLasts == Running \/ pc # "idle" => LiveMatchesHistory

(* As long as nothing from `hazard` has happened: the turn and the log are *)
(* in step, and the queue in memory is the one in the log.                 *)
Taken ==
    /\ pc = "idle" /\ slot # NoText
    /\ hist.phase = "user" /\ hist.consumed
    /\ hist.pending = slot /\ hist.pendTurn = NextTurn(hist)
    /\ turnId = NextTurn(hist)

Together ==
    /\ ~rejected
    /\ hist.pending # NoText => hist.pendTurn = NextTurn(hist)
    /\ mode \in {"prompt", "command", "turn", "turnover"} =>
          Coupled /\ hist.pending = slot
    /\ mode = "have" => Taken

InStepWithLog == hazard = {} => Together

(* A queued input has turned the turn away from its tools.                 *)
TurnedAway ==
    /\ mode = "turn" /\ pc = "ask" => asking
    /\ mode = "turn" /\ slot # NoText =>
          pc = "idle" \/ (steering /\ pc \notin {"ask", "launch"})

ReplTyped == ReplTypeOK /\ IndexInRange

IInv ==
    /\ ReplTyped /\ Placed /\ Requested /\ LiveWhileItLasts
    /\ AcceptedInputIsKept /\ WriteAhead /\ InStepWithLog /\ TurnedAway

-----------------------------------------------------------------------------
(* The actions, by what they do to the conversation: take steps of it,     *)
(* leave it alone, write to the log on the loop's own account, or end the  *)
(* process.                                                                *)
Starts ==
    RunQueued \/ \E t \in Text \ Commands : RunTyped(t)

Drives ==
    \/ Starts \/ TurnRuns \/ Unwind \/ UnwindRuns \/ CtrlC
    \/ \E b \in BOOLEAN : Signal(b) \/ Decide(b)

Moves ==
    \/ LeaveLoop \/ TurnOver \/ Exit \/ InputCloses \/ DrawingFails
    \/ ReplAtBound \/ \E how \in {"open", "switch"} : Reopen(how)

Writes ==
    \/ RepairOnOpen \/ SeedDraft \/ OpenDone \/ Dequeue \/ DiscardQueue
    \/ Compact \/ Setting \/ \E t \in Text : Submit(t)

Gone == \E how \in {"ok", "failed", "crashed"} : ProcessGone(how)

-----------------------------------------------------------------------------
(* Types.                                                                  *)
PlacesOK ==
    /\ mode \in Modes /\ via \in {"open", "switch"}
    /\ turnStatus \in TurnStatuses
    /\ verdict \in {"ok", "failed", "crashed"}
    /\ opens \in 1..MaxOpens

QueueOK ==
    /\ slot \in Text \cup {NoText}
    /\ draft \in Text \cup {NoText}
    /\ owed \in Text \cup {NoText}

LoopFlagsOK ==
    /\ conv \in BOOLEAN /\ asking \in BOOLEAN
    /\ discard \in BOOLEAN /\ termSig \in BOOLEAN

LoopTyped == PlacesOK /\ QueueOK /\ LoopFlagsOK

LEMMA LoopTypes ==
    /\ ReplTyped <=> Typed /\ LoopTyped
    /\ ReplTyped' <=> Typed' /\ LoopTyped'
  <1>1. {slot, draft, owed} \subseteq Text \cup {NoText} <=> QueueOK
    BY DEF QueueOK
  <1>2. {conv, asking, discard, termSig} \subseteq BOOLEAN <=> LoopFlagsOK
    BY Zenon DEF LoopFlagsOK
  <1>3. ({slot, draft, owed} \subseteq Text \cup {NoText} <=> QueueOK)'
    BY DEF QueueOK
  <1>4. ({conv, asking, discard, termSig} \subseteq BOOLEAN <=> LoopFlagsOK)'
    BY Zenon DEF LoopFlagsOK
  <1> QED
    BY <1>1, <1>2, <1>3, <1>4, Zenon
       DEF ReplTyped, ReplTypeOK, Typed, LoopTyped, PlacesOK

LEMMA NextIsOneOf ==
    ASSUME LoopTyped, [ReplNext]_replVars
    PROVE  Drives \/ Moves \/ Writes \/ Gone \/ UNCHANGED replVars
  <1>1. PanelIsGone \/ Leave \/ Crash => Gone
    BY DEF PanelIsGone, Leave, Crash, Gone, LoopTyped, PlacesOK
  <1> QED
    BY <1>1 DEF ReplNext, Prepare, TakeNext, Finish, User, Drives, Starts, Moves,
                Writes

(* A step of the conversation that the loop takes is one of its own steps. *)
LEMMA DrivesNext ==
    ASSUME LoopTyped, Placed, Drives
    PROVE  [Next]_vars
  <1>1. UNCHANGED convVars => UNCHANGED vars
    BY DEF convVars, vars
  <1>2. CASE RunQueued
    <2>1. Start(slot) /\ slot \in Text
      BY <1>2 DEF RunQueued, StartTurn, LoopTyped, QueueOK, Placed
    <2> QED
      BY <2>1 DEF Next, Embedder
  <1>3. CASE \E t \in Text \ Commands : RunTyped(t)
    BY <1>3 DEF RunTyped, StartTurn, Next, Embedder
  <1>4. CASE TurnRuns \/ UnwindRuns
    BY <1>1, <1>4 DEF TurnRuns, CallbackRuns, During, UnwindRuns, Next
  <1>5. CASE Unwind \/ CtrlC \/ \E b \in BOOLEAN : Signal(b)
    BY <1>1, <1>5 DEF Unwind, CtrlC, Signal, Next, Embedder
  <1>6. CASE \E b \in BOOLEAN : Decide(b)
    BY <1>1, <1>6 DEF Decide, Next, Embedder
  <1> QED
    BY <1>2, <1>3, <1>4, <1>5, <1>6 DEF Drives, Starts

LEMMA MovesKeep ==
    ASSUME Moves \/ UNCHANGED replVars
    PROVE  UNCHANGED vars
  BY DEF Moves, LeaveLoop, TurnOver, Exit, InputCloses, DrawingFails, ReplAtBound,
         Reopen, replVars, convVars, vars

-----------------------------------------------------------------------------
LEMMA PlacesTyped ==
    ASSUME LoopTyped, [ReplNext]_replVars
    PROVE  PlacesOK'
  <1> USE DEF LoopTyped, PlacesOK, Modes, TurnStatuses
  <1>1. CASE Drives
    BY <1>1 DEF Drives, Starts, RunQueued, RunTyped, StartTurn, TurnRuns,
                CallbackRuns, During, Unwind, UnwindRuns, CtrlC, Signal, Decide,
                control
  <1>2. CASE Moves
    <2>1. CASE LeaveLoop \/ InputCloses \/ DrawingFails \/ Exit
      BY <2>1 DEF LeaveLoop, InputCloses, DrawingFails, Exit, Goes, control, loop
    <2>2. CASE TurnOver
      BY <2>2 DEF TurnOver, BackToPrompt, Goes, Fails
    <2>3. CASE ReplAtBound \/ \E how \in {"open", "switch"} : Reopen(how)
      BY <2>3, ReplAssumption
         DEF ReplAtBound, Reopen, replVars, control, loop
    <2> QED
      BY <1>2, <2>1, <2>2, <2>3 DEF Moves
  <1>3. CASE Writes
    BY <1>3 DEF Writes, RepairOnOpen, SeedDraft, OpenDone, OpenAppend, Dequeue,
                DiscardQueue, Compact, Setting, Submit, Goes, Fails, control, loop
  <1>4. CASE Gone
    BY <1>4 DEF Gone, ProcessGone
  <1>5. CASE UNCHANGED replVars
    BY <1>5 DEF replVars, control, loop
  <1> QED
    BY <1>1, <1>2, <1>3, <1>4, <1>5, NextIsOneOf

LEMMA QueueTyped ==
    ASSUME LoopTyped, hist \in History, [ReplNext]_replVars
    PROVE  QueueOK'
  <1> USE DEF LoopTyped, QueueOK
  <1>1. CASE Drives
    BY <1>1 DEF Drives, Starts, RunQueued, RunTyped, StartTurn, TurnRuns,
                CallbackRuns, During, Unwind, UnwindRuns, CtrlC, Signal, Decide,
                queue
  <1>2. CASE Moves \/ UNCHANGED replVars
    BY <1>2 DEF Moves, LeaveLoop, TurnOver, Exit, InputCloses, DrawingFails,
                ReplAtBound, Reopen, replVars, queue
  <1>3. CASE Writes
    <2>1. CASE RepairOnOpen \/ SeedDraft \/ OpenDone
      BY <2>1 DEF RepairOnOpen, SeedDraft, OpenDone, queue, History
    <2>2. CASE Dequeue \/ DiscardQueue
      BY <2>2 DEF Dequeue, DiscardQueue
    <2>3. CASE Compact \/ Setting \/ \E t \in Text : Submit(t)
      BY <2>3 DEF Compact, Setting, Submit
    <2> QED
      BY <1>3, <2>1, <2>2, <2>3 DEF Writes
  <1>4. CASE Gone
    BY <1>4 DEF Gone, ProcessGone
  <1> QED
    BY <1>1, <1>2, <1>3, <1>4, NextIsOneOf

LEMMA LoopFlagsTyped ==
    ASSUME LoopTyped, [ReplNext]_replVars
    PROVE  LoopFlagsOK'
  <1> USE DEF LoopTyped, LoopFlagsOK
  <1>1. CASE Drives
    <2>1. UNCHANGED conv \/ conv' = TRUE
      BY <1>1 DEF Drives, Starts, RunQueued, RunTyped, StartTurn, TurnRuns,
                  CallbackRuns, During, Unwind, UnwindRuns, CtrlC, Signal, Decide,
                  control
    <2>2. asking' \in BOOLEAN
      BY <1>1, Zenon
         DEF Drives, Starts, RunQueued, RunTyped, StartTurn, TurnRuns,
             CallbackRuns, During, Unwind, UnwindRuns, CtrlC, Signal, Decide
    <2>3. discard' \in BOOLEAN /\ termSig' \in BOOLEAN
      BY <1>1, Zenon
         DEF Drives, Starts, RunQueued, RunTyped, StartTurn, TurnRuns,
             CallbackRuns, During, Unwind, UnwindRuns, CtrlC, Signal, Decide
    <2> QED
      BY <2>1, <2>2, <2>3, Zenon
  <1>2. CASE Moves \/ UNCHANGED replVars
    BY <1>2, Zenon
       DEF Moves, LeaveLoop, TurnOver, BackToPrompt, Goes, Fails, Exit,
           InputCloses, DrawingFails, ReplAtBound, Reopen, replVars, control, loop
  <1>3. CASE Writes
    BY <1>3, Zenon
       DEF Writes, RepairOnOpen, SeedDraft, OpenDone, OpenAppend, Dequeue,
           DiscardQueue, Compact, Setting, Submit, Goes, Fails, control, loop
  <1>4. CASE Gone
    BY <1>4, Zenon DEF Gone, ProcessGone
  <1> QED
    BY <1>1, <1>2, <1>3, <1>4, NextIsOneOf

-----------------------------------------------------------------------------
(* What the loop writes on its own account: a repair of the turn last      *)
(* started, or a record of the queue or of the command at hand.            *)
RepairAdded(h, g) ==
    \/ \E id \in CallId, o \in Outcome :
          /\ AcceptsTool(h, h.started, id, o, "repair", FALSE)
          /\ g = AfterTool(h, id, o)
    \/ /\ AcceptsAssistant(h, h.started, "repair", <<>>)
       /\ g = AfterAssistant(h, <<>>)

QueueAdded(h, g) ==
    \/ \E t \in Text : /\ AcceptsQueued(h, NextTurn(h))
                       /\ g = AfterQueued(h, NextTurn(h), t)
    \/ \E how \in {"consumed", "discarded"} :
          /\ AcceptsResolved(h, h.pendTurn, how)
          /\ g = AfterResolved(h, how)

CheckpointAdded(h, g) ==
    \E p : /\ AcceptsCheckpoint(h, p) /\ EndsARound(h.ctx, p)
           /\ g = AfterCheckpoint(h, p)

LoopAdded(h, g) ==
    RepairAdded(h, g) \/ QueueAdded(h, g) \/ CheckpointAdded(h, g)

LEMMA RepairIsOfTheTurn ==
    ASSUME NEW h \in History, NEW g, RepairAdded(h, g)
    PROVE  /\ RestAdded(h, g, h.started)
           /\ g.phase = "tools" => h.phase = "tools" /\ h.began = g.began
  <1>1. <<>> \in Seq(CallId) /\ "repair" \in Source
    BY DEF Source
  <1>2. RestAdded(h, g, h.started)
    BY <1>1 DEF RepairAdded, RestAdded
  <1>3. ASSUME NEW id \in CallId, NEW o \in Outcome,
               AcceptsTool(h, h.started, id, o, "repair", FALSE),
               g = AfterTool(h, id, o)
        PROVE  g.phase = "tools" => h.phase = "tools" /\ h.began = g.began
    BY <1>3, AfterToolRound DEF AcceptsTool
  <1>4. ASSUME g = AfterAssistant(h, <<>>)
        PROVE  g.phase # "tools"
    BY <1>4, AfterAssistantEffect
  <1> QED
    BY <1>2, <1>3, <1>4 DEF RepairAdded

LEMMA LoopKeepsShape ==
    ASSUME NEW h \in History, Shape(h), NEW g, LoopAdded(h, g)
    PROVE  /\ g \in History /\ Shape(g) /\ g.started = h.started
           /\ g.phase = "tools" => h.phase = "tools" /\ h.began = g.began
  <1>1. h.started \in Nat /\ NextTurn(h) \in Nat
    BY DEF History, NextTurn
  <1>2. CASE RepairAdded(h, g)
    <2>1. RestAdded(h, g, h.started) /\ RecordAdded(h, g, h.started)
      BY <1>2, RepairIsOfTheTurn DEF RecordAdded
    <2>2. g \in History /\ Shape(g) /\ g.started = h.started
      BY <1>1, <2>1, RecordKeepsShape, RestKeepsQueue
    <2> QED
      BY <1>2, <2>2, RepairIsOfTheTurn
  <1>3. CASE \E t \in Text : /\ AcceptsQueued(h, NextTurn(h))
                             /\ g = AfterQueued(h, NextTurn(h), t)
    BY <1>1, <1>3, AfterQueuedEffect, AfterQueuedShape DEF SameRound
  <1>4. CASE \E how \in {"consumed", "discarded"} :
                /\ AcceptsResolved(h, h.pendTurn, how)
                /\ g = AfterResolved(h, how)
    <2>1. PICK how \in {"consumed", "discarded"} :
             AcceptsResolved(h, h.pendTurn, how) /\ g = AfterResolved(h, how)
      BY <1>4
    <2>2. /\ g \in History /\ SameRound(h, g) /\ g.started = h.started
          /\ g.began = h.began
      BY <2>1, AfterResolvedEffect, Zenon
    <2>3. Shape(g)
      BY <2>1, AfterResolvedShape
    <2> QED
      BY <2>2, <2>3 DEF SameRound
  <1>5. CASE CheckpointAdded(h, g)
    <2>1. PICK p : /\ AcceptsCheckpoint(h, p) /\ EndsARound(h.ctx, p)
                   /\ g = AfterCheckpoint(h, p)
      BY <1>5 DEF CheckpointAdded
    <2>2. p \in 1..Len(h.ctx)
      BY <2>1 DEF AcceptsCheckpoint
    <2>3. /\ g \in History /\ g.started = h.started
          /\ g.phase = h.phase /\ g.began = h.began
      BY <2>1, <2>2, AfterCheckpointEffect
    <2> QED
      BY <2>1, <2>3, AfterCheckpointShape
  <1> QED
    BY <1>2, <1>3, <1>4, <1>5 DEF LoopAdded, QueueAdded

(* The open call build_repairs begins with.                                *)
LEMMA FirstOpenCall ==
    ASSUME NEW h \in History, Unresolved(h) # {}
    PROVE  LET i == CHOOSE k \in Unresolved(h) :
                       \A m \in Unresolved(h) : k <= m
           IN  i \in DOMAIN h.calls /\ h.calls[i] \in ToSet(h.calls) \ h.resolved
               /\ h.calls[i] \in CallId
  <1> DEFINE S == Unresolved(h)
             i == CHOOSE k \in S : \A m \in S : k <= m
  <1>1. h.calls \in Seq(CallId) /\ S \in SUBSET Nat /\ S # {}
    BY DEF Unresolved, History
  <1>2. \E k \in S : \A m \in S : k <= m
    <2> DEFINE R == OpToRel(<, Nat)
    <2>1. PICK k \in S : \A m \in S : <<m, k>> \notin R
      <3> HIDE DEF S, R
      <3>1. IsWellFoundedOn(R, Nat)
        BY NatLessThanWellFounded DEF R
      <3> QED
        BY <1>1, <3>1, WFMin, Zenon
    <2>2. \A m, n \in Nat : m < n => <<m, n>> \in R
      BY DEF OpToRel
    <2>3. ASSUME NEW m \in S
          PROVE  k <= m
      <3>1. k \in Nat /\ m \in Nat
        BY <1>1
      <3>2. ~(m < k)
        BY <2>1, <2>2, <3>1, Zenon
      <3> QED
        BY <3>1, <3>2
    <2> QED
      BY <2>3, Zenon
  <1>3. i \in S
    BY <1>2
  <1> HIDE DEF i
  <1>4. i \in DOMAIN h.calls /\ h.calls[i] \notin h.resolved
    BY <1>3 DEF Unresolved
  <1>5. h.calls[i] \in ToSet(h.calls) /\ h.calls[i] \in CallId
    BY <1>1, <1>4 DEF ToSet
  <1> QED
    BY <1>4, <1>5 DEF i

LEMMA RepairOnOpenAdds ==
    ASSUME hist \in History, RepairOnOpen
    PROVE  hist' = hist \/ RepairAdded(hist, hist')
  <1>1. CASE Unresolved(hist) # {}
    <2> DEFINE i  == CHOOSE k \in Unresolved(hist) :
                       \A m \in Unresolved(hist) : k <= m
               id == hist.calls[i]
               o  == IF id \in hist.began THEN "unknown" ELSE "not_executed"
               ok == AcceptsTool(hist, hist.started, id, o, "repair", FALSE)
    <2>1. OpenAppend(ok, AfterTool(hist, id, o))
      BY <1>1 DEF RepairOnOpen
    <2>2. id \in CallId
      BY <1>1, FirstOpenCall
    <2>3. o \in Outcome
      BY DEF Outcome
    <2> HIDE DEF id, o
    <2>4. hist' = hist \/ (ok /\ hist' = AfterTool(hist, id, o))
      BY <2>1 DEF OpenAppend, Wrote, WriteFailed
    <2> QED
      BY <2>2, <2>3, <2>4 DEF RepairAdded
  <1>2. CASE Unresolved(hist) = {}
    <2>1. OpenAppend(AcceptsAssistant(hist, hist.started, "repair", <<>>),
                     AfterAssistant(hist, <<>>))
      BY <1>2 DEF RepairOnOpen
    <2> QED
      BY <2>1 DEF OpenAppend, Wrote, WriteFailed, RepairAdded
  <1> QED
    BY <1>1, <1>2

LEMMA CompactAdds ==
    ASSUME LiveMatchesHistory, hist \in History, Compact
    PROVE  \/ hist' = hist /\ live' = live
           \/ CheckpointAdded(hist, hist') /\ live' = hist'.ctx
  <1>1. PICK p \in TurnPrefixes :
           \/ hist' = hist /\ live' = live
           \/ /\ AcceptsCheckpoint(hist, p) /\ hist' = AfterCheckpoint(hist, p)
              /\ live' = Splice(live, p)
    BY DEF Compact, Wrote, WriteFailed, ApplyCheckpoint
  <1>2. EndsARound(hist.ctx, p)
    BY DEF TurnPrefixes, EndsARound, LiveMatchesHistory
  <1>3. CASE AcceptsCheckpoint(hist, p) /\ hist' = AfterCheckpoint(hist, p)
             /\ live' = Splice(live, p)
    <2>1. p \in 1..Len(hist.ctx)
      BY <1>3 DEF AcceptsCheckpoint
    <2>2. hist'.ctx = Splice(hist.ctx, p)
      BY <1>3, <2>1, AfterCheckpointEffect
    <2> QED
      BY <1>2, <1>3, <2>2 DEF CheckpointAdded, LiveMatchesHistory
  <1> QED
    BY <1>1, <1>3

LEMMA QueueAdds ==
    ASSUME hist \in History,
           SeedDraft \/ Dequeue \/ DiscardQueue \/ \E t \in Text : Submit(t)
    PROVE  hist' = hist \/ QueueAdded(hist, hist')
  <1>1. CASE SeedDraft
    BY <1>1 DEF SeedDraft, OpenAppend, Wrote, WriteFailed, QueueAdded
  <1>2. CASE Dequeue
    BY <1>2 DEF Dequeue, Wrote, WriteFailed, QueueAdded
  <1>3. CASE DiscardQueue
    BY <1>3 DEF DiscardQueue, Wrote, WriteFailed, QueueAdded
  <1>4. CASE \E t \in Text : Submit(t)
    BY <1>4 DEF Submit, Wrote, WriteFailed, QueueAdded
  <1> QED
    BY <1>1, <1>2, <1>3, <1>4

LEMMA WritesAdd ==
    ASSUME hist \in History, LiveWhileItLasts, Writes
    PROVE  hist' = hist \/ LoopAdded(hist, hist')
  <1>1. CASE RepairOnOpen
    BY <1>1, RepairOnOpenAdds DEF LoopAdded
  <1>2. CASE SeedDraft \/ Dequeue \/ DiscardQueue \/ \E t \in Text : Submit(t)
    BY <1>2, QueueAdds DEF LoopAdded
  <1>3. CASE OpenDone \/ Setting
    BY <1>3 DEF OpenDone, Setting, Wrote, WriteFailed
  <1>4. CASE Compact
    <2>1. LiveMatchesHistory
      BY <1>4 DEF Compact, AtCommand, AtPrompt, Running, LiveWhileItLasts
    <2> QED
      BY <1>4, <2>1, CompactAdds DEF LoopAdded
  <1> QED
    BY <1>1, <1>2, <1>3, <1>4 DEF Writes

(* And the rest of the conversation it leaves as it is.                    *)
LEMMA WritesKeep ==
    ASSUME Writes
    PROVE  /\ UNCHANGED <<pc, steps, calls, ti, committed, text, ran, closing>>
           /\ turnId' = turnId \/ turnId' = NextTurn(hist)
           /\ hazard \subseteq hazard'
  <1>1. CASE RepairOnOpen
    <2>1. UNCHANGED <<turnId, pc, progress, closing, ran>>
      BY <1>1 DEF RepairOnOpen
    <2>2. \E ok, after : OpenAppend(ok, after)
      BY <1>1 DEF RepairOnOpen
    <2> QED
      BY <2>1, <2>2 DEF OpenAppend, WriteFailed, progress
  <1>2. CASE SeedDraft
    <2>1. UNCHANGED <<turnId, pc, progress, closing, ran>>
      BY <1>2 DEF SeedDraft
    <2>2. \E ok, after : OpenAppend(ok, after)
      BY <1>2 DEF SeedDraft
    <2> QED
      BY <2>1, <2>2 DEF OpenAppend, WriteFailed, progress
  <1>3. CASE OpenDone
    BY <1>3 DEF OpenDone, WriteFailed, progress
  <1>4. CASE Dequeue
    BY <1>4 DEF Dequeue, WriteFailed, progress
  <1>5. CASE DiscardQueue
    BY <1>5 DEF DiscardQueue, WriteFailed, progress
  <1>6. CASE Compact
    BY <1>6 DEF Compact, WriteFailed, progress
  <1>7. CASE Setting
    BY <1>7 DEF Setting, WriteFailed, progress
  <1>8. CASE \E t \in Text : Submit(t)
    BY <1>8 DEF Submit, WriteFailed
  <1> QED
    BY <1>1, <1>2, <1>3, <1>4, <1>5, <1>6, <1>7, <1>8 DEF Writes

LEMMA WritesKeepFlags ==
    ASSUME Writes
    PROVE  /\ steering' = steering \/ steering' = (steering \/ pc # "idle")
           /\ lastError' = lastError \/ lastError' = TRUE
           /\ rejected' = rejected \/ \E ok : rejected' = (rejected \/ ~ok)
  <1>1. CASE RepairOnOpen
    <2>1. UNCHANGED progress
      BY <1>1, Zenon DEF RepairOnOpen
    <2>2. \E ok, after : OpenAppend(ok, after)
      BY <1>1, Zenon DEF RepairOnOpen
    <2> QED
      BY <2>1, <2>2, Zenon DEF OpenAppend, Wrote, WriteFailed, progress
  <1>2. CASE SeedDraft
    BY <1>2, Zenon DEF SeedDraft, OpenAppend, Wrote, WriteFailed, progress
  <1>3. CASE OpenDone
    BY <1>3, Zenon DEF OpenDone, WriteFailed, progress
  <1>4. CASE Dequeue
    BY <1>4, Zenon DEF Dequeue, Wrote, WriteFailed, progress
  <1>5. CASE DiscardQueue
    BY <1>5, Zenon DEF DiscardQueue, Wrote, WriteFailed, progress
  <1>6. CASE Compact
    BY <1>6, Zenon DEF Compact, Wrote, WriteFailed, progress
  <1>7. CASE Setting
    BY <1>7, Zenon DEF Setting, Wrote, WriteFailed, progress
  <1>8. CASE \E t \in Text : Submit(t)
    BY <1>8, Zenon DEF Submit, Wrote, WriteFailed
  <1> QED
    BY <1>1, <1>2, <1>3, <1>4, <1>5, <1>6, <1>7, <1>8, Zenon DEF Writes

LEMMA WritesTyped ==
    ASSUME Typed, Shape(hist), LiveWhileItLasts, Writes
    PROVE  Typed'
  <1> USE DEF Typed, TypeOK
  <1>1. /\ UNCHANGED <<pc, steps, calls, ti, committed, text, ran>>
        /\ UNCHANGED <<mayStart, rFail, ending, outcome>>
        /\ turnId' = turnId \/ turnId' = NextTurn(hist)
    BY WritesKeep DEF closing
  <1>2. StoreOK'
    BY WritesAdd, LoopKeepsShape DEF StoreOK
  <1>3. ProgressOK' /\ ran' \subseteq CallId
    BY <1>1 DEF ProgressOK
  <1>4. PlaceOK' /\ IndexInRange'
    BY <1>1 DEF PlaceOK, IndexInRange, StoreOK, History, NextTurn
  <1>5. FlagsOK'
    BY <1>1, WritesKeepFlags, Zenon DEF FlagsOK
  <1> QED
    BY <1>2, <1>3, <1>4, <1>5

LEMMA GoneTyped ==
    ASSUME Typed, Gone
    PROVE  Typed'
  <1> USE DEF Typed, TypeOK, Gone, ProcessGone
  <1>1. StoreOK' /\ (ran \subseteq CallId)'
    BY DEF StoreOK
  <1>2. ProgressOK'
    BY ConversationAssumption DEF ProgressOK
  <1>3. PlaceOK' /\ IndexInRange'
    BY DEF PlaceOK, Waiting, IndexInRange, Serving
  <1>4. FlagsOK'
    BY Zenon DEF FlagsOK
  <1> QED
    BY <1>1, <1>2, <1>3, <1>4

LEMMA ReplTypedStep ==
    ASSUME ReplTyped, Placed, Shape(hist), LiveWhileItLasts,
           [ReplNext]_replVars
    PROVE  ReplTyped'
  <1>1. Typed /\ LoopTyped
    BY LoopTypes
  <1>2. hist \in History
    BY <1>1 DEF Typed, TypeOK, StoreOK
  <1>3. LoopTyped'
    BY <1>1, <1>2, PlacesTyped, QueueTyped, LoopFlagsTyped DEF LoopTyped
  <1>4. Typed'
    <2>1. CASE Drives
      BY <1>1, <2>1, DrivesNext, TypedStep
    <2>2. CASE Moves \/ UNCHANGED replVars
      BY <1>1, <2>2, MovesKeep, TypedUnchanged
    <2> QED
      BY <1>1, <2>1, <2>2, WritesTyped, GoneTyped, NextIsOneOf
  <1> QED
    BY <1>3, <1>4, LoopTypes

LEMMA ReplInitTyped == ReplInit => ReplTyped
  <1> SUFFICES ASSUME ReplInit
               PROVE  ReplTyped
    OBVIOUS
  <1>1. PICK n \in LegacyLengths, t \in Text : Created(LegacyHistory(n, t))
    BY DEF ReplInit
  <1>2. n \in Nat /\ (n + 1) \div 2 <= MaxTurns
    BY ReplAssumption
  <1>3. hist \in History /\ hist.started <= MaxTurns
    BY <1>1, <1>2, LegacyEffect DEF Created
  <1>4. /\ turnId \in Nat /\ pc = "idle" /\ steps = 0 /\ calls = <<>> /\ ti = 1
        /\ ending = "failed" /\ outcome = "ok" /\ ran = {}
    BY <1>1, <1>3 DEF Created, NextTurn, History
  <1>5. StoreOK /\ ProgressOK
    BY <1>3, <1>4, ConversationAssumption DEF StoreOK, ProgressOK
  <1>6. PlaceOK /\ IndexInRange
    BY <1>4 DEF PlaceOK, Waiting, IndexInRange, Serving
  <1>7. FlagsOK
    BY <1>1, Zenon DEF FlagsOK, Created
  <1>8. Typed
    BY <1>4, <1>5, <1>6, <1>7 DEF Typed, TypeOK
  <1>9. PlacesOK /\ QueueOK
    BY ReplAssumption DEF ReplInit, PlacesOK, QueueOK, Modes, TurnStatuses
  <1>10. LoopFlagsOK
    BY Zenon DEF ReplInit, LoopFlagsOK
  <1> QED
    BY <1>8, <1>9, <1>10, LoopTypes DEF LoopTyped

-----------------------------------------------------------------------------
(* Log, context and queue: what each class of steps does to them.          *)
LEMMA QuietNext ==
    ASSUME LoopTyped, Placed, Drives \/ Moves \/ UNCHANGED replVars
    PROVE  [Next]_vars
  BY DrivesNext, MovesKeep

(* A step that does not start a turn goes on with what is under way.       *)
LEMMA DrivesOn ==
    ASSUME Drives
    PROVE  Starts \/ (GoesOn /\ UNCHANGED queue)
  <1>1. UNCHANGED convVars => UNCHANGED vars
    BY DEF convVars, vars
  <1>2. CASE TurnRuns \/ UnwindRuns
    BY <1>1, <1>2 DEF TurnRuns, CallbackRuns, During, UnwindRuns, GoesOn
  <1>3. CASE Unwind \/ CtrlC \/ \E b \in BOOLEAN : Signal(b) \/ Decide(b)
    BY <1>1, <1>3 DEF Unwind, CtrlC, Signal, Decide, GoesOn
  <1> QED
    BY <1>2, <1>3 DEF Drives

(* Only an input submitted during a turn is written while a turn is on.    *)
LEMMA WritesAtRest ==
    ASSUME Placed, Writes
    PROVE  pc = "idle" \/ \E t \in Text : Submit(t)
  BY DEF Placed, Writes, RepairOnOpen, SeedDraft, OpenDone, Dequeue, DiscardQueue,
         Compact, Setting, AtCommand, AtPrompt

LEMMA ReplRequestedStep ==
    ASSUME ReplTyped, Placed, Requested, LiveWhileItLasts,
           [ReplNext]_replVars
    PROVE  Requested'
  <1>1. Typed /\ LoopTyped /\ hist \in History
    BY LoopTypes DEF Typed, TypeOK, StoreOK
  <1>2. CASE Drives \/ Moves \/ UNCHANGED replVars
    BY <1>1, <1>2, QuietNext, RequestedStep
  <1>3. CASE Writes
    <2>1. Shape(hist')
      BY <1>1, <1>3, WritesAdd, LoopKeepsShape DEF Requested
    <2>2. UNCHANGED <<pc, calls, ti>>
      BY <1>3, WritesKeep
    <2>3. pc = "idle" => InRequest'
      BY <2>2 DEF InRequest, Asking
    <2>4. ASSUME \E t \in Text : Submit(t)
          PROVE  InRequest'
      <3>0. NextTurn(hist) \in Nat
        BY <1>1 DEF NextTurn, History
      <3>1. PICK t \in Text : Submit(t)
        BY <2>4
      <3>2. hist' = hist \/ hist' = AfterQueued(hist, NextTurn(hist), t)
        BY <3>1 DEF Submit, Wrote, WriteFailed
      <3>3. SameRound(hist, hist')
        BY <1>1, <3>0, <3>2, AfterQueuedEffect DEF SameRound
      <3> QED
        BY <2>2, <3>3 DEF Requested, InRequest, SameRound, Before
    <2> QED
      BY <1>3, <2>1, <2>3, <2>4, WritesAtRest DEF Requested
  <1>4. CASE Gone
    BY <1>4 DEF Gone, ProcessGone, Requested, InRequest, Asking
  <1> QED
    BY <1>1, <1>2, <1>3, <1>4, NextIsOneOf

LEMMA LiveStep ==
    ASSUME ReplTyped, Placed, LiveWhileItLasts, [ReplNext]_replVars
    PROVE  LiveWhileItLasts'
  <1>1. Typed /\ LoopTyped /\ hist \in History
    BY LoopTypes DEF Typed, TypeOK, StoreOK
  <1>2. ASSUME LiveMatchesHistory, [Next]_vars
        PROVE  LiveMatchesHistory'
    BY <1>1, <1>2, ContextStep
       DEF LiveMatchesHistory, SameContexts, MessageAdded, ResultAdded
  <1>3. CASE Drives
    <2>1. Running
      BY <1>3 DEF Drives, Starts, RunQueued, RunTyped, AtPrompt, TurnRuns,
                  CallbackRuns, During, InBatch, Unwind, EndOfTurn, UnwindRuns,
                  CtrlC, Signal, Decide, Running
    <2> QED
      BY <1>1, <1>2, <1>3, <2>1, QuietNext DEF LiveWhileItLasts
  <1>4. CASE Moves \/ UNCHANGED replVars
    <2>1. UNCHANGED pc /\ UNCHANGED <<hist, live>>
      BY <1>4, MovesKeep DEF vars, store
    <2>2. Running' => Running
      BY <1>4 DEF Moves, LeaveLoop, TurnOver, EndOfTurn, Exit, AtCommand, AtPrompt,
                  InputCloses, InBatch, DrawingFails, ReplAtBound, Reopen, Running,
                  Goes, replVars, control
    <2> QED
      BY <2>1, <2>2 DEF LiveWhileItLasts, LiveMatchesHistory
  <1>5. CASE RepairOnOpen \/ SeedDraft
    BY <1>5 DEF RepairOnOpen, SeedDraft, OpenAppend, control, Running, Placed,
                LiveWhileItLasts
  <1>6. CASE OpenDone
    BY <1>6 DEF OpenDone, Running, Placed, LiveWhileItLasts, LiveMatchesHistory,
                WriteFailed
  <1>7. CASE Dequeue \/ DiscardQueue \/ Setting \/ \E t \in Text : Submit(t)
    <2>1. Running /\ live' = live
      BY <1>7 DEF Dequeue, DiscardQueue, Setting, AtCommand, AtPrompt, Submit,
                  InBatch, Running
    <2>2. \/ hist' = hist
          \/ QueueAdded(hist, hist')
      <3>1. CASE Setting
        BY <3>1 DEF Setting, Wrote, WriteFailed
      <3> QED
        BY <1>1, <1>7, <3>1, QueueAdds
    <2>3. hist'.ctx = hist.ctx
      <3>1. NextTurn(hist) \in Nat
        BY <1>1 DEF NextTurn, History
      <3> QED
        BY <1>1, <2>2, <3>1, AfterQueuedEffect, AfterResolvedEffect
           DEF QueueAdded, SameRound
    <2> QED
      BY <2>1, <2>3 DEF LiveWhileItLasts, LiveMatchesHistory
  <1>8. CASE Compact
    <2>1. LiveMatchesHistory
      BY <1>8 DEF Compact, AtCommand, AtPrompt, Running, LiveWhileItLasts
    <2> QED
      BY <1>1, <1>8, <2>1, CompactAdds DEF LiveWhileItLasts, LiveMatchesHistory
  <1>9. CASE Gone
    BY <1>9 DEF Gone, ProcessGone, LiveWhileItLasts, Running
  <1> QED
    BY <1>1, <1>3, <1>4, <1>5, <1>6, <1>7, <1>8, <1>9, NextIsOneOf DEF Writes

LEMMA ReplWriteAheadStep ==
    ASSUME ReplTyped, Placed, Shape(hist), LiveWhileItLasts, WriteAhead,
           [ReplNext]_replVars
    PROVE  WriteAhead'
  <1>1. Typed /\ LoopTyped /\ hist \in History
    BY LoopTypes DEF Typed, TypeOK, StoreOK
  <1>2. CASE Drives \/ Moves \/ UNCHANGED replVars
    BY <1>1, <1>2, QuietNext, WriteAheadStep
  <1>3. CASE Writes
    BY <1>1, <1>3, WritesAdd, WritesKeep, LoopKeepsShape DEF WriteAhead
  <1>4. CASE Gone
    BY <1>4 DEF Gone, ProcessGone, WriteAhead
  <1> QED
    BY <1>1, <1>2, <1>3, <1>4, NextIsOneOf

-----------------------------------------------------------------------------
(* The outcome of the turn is open as long as the turn is.                 *)
OutcomeOpen == pc # "idle" => outcome = "none"

LEMMA OutcomeStep ==
    ASSUME OutcomeOpen, [Next]_vars
    PROVE  OutcomeOpen'
  <1> USE DEF OutcomeOpen
  <1>1. CASE \E t \in Text : Start(t)
    BY <1>1 DEF Start, FinishTurn
  <1>2. CASE \/ TurnAway \/ NextRound \/ StageTool \/ LaunchTool \/ RefuseTool
    BY <1>2 DEF TurnAway, NextRound, StageTool, LaunchTool, RefuseTool, Goto,
                CloseOut, closing
  <1>3. CASE RepairCall \/ SkipCall \/ RepairMarker \/ SteeredBookend
    BY <1>3 DEF RepairCall, SkipCall, RepairMarker, SteeredBookend, FillIn,
                AfterFillIn, Close, FinishTurn, Goto, closing
  <1>4. CASE \/ Stream \/ StreamBreaks \/ ReplyFails \/ ToolDone \/ ToolBreaks
    BY <1>4 DEF Stream, StreamBreaks, ReplyFails, ToolDone, ToolBreaks, Goto,
                CloseOut, closing
  <1>5. CASE \E r \in Replies : Reply(r)
    BY <1>5 DEF Reply, FinishTurn, Goto, CloseOut, closing
  <1>6. CASE Cancel \/ Steer \/ \E allow \in BOOLEAN : Answer(allow)
    BY <1>6 DEF Cancel, Steer, Answer, Goto, CloseOut, closing
  <1>7. CASE AtBound \/ UNCHANGED vars
    BY <1>7 DEF AtBound, vars, closing
  <1> QED
    BY <1>1, <1>2, <1>3, <1>4, <1>5, <1>6, <1>7
       DEF Next, RunOn, World, ModelAnswers, Embedder

LEMMA CallbackIsBusy == RunOn => pc # "idle"
  BY DEF RunOn, TurnAway, NextRound, StageTool, LaunchTool, RefuseTool, RepairCall,
         SkipCall, RepairMarker, SteeredBookend

LEMMA PlacedStep ==
    ASSUME ReplTyped, Placed, [ReplNext]_replVars
    PROVE  Placed'
  <1>1. LoopTyped
    BY LoopTypes
  <1>2. CASE Starts
    <2>1. \/ pc' = "idle"
          \/ pc' = "model" /\ outcome' = "none"
      BY <1>2 DEF Starts, RunQueued, RunTyped, StartTurn, Start, FinishTurn
    <2>2. mode' = (IF pc' = "model" THEN "turn" ELSE "turnover")
          /\ turnStatus' = (IF pc' = "model" THEN "ok" ELSE "loop")
          /\ discard' = discard /\ mode # "turn"
      BY <1>2 DEF Starts, RunQueued, RunTyped, AtPrompt, StartTurn
    <2> QED
      BY <2>1, <2>2 DEF Placed
  <1>3. CASE Drives /\ ~Starts
    <2>1. outcome' = "none" \/ pc' = "idle"
      BY <1>1, <1>3, QuietNext, OutcomeStep DEF Placed, OutcomeOpen
    <2>2. UNCHANGED <<mode, slot>>
      BY <1>3 DEF Drives, Starts, TurnRuns, CallbackRuns, During, Unwind,
                  UnwindRuns, CtrlC, Signal, Decide, control, queue
    <2>3. /\ discard' => mode = "turn" /\ slot # NoText
          /\ \/ mode = "turn"
             \/ mode = "turnover" /\ turnStatus' # "ok"
      <3>1. CASE UnwindRuns
        BY <1>3, <3>1, CallbackIsBusy DEF UnwindRuns, Placed
      <3>2. CASE TurnRuns \/ \E b \in BOOLEAN : Signal(b) \/ Decide(b)
        <4>1. mode = "turn" /\ UNCHANGED discard
          BY <3>2 DEF TurnRuns, CallbackRuns, During, Signal, Decide, InBatch
        <4> QED
          BY <4>1 DEF Placed
      <3>3. CASE CtrlC
        BY <3>3 DEF CtrlC, InBatch
      <3>4. CASE Unwind
        BY <3>4 DEF Unwind, EndOfTurn, Placed
      <3> QED
        BY <1>3, <3>1, <3>2, <3>3, <3>4 DEF Drives
    <2> QED
      BY <2>1, <2>2, <2>3 DEF Placed
  <1>4. CASE Moves \/ UNCHANGED replVars
    <2>1. UNCHANGED <<pc, outcome>>
      BY <1>4, MovesKeep DEF vars, closing
    <2>2. CASE UNCHANGED replVars
      BY <2>1, <2>2 DEF Placed, replVars, control, queue, loop
    <2>3. CASE LeaveLoop \/ DrawingFails \/ InputCloses
      BY <2>1, <2>3 DEF LeaveLoop, DrawingFails, InputCloses, InBatch, Goes, Placed,
                        control, queue, loop
    <2>4. CASE TurnOver
      BY <2>1, <2>4 DEF TurnOver, EndOfTurn, Cancelled, Broken, BackToPrompt, Goes,
                        Fails, Placed, queue
    <2>5. CASE Exit \/ ReplAtBound \/ \E how \in {"open", "switch"} : Reopen(how)
      BY <2>1, <2>5 DEF Exit, AtCommand, AtPrompt, ReplAtBound, Reopen, Placed,
                        replVars, control, queue, loop
    <2> QED
      BY <1>4, <2>2, <2>3, <2>4, <2>5 DEF Moves
  <1>5. CASE Writes
    <2>1. UNCHANGED <<pc, outcome>>
      BY <1>5, WritesKeep DEF closing
    <2>2. CASE RepairOnOpen \/ SeedDraft
      <3>1. mode = "opening" /\ UNCHANGED <<slot, discard>>
        BY <2>2 DEF RepairOnOpen, SeedDraft, queue, loop
      <3>2. \E ok, after : OpenAppend(ok, after)
        BY <2>2 DEF RepairOnOpen, SeedDraft
      <3>3. mode' \in {"opening", "leaving"}
        BY <3>1, <3>2 DEF OpenAppend, control
      <3> QED
        BY <2>1, <3>1, <3>3 DEF Placed
    <2>3. CASE OpenDone
      BY <2>1, <2>3 DEF OpenDone, Placed, queue, loop
    <2>4. CASE Dequeue
      BY <2>1, <2>4 DEF Dequeue, Goes, Fails, Placed, loop
    <2>5. CASE Compact \/ Setting
      BY <2>1, <2>5 DEF Compact, Setting, AtCommand, AtPrompt, Goes, Fails, Placed,
                        loop
    <2>6. CASE DiscardQueue \/ \E t \in Text : Submit(t)
      <3>1. UNCHANGED mode
        BY <2>6 DEF DiscardQueue, Submit, control
      <3>2. mode = "turn"
        BY <2>6 DEF DiscardQueue, Submit, InBatch
      <3>3. ~discard'
        BY <2>6, Zenon DEF DiscardQueue, Submit, InBatch
      <3> QED
        BY <2>1, <3>1, <3>2, <3>3 DEF Placed
    <2> QED
      BY <1>5, <2>2, <2>3, <2>4, <2>5, <2>6 DEF Writes
  <1>6. CASE Gone
    BY <1>6 DEF Gone, ProcessGone, Placed
  <1> QED
    BY <1>1, <1>2, <1>3, <1>4, <1>5, <1>6, NextIsOneOf

-----------------------------------------------------------------------------
(* An input accepted into the queue is settled by the record of the turn   *)
(* it becomes, or by the one that discards it, and by nothing else.        *)
LEMMA KeptStep ==
    ASSUME ReplTyped, Placed, LiveWhileItLasts, AcceptedInputIsKept,
           [ReplNext]_replVars
    PROVE  AcceptedInputIsKept'
  <1> USE DEF AcceptedInputIsKept
  <1>1. Typed /\ LoopTyped /\ hist \in History /\ NextTurn(hist) \in Nat
    BY LoopTypes DEF Typed, TypeOK, StoreOK, NextTurn, History
  <1>2. CASE Starts
    <2>1. PICK t : StartTurn(t)
      BY <1>2 DEF Starts, RunQueued, RunTyped
    <2>2. owed' = IF hist.consumed /\ hist' # hist THEN NoText ELSE owed
      BY <2>1 DEF StartTurn
    <2>3. \/ hist' = hist
          \/ AcceptsUser(hist, turnId, t) /\ hist' = AfterUser(hist, turnId, t)
      BY <2>1 DEF StartTurn, Start, Wrote, WriteFailed
    <2>4. hist' = hist \/ (~hist.consumed => hist'.pending = hist.pending)
      BY <1>1, <2>3, UserSettlesQueue
    <2> QED
      BY <2>2, <2>4
  <1>3. CASE Drives /\ ~Starts
    BY <1>1, <1>3, DrivesOn, LogGoesOn, RestKeepsQueue DEF queue
  <1>4. CASE Moves \/ UNCHANGED replVars
    <2>1. hist' = hist
      BY <1>4, MovesKeep DEF vars, store
    <2>2. owed' = owed
      BY <1>4 DEF Moves, LeaveLoop, TurnOver, Exit, InputCloses, DrawingFails,
                  ReplAtBound, Reopen, replVars, queue
    <2> QED
      BY <2>1, <2>2
  <1>5. CASE RepairOnOpen
    BY <1>1, <1>5, RepairOnOpenAdds, RepairIsOfTheTurn, RestKeepsQueue
       DEF RepairOnOpen, queue
  <1>6. CASE SeedDraft
    BY <1>6 DEF SeedDraft, OpenAppend, WriteFailed, control
  <1>7. CASE OpenDone \/ Setting
    BY <1>7 DEF OpenDone, Setting, Wrote, WriteFailed, queue
  <1>8. CASE Dequeue
    <2>1. CASE owed' = NoText
      BY <2>1
    <2>2. CASE owed' # NoText
      <3>1. owed' = owed /\ (hist' = hist \/ hist' = AfterResolved(hist, "consumed"))
        BY <1>8, <2>2 DEF Dequeue, Wrote, WriteFailed
      <3> QED
        BY <1>1, <2>2, <3>1, AfterResolvedEffect
    <2> QED
      BY <2>1, <2>2
  <1>9. CASE DiscardQueue
    BY <1>9 DEF DiscardQueue, WriteFailed
  <1>10. CASE Compact
    <2>1. LiveMatchesHistory /\ owed' = owed
      BY <1>10 DEF Compact, AtCommand, AtPrompt, Running, LiveWhileItLasts
    <2> QED
      BY <1>1, <1>10, <2>1, CompactAdds, AfterCheckpointEffect
         DEF CheckpointAdded, AcceptsCheckpoint
  <1>11. CASE \E t \in Text : Submit(t)
    <2>1. PICK t \in Text : Submit(t)
      BY <1>11
    <2>2. \/ hist' = AfterQueued(hist, NextTurn(hist), t) /\ owed' = t
          \/ hist' = hist /\ owed' = owed
      BY <2>1 DEF Submit, Wrote, WriteFailed
    <2> QED
      BY <1>1, <2>2, AfterQueuedEffect
  <1>12. CASE Gone
    BY <1>12 DEF Gone, ProcessGone
  <1> QED
    BY <1>1, <1>2, <1>3, <1>4, <1>5, <1>6, <1>7, <1>8, <1>9, <1>10, <1>11, <1>12,
       NextIsOneOf DEF Writes

-----------------------------------------------------------------------------
(* As long as nothing from `hazard` happens, the log accepts what the loop *)
(* writes, and log, turn and queue stay together.                          *)
LEMMA ReplHazardGrows ==
    ASSUME ReplTyped, Placed, [ReplNext]_replVars
    PROVE  hazard \subseteq hazard'
  <1>1. LoopTyped
    BY LoopTypes
  <1>2. CASE Drives \/ Moves \/ UNCHANGED replVars
    BY <1>1, <1>2, QuietNext, HazardGrows
  <1>3. CASE Gone
    BY <1>3 DEF Gone, ProcessGone
  <1> QED
    BY <1>1, <1>2, <1>3, WritesKeep, NextIsOneOf

(* A hazard-free attempt to write a record the log accepts writes it.      *)
LEMMA OpenAppendWrites ==
    ASSUME NEW ok, NEW after, ok, hazard' = {}, OpenAppend(ok, after)
    PROVE  hist' = after /\ rejected' = rejected /\ UNCHANGED mode
  BY AcceptedIsWritten DEF OpenAppend, Wrote, control

LEMMA RepairTogether ==
    ASSUME Typed, Shape(hist), Placed, Together, hazard' = {}, RepairOnOpen
    PROVE  Together'
  <1>1. hist \in History /\ hist.phase \in Phase /\ hist.partial \in BOOLEAN
    BY DEF Typed, TypeOK, StoreOK, History
  <1>2. /\ mode = "opening" /\ hist.phase # "user" /\ ~hist.consumed /\ ~rejected
        /\ Unresolved(hist) # {} <=> hist.phase = "tools"
    BY <1>1, OpenCalls DEF RepairOnOpen, NeedsRepair, Shape, Together
  <1>3. \E ok, after : /\ ok /\ OpenAppend(ok, after)
                       /\ RestAdded(hist, after, hist.started)
    <2>1. CASE Unresolved(hist) # {}
      <3> DEFINE i  == CHOOSE k \in Unresolved(hist) :
                         \A m \in Unresolved(hist) : k <= m
                 id == hist.calls[i]
                 o  == IF id \in hist.began THEN "unknown" ELSE "not_executed"
                 ok == AcceptsTool(hist, hist.started, id, o, "repair", FALSE)
      <3>1. OpenAppend(ok, AfterTool(hist, id, o))
        BY <2>1 DEF RepairOnOpen
      <3>2. id \in ToSet(hist.calls) \ hist.resolved /\ id \in CallId
        BY <1>1, <2>1, FirstOpenCall
      <3>3. o \in Outcome /\ "repair" \in Source
        BY DEF Outcome, Source
      <3>4. ValidToolRecord(o, "repair", FALSE)
        BY DEF ValidToolRecord
      <3>5. (o = "not_executed") <=> (id \notin hist.began)
        OBVIOUS
      <3> HIDE DEF i, id, o
      <3>6. ok
        BY <1>2, <2>1, <3>2, <3>4, <3>5 DEF AcceptsTool
      <3>7. RestAdded(hist, AfterTool(hist, id, o), hist.started)
        BY <3>2, <3>3, <3>6 DEF RestAdded
      <3> HIDE DEF ok
      <3> QED
        BY <3>1, <3>6, <3>7
    <2>2. CASE Unresolved(hist) = {}
      <3> DEFINE ok == AcceptsAssistant(hist, hist.started, "repair", <<>>)
      <3>1. OpenAppend(ok, AfterAssistant(hist, <<>>))
        BY <2>2 DEF RepairOnOpen
      <3>2. DistinctCalls(<<>>) /\ <<>> \in Seq(CallId) /\ "repair" \in Source
        BY DEF DistinctCalls, Source
      <3>3. ok
        BY <1>1, <1>2, <2>2, <3>2 DEF AcceptsAssistant, Phase
      <3>4. RestAdded(hist, AfterAssistant(hist, <<>>), hist.started)
        BY <3>2, <3>3 DEF RestAdded
      <3> HIDE DEF ok
      <3> QED
        BY <3>1, <3>3, <3>4
    <2> QED
      BY <2>1, <2>2
  <1>4. /\ RestAdded(hist, hist', hist.started)
        /\ rejected' = rejected /\ UNCHANGED mode
    BY <1>3, OpenAppendWrites
  <1>5. /\ hist'.pending = hist.pending /\ hist'.pendTurn = hist.pendTurn
        /\ hist'.started = hist.started
    BY <1>1, <1>4, RestKeepsQueue
  <1> QED
    BY <1>2, <1>4, <1>5 DEF Together, NextTurn

LEMMA SeedTogether ==
    ASSUME Typed, Shape(hist), Placed, Together, hazard' = {}, SeedDraft
    PROVE  Together'
  <1>1. hist \in History /\ hist.phase = "user" /\ mode = "opening"
    BY DEF Typed, TypeOK, StoreOK, SeedDraft, NeedsRepair
  <1>2. AcceptsResolved(hist, hist.pendTurn, "discarded")
    BY <1>1 DEF SeedDraft, AcceptsResolved
  <1>3. /\ hist' = AfterResolved(hist, "discarded") /\ rejected' = rejected
        /\ mode' = mode
    BY <1>2, OpenAppendWrites DEF SeedDraft
  <1>4. hist'.pending = NoText
    BY <1>1, <1>3, AfterResolvedEffect
  <1> QED
    BY <1>1, <1>3, <1>4 DEF Together

(* Between turns, the turn and the log are coupled as follows.             *)
LEMMA RestIsCoupled ==
    ASSUME ~rejected', ~hist'.consumed, pc' = "idle",
           hist'.phase = "user", turnId' = NextTurn(hist')
    PROVE  Coupled'
  BY DEF Coupled, AtCall, Serving

LEMMA OpenTogether ==
    ASSUME Typed, Shape(hist), Placed, Together, hazard' = {}, OpenDone
    PROVE  Together'
  <1>1. hist \in History /\ hist.phase = "user" /\ mode = "opening"
        /\ pc = "idle" /\ slot = NoText
    BY DEF Typed, TypeOK, StoreOK, OpenDone, NeedsRepair, Placed
  <1>2. ~WriteFailed(AcceptsSetting(hist), {"switched past the queue"})
    BY DEF WriteFailed
  <1>3. /\ mode' = "prompt" /\ turnId' = NextTurn(hist)
        /\ UNCHANGED <<hist, rejected, pc, slot>>
        /\ hazard' = IF hist.pending = NoText THEN hazard
                     ELSE hazard \cup {"switched past the queue"}
    BY <1>2 DEF OpenDone, queue
  <1>4. hist.pending = NoText /\ ~hist.consumed
    BY <1>3 DEF Shape
  <1>5. Coupled'
    BY <1>1, <1>3, <1>4, RestIsCoupled DEF Together
  <1> QED
    BY <1>1, <1>3, <1>4, <1>5 DEF Together

LEMMA DequeueTogether ==
    ASSUME Typed, Placed, Together, hazard' = {}, Dequeue
    PROVE  Together'
  <1> DEFINE how == IF slot \in Commands THEN "discarded" ELSE "consumed"
             ok  == AcceptsResolved(hist, hist.pendTurn, how)
  <1>1. /\ hist \in History /\ mode = "prompt" /\ pc = "idle" /\ slot # NoText
        /\ Coupled /\ hist.pending = slot /\ ~rejected
        /\ hist.pendTurn = NextTurn(hist)
    BY DEF Typed, TypeOK, StoreOK, Dequeue, Placed, Together
  <1>2. hist.phase = "user" /\ ~hist.consumed /\ turnId = NextTurn(hist)
    BY <1>1 DEF Coupled
  <1>3. ok
    BY <1>1, <1>2 DEF AcceptsResolved
  <1>4. /\ Wrote(ok, AfterResolved(hist, how))
        /\ UNCHANGED <<turnId, pc>>
        /\ IF slot \in Commands
           THEN mode' = "command" /\ slot' = NoText
           ELSE mode' = "have" /\ slot' = slot
    BY <1>3, AcceptedIsWritten DEF Dequeue, Goes
  <1>5. hist' = AfterResolved(hist, how) /\ ~rejected'
    BY <1>1, <1>4 DEF Wrote
  <1>6. /\ hist'.phase = "user" /\ hist'.started = hist.started
        /\ IF slot \in Commands
           THEN ~hist'.consumed /\ hist'.pending = NoText
           ELSE /\ hist'.consumed /\ hist'.pending = hist.pending
                /\ hist'.pendTurn = hist.pendTurn
    BY <1>1, <1>2, <1>5, AfterResolvedEffect DEF SameRound
  <1> HIDE DEF how, ok
  <1>7. NextTurn(hist') = NextTurn(hist)
    BY <1>6 DEF NextTurn
  <1>8. CASE slot \in Commands
    <2>1. Coupled'
      BY <1>1, <1>2, <1>4, <1>5, <1>6, <1>7, <1>8, RestIsCoupled
    <2> QED
      BY <1>4, <1>5, <1>6, <1>8, <2>1 DEF Together
  <1>9. CASE slot \notin Commands
    <2>1. Taken'
      BY <1>1, <1>2, <1>4, <1>6, <1>7, <1>9 DEF Taken
    <2> QED
      BY <1>1, <1>4, <1>5, <1>6, <1>7, <1>9, <2>1 DEF Together
  <1> QED
    BY <1>8, <1>9

(* A command is run between turns and with nothing queued.                 *)
LEMMA CommandAtRest ==
    ASSUME Placed, Together, AtCommand
    PROVE  /\ pc = "idle" /\ slot = NoText
           /\ BetweenTurns(hist) /\ turnId = NextTurn(hist) /\ ~rejected
  BY DEF AtCommand, AtPrompt, Placed, Together, Coupled, BetweenTurns

LEMMA CompactTogether ==
    ASSUME Typed, Placed, LiveWhileItLasts, Together, hazard' = {}, Compact
    PROVE  Together'
  <1>1. hist \in History /\ AtCommand /\ UNCHANGED <<turnId, pc, slot>>
    BY DEF Typed, TypeOK, StoreOK, Compact
  <1>2. live = hist.ctx
    BY <1>1 DEF AtCommand, AtPrompt, LiveWhileItLasts, Running, LiveMatchesHistory
  <1>3. PICK p \in TurnPrefixes :
           LET ok == AcceptsCheckpoint(hist, p) IN
           \/ /\ Wrote(ok, AfterCheckpoint(hist, p))
              /\ ApplyCheckpoint(p)
              /\ Goes("prompt") /\ UNCHANGED hazard
           \/ WriteFailed(ok, {}) /\ Fails /\ UNCHANGED live
    BY DEF Compact
  <1>4. p \in 1..Len(hist.ctx)
    BY <1>2 DEF TurnPrefixes
  <1>5. AcceptsCheckpoint(hist, p)
    BY <1>1, <1>4, CommandAtRest DEF AcceptsCheckpoint
  <1>6. hist' = AfterCheckpoint(hist, p) /\ rejected' = rejected /\ mode' = "prompt"
    BY <1>3, <1>5, AcceptedIsWritten DEF Wrote, Goes
  <1>7. /\ hist'.phase = hist.phase /\ hist'.started = hist.started
        /\ hist'.pending = hist.pending /\ hist'.consumed = hist.consumed
    BY <1>1, <1>4, <1>6, AfterCheckpointEffect
  <1>8. Coupled'
    BY <1>1, <1>6, <1>7, CommandAtRest, RestIsCoupled DEF BetweenTurns, NextTurn
  <1> QED
    BY <1>1, <1>6, <1>7, <1>8, CommandAtRest DEF Together, BetweenTurns

LEMMA SettingTogether ==
    ASSUME Placed, Together, hazard' = {}, Setting
    PROVE  Together'
  <1>1. AtCommand /\ UNCHANGED <<turnId, pc, slot>>
    BY DEF Setting
  <1>2. AcceptsSetting(hist)
    BY <1>1, CommandAtRest DEF AcceptsSetting
  <1>3. hist' = hist /\ rejected' = rejected /\ mode' = "prompt"
    BY <1>2, AcceptedIsWritten DEF Setting, Wrote, Goes
  <1>4. Coupled'
    BY <1>1, <1>3, CommandAtRest, RestIsCoupled DEF BetweenTurns
  <1> QED
    BY <1>1, <1>3, <1>4, CommandAtRest DEF Together, BetweenTurns

LEMMA DiscardTogether ==
    ASSUME Typed, Placed, Together, hazard' = {}, DiscardQueue
    PROVE  Together'
  <1> DEFINE ok == AcceptsResolved(hist, hist.pendTurn, "discarded")
  <1>1. /\ hist \in History /\ mode = "turn" /\ pc = "idle" /\ slot # NoText
        /\ UNCHANGED <<turnId, pc, mode>> /\ slot' = NoText
    BY DEF Typed, TypeOK, StoreOK, DiscardQueue, Placed, control
  <1>2. /\ hist.pending = slot /\ hist.phase = "user" /\ ~hist.consumed
        /\ turnId = NextTurn(hist) /\ ~rejected
    BY <1>1 DEF Together, Coupled
  <1>3. ok
    BY <1>1, <1>2 DEF AcceptsResolved
  <1>4. Wrote(ok, AfterResolved(hist, "discarded"))
    BY <1>3, AcceptedIsWritten DEF DiscardQueue
  <1>5. hist' = AfterResolved(hist, "discarded") /\ ~rejected'
    BY <1>2, <1>4 DEF Wrote
  <1>6. /\ hist'.phase = "user" /\ hist'.started = hist.started
        /\ ~hist'.consumed /\ hist'.pending = NoText
    BY <1>1, <1>2, <1>5, AfterResolvedEffect DEF SameRound
  <1>7. Coupled'
    BY <1>1, <1>2, <1>5, <1>6, RestIsCoupled DEF NextTurn
  <1> QED
    BY <1>1, <1>5, <1>6, <1>7 DEF Together

LEMMA SubmitTogether ==
    ASSUME Typed, Placed, Together, hazard' = {}, NEW t \in Text, Submit(t)
    PROVE  Together'
  <1> DEFINE ok == AcceptsQueued(hist, NextTurn(hist))
             after == AfterQueued(hist, NextTurn(hist), t)
  <1>1. /\ hist \in History /\ NextTurn(hist) \in Nat
        /\ mode = "turn" /\ pc \in Waiting /\ slot = NoText
        /\ UNCHANGED <<mode, turnId, pc, calls, ti, committed, closing>>
    <2>1. hist \in History /\ NextTurn(hist) \in Nat
      BY DEF Typed, TypeOK, StoreOK, NextTurn, History
    <2>2. mode = "turn" /\ pc \in Waiting /\ slot = NoText
      BY DEF Submit, InBatch
    <2>3. UNCHANGED <<mode, turnId, pc, calls, ti, committed, closing>>
      BY DEF Submit, control
    <2> QED
      BY <2>1, <2>2, <2>3
  <1>2. Coupled /\ hist.pending = NoText /\ ~hist.consumed /\ ~rejected
    BY <1>1 DEF Together, Coupled
  <1>3. CASE pc = "idle"
    <2>1. ~ok
      BY <1>2, <1>3 DEF Coupled, AcceptsQueued
    <2>2. WriteFailed(ok, {"late submit"})
      BY <1>3, <2>1 DEF Submit, Wrote
    <2> QED
      BY <2>1, <2>2 DEF WriteFailed
  <1>4. CASE pc # "idle"
    <2>1. hist.phase # "user"
      BY <1>1, <1>2, <1>4
         DEF Coupled, Waiting, AtCall, Serving, RoundOver, InRound
    <2>2. ok
      BY <1>2, <2>1 DEF AcceptsQueued
    <2>3. Wrote(ok, after) /\ slot' = t
      BY <2>2, AcceptedIsWritten DEF Submit
    <2>4. hist' = after /\ rejected' = rejected
      BY <2>3 DEF Wrote
    <2>5. /\ SameRound(hist, hist') /\ hist'.pending = t
          /\ hist'.pendTurn = NextTurn(hist)
          /\ hist'.consumed = hist.consumed /\ hist'.started = hist.started
          /\ hist'.began = hist.began /\ hist'.partial = hist.partial
      BY <1>1, <2>4, AfterQueuedEffect
    <2>6. Coupled'
      BY <1>1, <1>2, <2>4, <2>5, CoupledSame DEF closing
    <2> QED
      BY <1>1, <1>2, <2>3, <2>4, <2>5, <2>6 DEF Together, NextTurn
  <1> QED
    BY <1>3, <1>4

CoupledModes == {"prompt", "command", "turn", "turnover"}

LEMMA StartsTogether ==
    ASSUME Typed, LoopTyped, Placed, Together, hazard' = {}, Starts
    PROVE  Together'
  <1>1. hist \in History /\ ~rejected
    BY DEF Typed, TypeOK, StoreOK, Together
  <1>2. CASE RunQueued
    <2>1. /\ mode = "have" /\ Start(slot) /\ slot \in Text
          /\ slot' = NoText /\ mode' \in CoupledModes
      BY <1>2 DEF RunQueued, StartTurn, LoopTyped, QueueOK, Placed, CoupledModes
    <2>2. Taken
      BY <2>1 DEF Together
    <2>3. AcceptsUser(hist, turnId, slot)
      BY <2>2 DEF Taken, AcceptsUser
    <2>4. Coupled' /\ hist' = AfterUser(hist, turnId, slot)
      BY <1>1, <2>1, <2>3, AcceptedStart
    <2>5. hist'.pending = NoText
      BY <1>1, <2>2, <2>3, <2>4, UserSettlesQueue DEF Taken
    <2> QED
      BY <2>1, <2>4, <2>5 DEF Together, Coupled, CoupledModes
  <1>3. CASE \E t \in Text \ Commands : RunTyped(t)
    <2>1. PICK t \in Text : RunTyped(t)
      BY <1>3
    <2>2. /\ mode = "prompt" /\ slot = NoText /\ Start(t)
          /\ slot' = NoText /\ mode' \in CoupledModes
      BY <2>1 DEF RunTyped, AtPrompt, StartTurn, CoupledModes
    <2>3. Coupled /\ hist.pending = NoText
      BY <2>2 DEF Together
    <2>4. Coupled' /\ hist' = AfterUser(hist, turnId, t)
      BY <2>2, <2>3, StartCoupled
    <2>5. hist'.pending = NoText
      BY <1>1, <2>3, <2>4 DEF AfterUser, History
    <2> QED
      BY <2>2, <2>4, <2>5 DEF Together, Coupled, CoupledModes
  <1> QED
    BY <1>2, <1>3 DEF Starts

LEMMA TurnTogether ==
    ASSUME Typed, LoopTyped, Placed, Together, hazard = {}, hazard' = {},
           Drives /\ ~Starts
    PROVE  Together'
  <1>1. hist \in History
    BY DEF Typed, TypeOK, StoreOK
  <1>2. UNCHANGED <<mode, slot>> /\ mode \in {"turn", "turnover"}
    <2>1. UNCHANGED <<mode, slot>>
      BY DEF Drives, TurnRuns, CallbackRuns, During, Unwind, UnwindRuns, CtrlC,
             Signal, Decide, control, queue
    <2>2. mode \in {"turn", "turnover"}
      BY DEF Drives, TurnRuns, CallbackRuns, During, Unwind, UnwindRuns, CtrlC,
             Signal, Decide, InBatch, EndOfTurn
    <2> QED
      BY <2>1, <2>2
  <1>3. Coupled /\ hist.pending = slot
    BY <1>2 DEF Together
  <1>4. Coupled'
    BY <1>3, QuietNext, InStepInductive DEF InStep
  <1>5. /\ hist'.pending = hist.pending /\ hist'.pendTurn = hist.pendTurn
        /\ hist'.started = hist.started
    BY <1>1, DrivesOn, LogGoesOn, RestKeepsQueue
  <1> QED
    BY <1>2, <1>3, <1>4, <1>5 DEF Together, Coupled, NextTurn

LEMMA MovesTogether ==
    ASSUME Typed, Together, hazard = {}, hazard' = {},
           Moves \/ UNCHANGED replVars
    PROVE  Together'
  <1>1. UNCHANGED vars
    BY MovesKeep
  <1>2. UNCHANGED <<hist, rejected, turnId, pc>>
    BY <1>1 DEF vars, store
  <1>3. Coupled => Coupled'
    BY <1>1, InStepInductive DEF InStep
  <1>4. slot' = slot
    BY DEF Moves, LeaveLoop, TurnOver, Exit, InputCloses, DrawingFails, ReplAtBound,
           Reopen, replVars, queue
  <1>5. /\ mode' \in CoupledModes => mode \in CoupledModes
        /\ mode' = "have" => mode = "have"
    BY DEF Moves, LeaveLoop, TurnOver, EndOfTurn, BackToPrompt, Exit, AtCommand,
           AtPrompt, InputCloses, InBatch, DrawingFails, ReplAtBound, Reopen, Goes,
           Fails, CoupledModes, replVars, control
  <1> QED
    BY <1>2, <1>3, <1>4, <1>5 DEF Together, Taken, CoupledModes

LEMMA InStepWithLogStep ==
    ASSUME ReplTyped, Placed, Shape(hist), LiveWhileItLasts, InStepWithLog,
           [ReplNext]_replVars
    PROVE  InStepWithLog'
  <1> SUFFICES ASSUME hazard' = {}
               PROVE  Together'
    BY DEF InStepWithLog
  <1>1. Typed /\ LoopTyped
    BY LoopTypes
  <1>2. hazard = {} /\ Together
    BY ReplHazardGrows DEF InStepWithLog
  <1>3. CASE Drives
    BY <1>1, <1>2, <1>3, StartsTogether, TurnTogether
  <1>4. CASE Moves \/ UNCHANGED replVars
    BY <1>1, <1>2, <1>4, MovesTogether
  <1>5. CASE Writes
    BY <1>1, <1>2, <1>5, RepairTogether, SeedTogether, OpenTogether,
       DequeueTogether, DiscardTogether, CompactTogether, SettingTogether,
       SubmitTogether DEF Writes
  <1>6. CASE Gone
    BY <1>2, <1>6 DEF Gone, ProcessGone, Together
  <1> QED
    BY <1>1, <1>3, <1>4, <1>5, <1>6, NextIsOneOf

-----------------------------------------------------------------------------
(* What is queued turns the turn away from its tools, wherever it is.      *)
LEMMA SteeredGoesOn ==
    ASSUME steering, pc \notin {"ask", "launch"}, RunOn \/ World \/ Cancel
    PROVE  /\ steering' /\ pc' \notin {"ask", "launch"}
           /\ ran' \subseteq ran
           /\ pc' = "model" => pc = "model"
  <1>1. CASE TurnAway \/ RefuseTool \/ RepairCall \/ SkipCall \/ RepairMarker
             \/ SteeredBookend
    BY <1>1 DEF TurnAway, RefuseTool, RepairCall, SkipCall, RepairMarker,
                SteeredBookend, FillIn, AfterFillIn, Close, FinishTurn, Goto,
                CloseOut, progress
  <1>2. CASE NextRound \/ StageTool \/ LaunchTool
    BY <1>2 DEF NextRound, StageTool, LaunchTool
  <1>3. CASE Stream \/ StreamBreaks \/ ReplyFails \/ ToolDone \/ ToolBreaks
             \/ Cancel
    BY <1>3 DEF Stream, StreamBreaks, ReplyFails, ToolDone, ToolBreaks, Cancel, Goto,
                CloseOut, progress
  <1>4. CASE \E r \in Replies : Reply(r)
    BY <1>4 DEF Reply, FinishTurn, Goto, CloseOut
  <1> QED
    BY <1>1, <1>2, <1>3, <1>4 DEF RunOn, World, ModelAnswers

LEMMA WorldIsBusy == World \/ Cancel => pc # "idle"
  BY DEF World, Stream, StreamBreaks, ModelAnswers, Reply, ReplyFails, ToolDone,
         ToolBreaks, Cancel

LEMMA CancelLeavesAsk == Cancel => pc' # "ask"
  BY DEF Cancel, CloseOut

LEMMA TurnedAwayStep ==
    ASSUME ReplTyped, Placed, TurnedAway, [ReplNext]_replVars
    PROVE  TurnedAway'
  <1> USE DEF TurnedAway
  <1>1. LoopTyped
    BY LoopTypes
  <1>2. CASE mode' # "turn"
    BY <1>2
  <1>3. CASE Starts
    <2>1. mode' = "turn" => pc' = "model"
      BY <1>3 DEF Starts, RunQueued, RunTyped, StartTurn
    <2>2. slot' = NoText
      BY <1>3 DEF Starts, RunQueued, RunTyped, AtPrompt
    <2> QED
      BY <2>1, <2>2
  <1>4. CASE TurnRuns
    <2>1. mode = "turn" /\ (RunOn \/ World) /\ UNCHANGED slot
          /\ asking' = (asking \/ pc' = "ask")
      BY <1>4 DEF TurnRuns, CallbackRuns, During, InBatch, queue
    <2> QED
      BY <2>1, CallbackIsBusy, WorldIsBusy, SteeredGoesOn
  <1>5. CASE CtrlC \/ \E b \in BOOLEAN : Signal(b)
    <2>1. /\ mode = "turn" /\ UNCHANGED <<slot, asking>>
          /\ Cancel \/ (pc = "idle" /\ UNCHANGED convVars)
      BY <1>5 DEF CtrlC, Signal, InBatch, queue
    <2>2. CASE Cancel
      BY <2>1, <2>2, WorldIsBusy, SteeredGoesOn, CancelLeavesAsk
    <2>3. CASE pc = "idle" /\ UNCHANGED convVars
      BY <2>1, <2>3 DEF convVars
    <2> QED
      BY <2>1, <2>2, <2>3
  <1>6. CASE \E b \in BOOLEAN : Decide(b)
    <2>1. /\ mode = "turn" /\ UNCHANGED slot
          /\ \/ pc = "ask" /\ pc' \in {"launch", "refuse"}
             \/ pc # "ask" /\ UNCHANGED convVars
      BY <1>6 DEF Decide, InBatch, queue, Answer, Goto
    <2>2. CASE pc = "ask" /\ pc' \in {"launch", "refuse"}
      BY <2>1, <2>2
    <2>3. CASE pc # "ask" /\ UNCHANGED convVars
      BY <2>1, <2>3 DEF convVars, progress
    <2> QED
      BY <2>1, <2>2, <2>3
  <1>7. CASE Unwind \/ UnwindRuns
    BY <1>7 DEF Unwind, EndOfTurn, UnwindRuns, control
  <1>8. CASE Moves \/ UNCHANGED replVars
    <2>1. UNCHANGED <<pc, steering>>
      BY <1>8, MovesKeep DEF vars, progress
    <2>2. mode' = "turn" => mode = "turn" /\ UNCHANGED <<slot, asking>>
      BY <1>8 DEF Moves, LeaveLoop, TurnOver, EndOfTurn, BackToPrompt, Exit,
                  AtCommand, AtPrompt, InputCloses, DrawingFails, ReplAtBound,
                  Reopen, Goes, Fails, replVars, control, queue, loop
    <2> QED
      BY <2>1, <2>2
  <1>9. CASE DiscardQueue
    BY <1>9 DEF DiscardQueue
  <1>10. CASE \E t \in Text : Submit(t)
    <2>1. PICK t \in Text : Submit(t)
      BY <1>10
    <2>2. /\ mode = "turn" /\ ~asking /\ slot = NoText
          /\ UNCHANGED <<mode, pc, asking>>
      BY <2>1 DEF Submit, InBatch, control
    <2>3. pc \in Waiting
      BY <2>1 DEF Submit, InBatch
    <2>4. slot' = slot \/ (pc # "idle" => steering')
      BY <2>1, Zenon DEF Submit
    <2> QED
      BY <2>2, <2>3, <2>4 DEF Waiting
  <1>11. CASE RepairOnOpen \/ SeedDraft
    <2>1. mode = "opening" /\ \E ok, after : OpenAppend(ok, after)
      BY <1>11 DEF RepairOnOpen, SeedDraft
    <2> QED
      BY <1>2, <2>1 DEF OpenAppend, control
  <1>12. CASE OpenDone \/ Dequeue \/ Compact \/ Setting
    BY <1>2, <1>12 DEF OpenDone, Dequeue, Compact, Setting, Goes, Fails
  <1>13. CASE Gone
    BY <1>13 DEF Gone, ProcessGone
  <1> QED
    BY <1>1, <1>3, <1>4, <1>5, <1>6, <1>7, <1>8, <1>9, <1>10, <1>11, <1>12, <1>13,
       NextIsOneOf DEF Drives, Writes

-----------------------------------------------------------------------------
(* The invariant is inductive.                                             *)
LEMMA ReplInitIInv == ReplInit => IInv
  <1> SUFFICES ASSUME ReplInit
               PROVE  IInv
    OBVIOUS
  <1>1. PICK n \in LegacyLengths, t \in Text : Created(LegacyHistory(n, t))
    BY DEF ReplInit
  <1>2. n \in Nat
    BY ReplAssumption
  <1>3. /\ Shape(hist) /\ hist.phase \in {"user", "assistant"}
        /\ hist.pending = NoText
    BY <1>1, <1>2, LegacyEffect DEF Created
  <1>4. /\ pc = "idle" /\ ran = {} /\ rejected = FALSE /\ outcome = "ok"
        /\ mode = "opening" /\ slot = NoText /\ owed = NoText /\ discard = FALSE
    BY <1>1 DEF ReplInit, Created
  <1>5. Placed /\ LiveWhileItLasts /\ AcceptedInputIsKept /\ TurnedAway
    BY <1>4 DEF Placed, LiveWhileItLasts, Running, AcceptedInputIsKept, TurnedAway
  <1>6. Requested
    BY <1>3, <1>4 DEF Requested, InRequest, Asking
  <1>7. WriteAhead /\ InStepWithLog
    BY <1>3, <1>4 DEF WriteAhead, InStepWithLog, Together
  <1> QED
    BY <1>5, <1>6, <1>7, ReplInitTyped DEF IInv

LEMMA IInvStep ==
    ASSUME IInv, [ReplNext]_replVars
    PROVE  IInv'
  <1>1. /\ ReplTyped /\ Placed /\ Requested /\ Shape(hist) /\ LiveWhileItLasts
        /\ AcceptedInputIsKept /\ WriteAhead /\ InStepWithLog /\ TurnedAway
    BY DEF IInv, Requested
  <1> QED
    BY <1>1, ReplTypedStep, PlacedStep, ReplRequestedStep, LiveStep, KeptStep,
       ReplWriteAheadStep, InStepWithLogStep, TurnedAwayStep DEF IInv

LEMMA AlwaysIInv == ReplSpec => []IInv
  BY ReplInitIInv, IInvStep, PTL DEF ReplSpec

-----------------------------------------------------------------------------
(* Every state of the loop has its type, however often the session is      *)
(* opened, whatever fails and whenever the process dies.                   *)
THEOREM ReplTypeCorrect == ReplSpec => []ReplTypeOK
  <1>1. IInv => ReplTypeOK
    BY DEF IInv, ReplTyped
  <1> QED
    BY <1>1, AlwaysIInv, PTL

(* While the loop runs, the context the model sees is the one the log      *)
(* restores: after a restart, a switch, a repair, a failed append, a turn  *)
(* of any outcome, and a compaction.                                       *)
THEOREM LiveIsTheLogs == ReplSpec => []LiveMatchesLog
  <1>1. IInv => LiveMatchesLog
    BY DEF IInv, LiveWhileItLasts, LiveMatchesLog
  <1> QED
    BY <1>1, AlwaysIInv, PTL

(* An input accepted into the queue stays in the log until it has become a *)
(* turn, a draft or a command, through crashes and failed appends.         *)
THEOREM InputIsKept == ReplSpec => []AcceptedInputIsKept
  <1>1. IInv => AcceptedInputIsKept
    BY DEF IInv
  <1> QED
    BY <1>1, AlwaysIInv, PTL

(* As long as none of the listed mishaps happens, the queue in memory and  *)
(* the queue in the log are the same, in every mode of the running loop.   *)
THEOREM QueuesAgree == ReplSpec => []SlotMatchesLog
  <1>1. ASSUME IInv
        PROVE  SlotMatchesLog
    <2> SUFFICES ASSUME Running, hazard = {}
                 PROVE  slot = hist.pending
      BY DEF SlotMatchesLog
    <2>1. mode \in Modes /\ Together
      BY <1>1 DEF IInv, ReplTyped, ReplTypeOK, InStepWithLog
    <2>2. mode \in {"prompt", "have", "command", "turn", "turnover"}
      BY <2>1 DEF Modes, Running
    <2> QED
      BY <2>1, <2>2 DEF Together, Taken
  <1> QED
    BY <1>1, AlwaysIInv, PTL

(* As long as none of the listed mishaps happens, the loop is at its       *)
(* prompt only between turns, and the next record it writes carries the    *)
(* turn id that is next.                                                   *)
THEOREM PromptsAreBetweenTurns == ReplSpec => []PromptIsBetweenTurns
  <1>1. IInv => PromptIsBetweenTurns
    BY DEF IInv, Placed, InStepWithLog, Together, Coupled, PromptIsBetweenTurns
  <1> QED
    BY <1>1, AlwaysIInv, PTL

(* Nor does the log refuse a record, be it of the conversation, of the     *)
(* queue, of a command or of the repair at the start.                      *)
THEOREM ReplRecordsAreAccepted == ReplSpec => []NoUnprovokedRejection
  <1>1. IInv => NoUnprovokedRejection
    BY DEF IInv, InStepWithLog, Together, NoUnprovokedRejection
  <1> QED
    BY <1>1, AlwaysIInv, PTL

(* The loop sends the model only contexts the chat protocol admits, also   *)
(* on a log that was left open, repaired or compacted.                     *)
THEOREM ReplRequestsAreAnswerable == ReplSpec => []RequestIsAnswerable
  <1>1. ASSUME IInv
        PROVE  RequestIsAnswerable
    <2>1. Typed /\ Requested
      BY <1>1, LoopTypes DEF IInv
    <2>2. CASE pc = "model"
      <3>1. LiveMatchesHistory
        BY <1>1, <2>2 DEF IInv, LiveWhileItLasts
      <3> QED
        BY <2>1, <3>1, RequestedAnswerable
    <2>3. CASE pc # "model"
      BY <2>3 DEF RequestIsAnswerable
    <2> QED
      BY <2>2, <2>3
  <1> QED
    BY <1>1, AlwaysIInv, PTL

-----------------------------------------------------------------------------
(* Once something is queued, the turn under way begins no further tool and *)
(* no further model round ahead of it.                                     *)
THEOREM QueueIsNext == ReplSpec => NothingOvertakesTheQueue
  <1> DEFINE Kept == ran' \subseteq ran /\ (pc' = "model" => pc = "model")
             Held == slot # NoText /\ slot' = slot /\ mode = "turn"
  <1>1. ASSUME IInv, [ReplNext]_replVars, Held
        PROVE  Kept
    <2>1. LoopTyped /\ Placed
      BY <1>1, LoopTypes DEF IInv
    <2>2. pc = "idle" \/ (steering /\ pc \notin {"ask", "launch"})
      BY <1>1 DEF IInv, TurnedAway
    <2>3. CASE UNCHANGED <<ran, pc>>
      BY <2>3
    <2>4. CASE Starts
      BY <1>1, <2>4 DEF Starts, RunQueued, RunTyped, AtPrompt
    <2>5. CASE TurnRuns
      <3>1. RunOn \/ World
        BY <2>5 DEF TurnRuns, CallbackRuns, During
      <3> QED
        BY <2>2, <3>1, CallbackIsBusy, WorldIsBusy, SteeredGoesOn
    <2>6. CASE CtrlC \/ \E b \in BOOLEAN : Signal(b)
      <3>1. Cancel \/ UNCHANGED convVars
        BY <2>6 DEF CtrlC, Signal
      <3> QED
        BY <2>2, <2>3, <3>1, WorldIsBusy, SteeredGoesOn DEF convVars
    <2>7. CASE \E b \in BOOLEAN : Decide(b)
      BY <2>2, <2>3, <2>7 DEF Decide, Answer, convVars
    <2>8. CASE Unwind \/ UnwindRuns
      BY <1>1, <2>8 DEF Unwind, EndOfTurn, UnwindRuns
    <2>9. CASE Moves \/ UNCHANGED replVars
      BY <2>3, <2>9, MovesKeep DEF vars
    <2>10. CASE Writes
      BY <2>3, <2>10, WritesKeep
    <2>11. CASE Gone
      BY <2>11 DEF Gone, ProcessGone
    <2> QED
      BY <1>1, <2>1, <2>4, <2>5, <2>6, <2>7, <2>8, <2>9, <2>10, <2>11, NextIsOneOf
         DEF Drives
  <1>2. IInv /\ [ReplNext]_replVars =>
          [slot # NoText /\ slot' = slot /\ mode = "turn" =>
             /\ ran' \subseteq ran
             /\ pc' = "model" => pc = "model"]_replVars
    BY <1>1
  <1> QED
    BY <1>2, AlwaysIInv, PTL DEF ReplSpec, NothingOvertakesTheQueue

-----------------------------------------------------------------------------
(* What the loop adds to the context of the log, told from a denial of work *)
(* by its length or its last message.                                      *)
LEMMA AppendIsLonger ==
    ASSUME NEW c \in Seq(Message), NEW m
    PROVE  Len(Append(c, m)) = Len(c) + 1 /\ Len(c) \in Nat
           /\ Append(c, m)[Len(c) + 1] = m
  OBVIOUS

LEMMA LoopDeniesNoWork ==
    ASSUME NEW h \in History, NEW g, g = h \/ LoopAdded(h, g), NEW id,
           h.phase = "tools" => id \in h.began
    PROVE  g.ctx # Append(h.ctx, ToolMsg(id, "not_executed"))
  <1> DEFINE msg == ToolMsg(id, "not_executed")
  <1>1. h.ctx \in Seq(Message)
    BY DEF History
  <1>2. /\ Len(Append(h.ctx, msg)) = Len(h.ctx) + 1 /\ Len(h.ctx) \in Nat
        /\ Append(h.ctx, msg)[Len(h.ctx) + 1] = msg
        /\ \A m : Append(h.ctx, m)[Len(h.ctx) + 1] = m
    BY <1>1, AppendIsLonger
  <1>3. msg.role = "tool"
    BY DEF ToolMsg
  <1>4. CASE g.ctx = h.ctx
    BY <1>2, <1>4
  <1>5. CASE RepairAdded(h, g)
    <2>1. ASSUME NEW other \in CallId, NEW o \in Outcome,
                 AcceptsTool(h, h.started, other, o, "repair", FALSE),
                 g = AfterTool(h, other, o)
          PROVE  g.ctx # Append(h.ctx, msg)
      <3>1. g.ctx[Len(h.ctx) + 1] = ToolMsg(other, o)
        BY <1>2, <2>1, AfterToolEffect
      <3>2. ToolMsg(other, o) = msg => other = id /\ o = "not_executed"
        BY DEF ToolMsg
      <3>3. ~(other = id /\ o = "not_executed")
        BY <2>1 DEF AcceptsTool
      <3> QED
        BY <1>2, <3>1, <3>2, <3>3
    <2>2. ASSUME g = AfterAssistant(h, <<>>)
          PROVE  g.ctx # Append(h.ctx, msg)
      <3>1. g.ctx = Append(h.ctx, AssistantMsg(<<>>))
        BY <2>2, AfterAssistantEffect
      <3>2. AssistantMsg(<<>>) # msg
        BY DEF AssistantMsg, ToolMsg
      <3> HIDE DEF msg
      <3> QED
        BY <1>2, <3>1, <3>2
    <2> QED
      BY <1>5, <2>1, <2>2 DEF RepairAdded
  <1>6. CASE QueueAdded(h, g)
    <2>1. NextTurn(h) \in Nat
      BY DEF NextTurn, History
    <2>2. g.ctx = h.ctx
      BY <1>6, <2>1, AfterQueuedEffect, AfterResolvedEffect
         DEF QueueAdded, SameRound
    <2> QED
      BY <1>4, <2>2
  <1>7. CASE CheckpointAdded(h, g)
    <2>1. PICK p \in 1..Len(h.ctx) : g.ctx = Splice(h.ctx, p)
      BY <1>7, AfterCheckpointEffect DEF CheckpointAdded, AcceptsCheckpoint
    <2>2. Len(g.ctx) = Len(h.ctx) - p + 1
      BY <1>1, <2>1, Spliced
    <2> QED
      BY <1>2, <2>2
  <1> QED
    BY <1>4, <1>5, <1>6, <1>7 DEF LoopAdded

(* No call whose process was spawned is ever recorded as not executed, not *)
(* by the repair of a log another process left behind either.              *)
THEOREM ReplDeniesNoWork == ReplSpec => WorkIsNeverDenied
  <1>1. ASSUME IInv, [ReplNext]_replVars, NEW id \in ran
        PROVE  hist'.ctx # Append(hist.ctx, ToolMsg(id, "not_executed"))
    <2>1. /\ Typed /\ LoopTyped /\ Placed /\ WriteAhead /\ LiveWhileItLasts
          /\ hist \in History
      BY <1>1, LoopTypes DEF IInv, Typed, TypeOK, StoreOK
    <2>2. hist.phase = "tools" => id \in hist.began
      BY <2>1 DEF WriteAhead
    <2>3. CASE Drives \/ Moves \/ UNCHANGED replVars
      BY <2>1, <2>3, QuietNext, DeniedWorkDidNotRun
    <2>4. CASE Writes
      BY <2>1, <2>2, <2>4, WritesAdd, LoopDeniesNoWork
    <2>5. CASE Gone
      <3>1. hist' = hist
        BY <2>5 DEF Gone, ProcessGone
      <3> QED
        BY <2>1, <2>2, <3>1, LoopDeniesNoWork
    <2> QED
      BY <1>1, <2>1, <2>3, <2>4, <2>5, NextIsOneOf
  <1>2. IInv /\ [ReplNext]_replVars =>
          [\A id \in ran :
              hist'.ctx # Append(hist.ctx, ToolMsg(id, "not_executed"))]_vars
    BY <1>1
  <1> QED
    BY <1>2, AlwaysIInv, PTL DEF ReplSpec, WorkIsNeverDenied

-----------------------------------------------------------------------------
(* The loop, too, keeps to the dialogue: what it writes on its own account *)
(* repairs the turn a dead process left, says nothing, or puts a summary   *)
(* in place of whole turns.                                                *)
LEMMA SummaryTalk ==
    ASSUME hist \in History, CheckpointAdded(hist, hist'),
           ran' = ran, pc # "model", pc' # "model"
    PROVE  TalkStep
  <1>1. PICK p : /\ AcceptsCheckpoint(hist, p) /\ EndsARound(hist.ctx, p)
                 /\ hist' = AfterCheckpoint(hist, p)
    BY DEF CheckpointAdded
  <1>2. p \in 1..Len(hist.ctx) /\ hist.phase = "user" /\ hist.pending = NoText
    BY <1>1 DEF AcceptsCheckpoint, BetweenTurns
  <1>3. /\ hist'.ctx = Splice(hist.ctx, p) /\ hist'.phase = hist.phase
        /\ hist'.calls = hist.calls /\ hist'.resolved = hist.resolved
        /\ hist'.pending = hist.pending
    BY <1>1, <1>2, AfterCheckpointEffect
  <1>4. SummaryMsg = Talk!Msg("assistant", <<>>, "summary")
    BY DEF SummaryMsg, Talk!Msg
  <1>5. Talk!Summarised(p)
    BY <1>1, <1>2, <1>3, <1>4 DEF Talk!Summarised, Splice, EndsARound
  <1> QED
    BY <1>2, <1>5 DEF TalkStep, Talk!Next

LEMMA RepairTalk ==
    ASSUME hist \in History, Shape(hist), WriteAhead,
           RepairAdded(hist, hist'), ran' = ran, pc # "model", pc' # "model"
    PROVE  TalkStep
  <1>1. ASSUME NEW id \in CallId, NEW o \in Outcome,
               AcceptsTool(hist, hist.started, id, o, "repair", FALSE),
               hist' = AfterTool(hist, id, o)
        PROVE  TalkStep
    <2>1. o # "completed"
      BY <1>1 DEF AcceptsTool, ValidToolRecord
    <2> QED
      BY <1>1, <2>1, AnswerTalk
  <1> QED
    BY <1>1, CloseTalk DEF RepairAdded

LEMMA QueueTalk ==
    ASSUME hist \in History, QueueAdded(hist, hist'), ran' = ran,
           pc' = pc, pc = "model" => live' = live
    PROVE  TalkStep
  <1>1. NextTurn(hist) \in Nat
    BY DEF NextTurn, History
  <1>2. SameRound(hist, hist')
    BY <1>1, AfterQueuedEffect, AfterResolvedEffect DEF QueueAdded
  <1>3. /\ hist'.ctx = hist.ctx /\ hist'.phase = hist.phase
        /\ ToSet(hist'.calls) \ hist'.resolved = ToSet(hist.calls) \ hist.resolved
    BY <1>2 DEF SameRound
  <1>4. ASSUME NEW t \in Text, AcceptsQueued(hist, NextTurn(hist)),
               hist' = AfterQueued(hist, NextTurn(hist), t)
        PROVE  TalkStep
    <2>1. /\ hist.phase # "user" /\ hist.pending = NoText
          /\ hist'.pending = t /\ t # NoText
      BY <1>1, <1>4, AfterQueuedEffect, TextAssumption DEF AcceptsQueued
    <2>2. Talk!UserMustWait(t)
      BY <1>3, <2>1 DEF Talk!UserMustWait
    <2> QED
      BY <2>2 DEF TalkStep, Talk!Next
  <1>5. CASE hist' = AfterResolved(hist, "consumed")
    <2>1. SilentStep(hist, hist')
      BY <1>2, <1>5, AfterResolvedEffect DEF SilentStep
    <2> QED
      BY <2>1, QuietTalk
  <1>6. CASE /\ AcceptsResolved(hist, hist.pendTurn, "discarded")
             /\ hist' = AfterResolved(hist, "discarded")
    <2>1. /\ hist.phase = "user" /\ hist.pending # NoText
          /\ hist'.pending = NoText
      BY <1>6, AfterResolvedEffect DEF AcceptsResolved
    <2>2. Talk!TextIsHandedBack
      BY <1>3, <2>1 DEF Talk!TextIsHandedBack
    <2> QED
      BY <2>2 DEF TalkStep, Talk!Next
  <1> QED
    BY <1>4, <1>5, <1>6 DEF QueueAdded

LEMMA WritesTalk ==
    ASSUME IInv, Writes
    PROVE  TalkStep
  <1>1. /\ hist \in History /\ Shape(hist) /\ WriteAhead /\ Placed
        /\ LiveWhileItLasts
    BY LoopTypes DEF IInv, Typed, TypeOK, StoreOK, Requested
  <1>2. UNCHANGED <<pc, ran>>
    BY WritesKeep
  <1>3. pc' = "model" => pc = "model" /\ live' = live
    BY <1>1, <1>2, WritesAtRest DEF Submit
  <1>4. CASE hist' = hist
    BY <1>2, <1>3, <1>4, QuietTalk DEF SilentStep, SameRound
  <1>5. CASE QueueAdded(hist, hist')
    BY <1>1, <1>2, <1>3, <1>5, QueueTalk
  <1>6. CASE RepairOnOpen \/ Compact
    <2>1. pc = "idle"
      BY <1>1, <1>6 DEF Placed, RepairOnOpen, Compact, AtCommand, AtPrompt
    <2>2. \/ hist' = hist
          \/ RepairAdded(hist, hist')
          \/ CheckpointAdded(hist, hist')
      BY <1>1, <1>6, RepairOnOpenAdds, CompactAdds
         DEF LiveWhileItLasts, Running, Compact, AtCommand, AtPrompt
    <2> QED
      BY <1>1, <1>2, <1>4, <2>1, <2>2, RepairTalk, SummaryTalk
  <1>7. CASE OpenDone \/ Setting
    BY <1>4, <1>7 DEF OpenDone, Setting, Wrote, WriteFailed
  <1> QED
    BY <1>1, <1>4, <1>5, <1>6, <1>7, QueueAdds DEF Writes

LEMMA ReplSpawnedStep ==
    ASSUME IInv, Spawned, [ReplNext]_replVars
    PROVE  Spawned'
  <1>1. LoopTyped /\ Placed
    BY LoopTypes DEF IInv
  <1>2. CASE Drives \/ Moves \/ UNCHANGED replVars
    BY <1>1, <1>2, QuietNext, SpawnedStep
  <1>3. CASE Writes
    BY <1>3, WritesKeep DEF Spawned
  <1>4. CASE Gone
    BY <1>4 DEF Gone, ProcessGone, Spawned
  <1> QED
    BY <1>1, <1>2, <1>3, <1>4, NextIsOneOf

LEMMA ReplTalkStep ==
    ASSUME IInv, Spawned, [ReplNext]_replVars
    PROVE  TalkStep
  <1>1. /\ Typed /\ LoopTyped /\ Placed /\ WriteAhead /\ Requested
        /\ LiveWhileItLasts
    BY LoopTypes DEF IInv
  <1>2. CASE Drives
    <2>1. Running
      BY <1>2 DEF Drives, Starts, RunQueued, RunTyped, AtPrompt, TurnRuns,
                  CallbackRuns, During, InBatch, Unwind, EndOfTurn, UnwindRuns,
                  CtrlC, Signal, Decide, Running
    <2>2. TalkInv /\ [Next]_vars
      BY <1>1, <1>2, <2>1, QuietNext DEF LiveWhileItLasts, TalkInv
    <2> QED
      BY <2>2, TalkGoesOn
  <1>3. CASE Moves \/ UNCHANGED replVars
    <2>1. UNCHANGED <<hist, ran, pc, live>>
      BY <1>3, MovesKeep DEF vars, store
    <2> QED
      BY <2>1, QuietTalk DEF SilentStep, SameRound
  <1>4. CASE Gone
    BY <1>4, QuietTalk DEF Gone, ProcessGone, SilentStep, SameRound
  <1> QED
    BY <1>1, <1>2, <1>3, <1>4, WritesTalk, NextIsOneOf

LEMMA ReplInitTalk == ReplInit => Talk!Init
  <1> SUFFICES ASSUME ReplInit
               PROVE  Talk!Init
    OBVIOUS
  <1>1. PICK n \in LegacyLengths, t \in Text : Created(LegacyHistory(n, t))
    BY DEF ReplInit
  <1>2. n \in Nat
    BY <1>1, ReplAssumption
  <1> DEFINE c == [i \in 1..n |-> IF i % 2 = 1 THEN UserMsg(t)
                                  ELSE AssistantMsg(<<>>)]
  <1>3. /\ hist.ctx = c /\ hist.calls = <<>> /\ ran = {} /\ pc = "idle"
        /\ hist.pending = NoText
        /\ hist.phase = IF n % 2 = 0 THEN "user" ELSE "assistant"
    BY <1>1 DEF Created, LegacyHistory, EmptyHistory
  <1>4. Len(c) = n /\ DOMAIN c = 1..n
    BY <1>2
  <1>5. \A i \in 1..n : c[i].role = IF i % 2 = 1 THEN "user" ELSE "assistant"
    BY DEF UserMsg, AssistantMsg
  <1> HIDE DEF c
  <1>6. ToSet(hist.calls) = {}
    BY <1>3 DEF ToSet
  <1> QED
    BY <1>3, <1>4, <1>5, <1>6 DEF Talk!Init

(* And so the whole session is one Dialogue, through every restart: what a *)
(* dead process left open is answered truthfully or not at all, a queued   *)
(* input becomes a message in its turn, and only whole turns are ever      *)
(* replaced by a summary.                                                  *)
THEOREM ReplKeepsDialogue == ReplSpec => KeepsDialogue
  <1>1. ReplInit => Spawned
    BY DEF ReplInit, Created, Spawned
  <1>2. ReplSpec => []Spawned
    BY <1>1, ReplSpawnedStep, AlwaysIInv, PTL DEF ReplSpec
  <1>3. IInv /\ Spawned /\ [ReplNext]_replVars => TalkStep
    BY ReplTalkStep
  <1> QED
    BY <1>2, <1>3, ReplInitTalk, AlwaysIInv, PTL
       DEF ReplSpec, KeepsDialogue, Talk!Spec, TalkStep

-----------------------------------------------------------------------------
(* What becomes of a queued input.                                         *)
SlotIsOwed == slot # NoText => slot = owed

LEMMA SlotStep ==
    ASSUME LoopTyped, Placed, SlotIsOwed, [ReplNext]_replVars
    PROVE  SlotIsOwed'
  <1>1. CASE Starts
    <2>1. slot' = NoText
      BY <1>1 DEF Starts, RunQueued, RunTyped, AtPrompt
    <2> QED
      BY <2>1 DEF SlotIsOwed
  <1>2. CASE Drives /\ ~Starts
    BY <1>2, DrivesOn DEF queue, SlotIsOwed
  <1>3. CASE Moves \/ UNCHANGED replVars
    BY <1>3 DEF Moves, LeaveLoop, TurnOver, Exit, InputCloses, DrawingFails,
                ReplAtBound, Reopen, replVars, queue, SlotIsOwed
  <1>4. CASE RepairOnOpen \/ OpenDone \/ Compact \/ Setting
    BY <1>4 DEF RepairOnOpen, OpenDone, Compact, Setting, queue, SlotIsOwed
  <1>5. CASE SeedDraft
    BY <1>5 DEF SeedDraft, Placed, SlotIsOwed
  <1>6. CASE Dequeue \/ DiscardQueue
    BY <1>6 DEF Dequeue, DiscardQueue, SlotIsOwed
  <1>7. CASE \E t \in Text : Submit(t)
    BY <1>7 DEF Submit, SlotIsOwed
  <1>8. CASE Gone
    BY <1>8 DEF Gone, ProcessGone, SlotIsOwed
  <1> QED
    BY <1>1, <1>2, <1>3, <1>4, <1>5, <1>6, <1>7, <1>8, NextIsOneOf DEF Writes

(* An input the log has as queued leaves the queue only as the user message *)
(* it becomes, as the draft it is handed back as, or as a command that runs *)
(* now: by whatever step, after whatever failures and deaths.               *)
InputIsHandedOn ==
    [][hist.pending # NoText /\ hist'.pending # hist.pending =>
          \/ hist'.ctx = Append(hist.ctx, UserMsg(hist.pending))
          \/ draft' = hist.pending
          \/ hist.pending \in Commands /\ mode' = "command"]_replVars

HandsOn ==
    hist.pending # NoText /\ hist'.pending # hist.pending =>
        \/ hist'.ctx = Append(hist.ctx, UserMsg(hist.pending))
        \/ draft' = hist.pending
        \/ hist.pending \in Commands /\ mode' = "command"

LEMMA HandsOnStep ==
    ASSUME IInv, SlotIsOwed, [ReplNext]_replVars
    PROVE  HandsOn
  <1>1. /\ Typed /\ LoopTyped /\ Placed /\ hist \in History /\ NextTurn(hist) \in Nat
        /\ AcceptedInputIsKept /\ LiveWhileItLasts
    BY LoopTypes DEF IInv, Typed, TypeOK, StoreOK, NextTurn, History
  <1>2. slot # NoText => slot = hist.pending
    BY <1>1 DEF SlotIsOwed, AcceptedInputIsKept
  <1>3. ASSUME hist'.pending = hist.pending
        PROVE  HandsOn
    BY <1>3 DEF HandsOn
  <1>4. CASE Starts
    <2>1. PICK t : StartTurn(t)
      BY <1>4 DEF Starts, RunQueued, RunTyped
    <2>2. \/ hist' = hist
          \/ AcceptsUser(hist, turnId, t) /\ hist' = AfterUser(hist, turnId, t)
      BY <2>1 DEF StartTurn, Start, Wrote, WriteFailed
    <2>3. CASE ~hist.consumed
      BY <1>1, <1>3, <2>2, <2>3, UserSettlesQueue
    <2>4. CASE /\ hist.consumed /\ AcceptsUser(hist, turnId, t)
               /\ hist' = AfterUser(hist, turnId, t)
      <3>1. hist.pending = t /\ hist'.ctx = Append(hist.ctx, UserMsg(t))
        BY <1>1, <2>4, AfterUserEffect DEF AcceptsUser
      <3> QED
        BY <3>1 DEF HandsOn
    <2> QED
      BY <1>3, <2>2, <2>3, <2>4
  <1>5. CASE Drives /\ ~Starts
    <2>1. hist' = hist \/ RestAdded(hist, hist', turnId)
      BY <1>1, <1>5, DrivesOn, LogGoesOn
    <2> QED
      BY <1>1, <1>3, <2>1, RestKeepsQueue
  <1>6. CASE Moves \/ UNCHANGED replVars
    BY <1>3, <1>6, MovesKeep DEF vars, store
  <1>7. CASE RepairOnOpen
    BY <1>1, <1>3, <1>7, RepairOnOpenAdds, RepairIsOfTheTurn, RestKeepsQueue
  <1>8. CASE SeedDraft
    BY <1>3, <1>8 DEF SeedDraft, OpenAppend, WriteFailed, control, HandsOn
  <1>9. CASE OpenDone \/ Setting
    BY <1>3, <1>9 DEF OpenDone, Setting, Wrote, WriteFailed
  <1>10. CASE Dequeue
    <2>1. \/ hist' = hist
          \/ slot \in Commands /\ mode' = "command"
          \/ hist' = AfterResolved(hist, "consumed")
      BY <1>10 DEF Dequeue, Wrote, WriteFailed, Goes
    <2>2. slot = hist.pending
      BY <1>2, <1>10 DEF Dequeue
    <2>3. AfterResolved(hist, "consumed").pending = hist.pending
      BY <1>1, AfterResolvedEffect
    <2> QED
      BY <1>3, <2>1, <2>2, <2>3 DEF HandsOn
  <1>11. CASE DiscardQueue
    <2>1. slot = hist.pending
      BY <1>1, <1>2, <1>11 DEF DiscardQueue, Placed
    <2>2. hist' = hist \/ draft' = slot
      BY <1>11 DEF DiscardQueue, WriteFailed
    <2> QED
      BY <1>3, <2>1, <2>2 DEF HandsOn
  <1>12. CASE Compact
    <2>1. LiveMatchesHistory
      BY <1>1, <1>12 DEF Compact, AtCommand, AtPrompt, Running, LiveWhileItLasts
    <2> QED
      BY <1>1, <1>3, <1>12, <2>1, CompactAdds, AfterCheckpointEffect
         DEF CheckpointAdded, AcceptsCheckpoint
  <1>13. CASE \E t \in Text : Submit(t)
    <2>1. hist' = hist \/ hist.pending = NoText
      BY <1>13 DEF Submit, Wrote, WriteFailed, AcceptsQueued
    <2> QED
      BY <1>3, <2>1 DEF HandsOn
  <1>14. CASE Gone
    BY <1>3, <1>14 DEF Gone, ProcessGone
  <1> QED
    BY <1>1, <1>4, <1>5, <1>6, <1>7, <1>8, <1>9, <1>10, <1>11, <1>12, <1>13, <1>14,
       NextIsOneOf DEF Writes

(* No input once queued is ever dropped.                                   *)
THEOREM QueuedInputIsHandedOn == ReplSpec => InputIsHandedOn
  <1>1. ReplInit => SlotIsOwed
    BY DEF ReplInit, SlotIsOwed
  <1>2. IInv /\ SlotIsOwed /\ [ReplNext]_replVars => SlotIsOwed'
    BY SlotStep, LoopTypes DEF IInv
  <1>3. IInv /\ SlotIsOwed /\ [ReplNext]_replVars => [HandsOn]_replVars
    BY HandsOnStep
  <1> QED
    BY <1>1, <1>2, <1>3, AlwaysIInv, PTL DEF ReplSpec, InputIsHandedOn, HandsOn

-----------------------------------------------------------------------------
(* A loop that has lost sight of the queue is on its way out.              *)
GivesUp ==
    /\ mode \in {"turn", "turnover"} /\ pc = "idle"
    /\ lastError /\ turnStatus # "ok" /\ ~Cancelled /\ slot = NoText

QueueInSight ==
    via = "open" /\ Running =>
        /\ hist.pending = slot \/ GivesUp
        /\ mode = "have" => hist.consumed

LEMMA SightStep ==
    ASSUME IInv, QueueInSight, [ReplNext]_replVars
    PROVE  QueueInSight'
  <1>1. /\ Typed /\ LoopTyped /\ Placed /\ hist \in History /\ NextTurn(hist) \in Nat
        /\ LiveWhileItLasts
    BY LoopTypes DEF IInv, Typed, TypeOK, StoreOK, NextTurn, History
  <1> DEFINE settled == mode' # "have" /\ hist'.pending = slot'
  <1>2. ASSUME settled \/ ~Running'
        PROVE  QueueInSight'
    BY <1>2 DEF QueueInSight
  <1>3. CASE Starts
    <2>1. PICK t \in Text : StartTurn(t) /\ (RunQueued \/ RunTyped(t))
      BY <1>1, <1>3 DEF Starts, RunQueued, RunTyped, LoopTyped, QueueOK, Placed
    <2>2. /\ slot' = NoText /\ mode' \in {"turn", "turnover"} /\ Running
          /\ mode \in {"prompt", "have"} /\ via' = via
          /\ mode = "prompt" => slot = NoText
      BY <2>1 DEF RunQueued, RunTyped, AtPrompt, StartTurn, Running
    <2>3. ~GivesUp
      BY <2>2 DEF GivesUp
    <2>4. CASE AcceptsUser(hist, turnId, t) /\ hist' = AfterUser(hist, turnId, t)
      BY <1>1, <1>2, <2>2, <2>3, <2>4, UserSettlesQueue DEF QueueInSight
    <2>5. CASE /\ hist' = hist /\ lastError' = TRUE /\ pc' = "idle"
               /\ outcome' = "failed"
      <3>1. GivesUp'
        BY <2>1, <2>2, <2>5 DEF StartTurn, GivesUp, Cancelled
      <3> QED
        BY <2>2, <3>1 DEF QueueInSight
    <2> QED
      BY <2>1, <2>4, <2>5 DEF StartTurn, Start, Wrote, WriteFailed, FinishTurn
  <1>4. CASE Drives /\ ~Starts
    <2>1. hist'.pending = hist.pending /\ UNCHANGED <<queue, control>> /\ mode # "have"
      <3>1. hist' = hist \/ RestAdded(hist, hist', turnId)
        BY <1>1, <1>4, DrivesOn, LogGoesOn
      <3>2. UNCHANGED <<queue, control>> /\ mode # "have"
        BY <1>4 DEF Drives, TurnRuns, CallbackRuns, During, InBatch, Unwind, EndOfTurn,
                    UnwindRuns, CtrlC, Signal, Decide
      <3> QED
        BY <1>1, <3>1, <3>2, RestKeepsQueue
    <2>2. CASE ~GivesUp
      BY <1>2, <2>1, <2>2 DEF QueueInSight, queue, control, Running
    <2>3. CASE GivesUp
      <3>1. /\ UNCHANGED <<pc, lastError, outcome>>
            /\ turnStatus' = turnStatus
        BY <1>4, <2>3
           DEF GivesUp, Drives, TurnRuns, CallbackRuns, During, Unwind, UnwindRuns,
               TellsOfTool, CtrlC, Signal, Decide, RunOn, World, ModelAnswers, Answer,
               Cancel, TurnAway, NextRound, StageTool, LaunchTool, RefuseTool, RepairCall,
               RepairMarker, SkipCall, SteeredBookend, Stream, StreamBreaks,
               ReplyFails, Reply, ToolDone, ToolBreaks, convVars, store, closing
      <3> QED
        BY <2>1, <2>3, <3>1 DEF GivesUp, QueueInSight, queue, control, Cancelled
    <2> QED
      BY <2>2, <2>3
  <1>5. CASE InputCloses
    BY <1>1, <1>5 DEF InputCloses, InBatch, convVars, store, closing, control, queue,
                      QueueInSight, GivesUp, Cancelled, Running
  <1>6. CASE LeaveLoop \/ DrawingFails
    BY <1>1, <1>6 DEF LeaveLoop, DrawingFails, InBatch, Goes, convVars, store, closing,
                      queue, loop, QueueInSight, GivesUp, Cancelled, Running
  <1>7. CASE TurnOver
    <2>1. UNCHANGED <<hist, slot, via>> /\ mode' \in {"prompt", "leaving"}
          /\ mode = "turnover"
      BY <1>7 DEF TurnOver, EndOfTurn, BackToPrompt, Goes, Fails, convVars, store, queue
    <2>2. GivesUp => mode' = "leaving"
      BY <1>7 DEF TurnOver, GivesUp, Broken, Fails
    <2> QED
      BY <1>2, <2>1, <2>2 DEF QueueInSight, Running
  <1>8. CASE UNCHANGED replVars
    BY <1>8 DEF replVars, convVars, store, closing, control, queue, loop,
                QueueInSight, GivesUp, Cancelled, Running
  <1>9. CASE \/ Exit \/ Gone \/ ReplAtBound \/ RepairOnOpen \/ SeedDraft
             \/ \E how \in {"open", "switch"} : Reopen(how)
    <2>1. ~Running'
      BY <1>9 DEF Exit, Gone, ProcessGone, ReplAtBound, RepairOnOpen, SeedDraft,
                  OpenAppend, Reopen, Running, replVars, control
    <2> QED
      BY <1>2, <2>1
  <1>10. CASE OpenDone
    BY <1>1, <1>10 DEF OpenDone, WriteFailed, Placed, queue, QueueInSight, Running
  <1>11. CASE Dequeue
    <2>1. CASE mode' = "leaving"
      BY <1>2, <2>1 DEF Running
    <2>2. CASE /\ hist' = AfterResolved(hist, "discarded") /\ slot' = NoText
               /\ mode' = "command"
      BY <1>1, <1>2, <2>2, AfterResolvedEffect
    <2>3. CASE /\ hist' = AfterResolved(hist, "consumed") /\ slot' = slot
               /\ mode' = "have" /\ mode = "prompt" /\ via' = via
      BY <1>1, <2>3, AfterResolvedEffect DEF QueueInSight, GivesUp, Running
    <2> QED
      BY <1>11, <2>1, <2>2, <2>3 DEF Dequeue, Wrote, Goes, Fails
  <1>12. CASE DiscardQueue
    <2>1. slot' = NoText /\ UNCHANGED <<pc, control>> /\ mode = "turn" /\ pc = "idle"
      BY <1>12 DEF DiscardQueue
    <2>2. CASE hist' = AfterResolved(hist, "discarded")
      BY <1>1, <1>2, <2>1, <2>2, AfterResolvedEffect DEF control
    <2>3. CASE lastError' = TRUE /\ turnStatus' = "input"
      <3>1. GivesUp'
        BY <2>1, <2>3 DEF GivesUp, Cancelled, control
      <3> QED
        BY <2>1, <3>1 DEF QueueInSight, control
    <2> QED
      BY <1>12, <2>2, <2>3 DEF DiscardQueue, Wrote, WriteFailed
  <1>13. CASE Compact \/ Setting
    <2>1. LiveMatchesHistory /\ mode \in {"prompt", "command"}
      BY <1>1, <1>13 DEF Compact, Setting, AtCommand, AtPrompt, Running,
                         LiveWhileItLasts
    <2>2. hist' = hist \/ CheckpointAdded(hist, hist')
      BY <1>1, <1>13, <2>1, CompactAdds DEF Setting, Wrote, WriteFailed
    <2>3. hist'.pending = hist.pending
      BY <1>1, <2>2, AfterCheckpointEffect DEF CheckpointAdded, AcceptsCheckpoint
    <2>4. slot' = slot /\ via' = via /\ mode' \in {"prompt", "leaving"}
      BY <1>13 DEF Compact, Setting, Goes, Fails
    <2> QED
      BY <1>2, <2>1, <2>3, <2>4 DEF QueueInSight, GivesUp, Running
  <1>14. CASE \E t \in Text : Submit(t)
    <2>1. PICK t \in Text : Submit(t)
      BY <1>14
    <2>2. UNCHANGED <<pc, control, outcome>> /\ mode = "turn" /\ slot = NoText
      BY <2>1 DEF Submit, InBatch, closing
    <2>3. CASE hist' = AfterQueued(hist, NextTurn(hist), t) /\ slot' = t
      BY <1>1, <1>2, <2>2, <2>3, AfterQueuedEffect DEF control
    <2>4. CASE /\ hist' = hist /\ slot' = slot /\ lastError' = TRUE
               /\ turnStatus' = "input"
      BY <2>2, <2>4 DEF control, QueueInSight, GivesUp, Cancelled, Running
    <2> QED
      BY <2>1, <2>3, <2>4 DEF Submit, Wrote, WriteFailed
  <1> QED
    BY <1>1, <1>3, <1>4, <1>5, <1>6, <1>7, <1>8, <1>9, <1>10, <1>11, <1>12, <1>13,
       <1>14, NextIsOneOf DEF Moves, Writes

(* A session that was opened hands back what was queued before it comes to *)
(* its prompt, whatever fails later: only one that was switched to does    *)
(* not (seed_pending_draft_from_replay, which prepare_history leaves out). *)
THEOREM OpeningHandsBack == ReplSpec => [](via = "open" => PendingIsHandedBack)
  <1>1. ReplInit => QueueInSight
    BY DEF ReplInit, QueueInSight, Running
  <1>2. IInv /\ QueueInSight /\ [ReplNext]_replVars => QueueInSight'
    BY SightStep
  <1>3. QueueInSight => (via = "open" => PendingIsHandedBack)
    BY DEF QueueInSight, PendingIsHandedBack, AtPrompt, GivesUp, Running
  <1> QED
    BY <1>1, <1>2, <1>3, AlwaysIInv, PTL DEF ReplSpec
-----------------------------------------------------------------------------
(* What ends a run with an error.                                          *)
Failing == lastError \/ (mode = "leaving" /\ verdict = "failed")

Caused == Failing => hazard # {}

(* An append that fails leaves a mishap, or a refusal, which is one.       *)
Refuses == lastError' = lastError \/ "storage" \in hazard' \/ rejected'

LEMMA FailureIsNoted ==
    ASSUME NEW ok, NEW why, WriteFailed(ok, why)
    PROVE  Refuses
  <1>1. CASE ok
    BY <1>1 DEF WriteFailed, Refuses
  <1>2. CASE ~ok
    BY <1>2, Zenon DEF WriteFailed, Refuses
  <1> QED
    BY <1>1, <1>2

LEMMA ErrorStep ==
    ASSUME [Next]_vars
    PROVE  Refuses
  <1>1. CASE UNCHANGED lastError
    BY <1>1 DEF Refuses
  <1>2. CASE KeepPartial
    BY <1>1, <1>2, FailureIsNoted DEF KeepPartial, Wrote
  <1>3. CASE \E o, raw : Answered(o, raw) \/ NotAnswered(o, raw)
    BY <1>1, <1>3, FailureIsNoted DEF Answered, NotAnswered, Wrote
  <1>4. CASE \E t \in Text : Start(t)
    BY <1>1, <1>4, FailureIsNoted DEF Start, Wrote
  <1>5. CASE LaunchTool
    BY <1>1, <1>5, FailureIsNoted DEF LaunchTool, Wrote
  <1>6. CASE \E reply \in Replies : Reply(reply)
    BY <1>1, <1>6, FailureIsNoted DEF Reply, Wrote
  <1>7. CASE RepairMarker \/ SteeredBookend
    BY <1>1, <1>7, FailureIsNoted DEF RepairMarker, SteeredBookend, Close, Wrote
  <1>8. CASE RefuseTool \/ ToolDone \/ RepairCall \/ SkipCall
    BY <1>3, <1>8 DEF RefuseTool, ToolDone, RepairCall, SkipCall, FillIn
  <1>9. CASE Cancel \/ ReplyFails
    BY <1>1, <1>2, <1>9 DEF Cancel, ReplyFails
  <1>10. CASE \/ Stream \/ StreamBreaks \/ ToolBreaks \/ Steer \/ AtBound
              \/ TurnAway \/ NextRound \/ StageTool \/ UNCHANGED vars
              \/ \E allow \in BOOLEAN : Answer(allow)
    BY <1>1, <1>10 DEF Stream, StreamBreaks, ToolBreaks, Steer, AtBound, TurnAway,
                       NextRound, StageTool, Answer, store, vars
  <1> QED
    BY <1>4, <1>5, <1>6, <1>7, <1>8, <1>9, <1>10
       DEF Next, RunOn, World, ModelAnswers, Embedder

LEMMA CausedStep ==
    ASSUME ReplTyped, Placed, Caused, NoUnprovokedRejection',
           "present" \notin Faults, [ReplNext]_replVars
    PROVE  Caused'
  <1>1. LoopTyped /\ hazard \subseteq hazard'
    BY LoopTypes, ReplHazardGrows
  <1>2. ASSUME Refuses, ~lastError => mode' # "leaving" \/ verdict' # "failed"
        PROVE  Caused'
    BY <1>1, <1>2 DEF Caused, Failing, Refuses, NoUnprovokedRejection
  <1>3. ASSUME NEW ok, NEW why, WriteFailed(ok, why)
        PROVE  Caused'
    <2>1. "storage" \in hazard' \/ rejected'
      BY <1>3, Zenon DEF WriteFailed
    <2> QED
      BY <2>1 DEF NoUnprovokedRejection, Caused
  <1>4. CASE Drives
    <2>1. mode' # "leaving"
      BY <1>4 DEF Drives, Starts, RunQueued, RunTyped, StartTurn, TurnRuns,
                  CallbackRuns, During, InBatch, Unwind, EndOfTurn, UnwindRuns,
                  CtrlC, Signal, Decide, control
    <2>2. Refuses
      BY <1>1, <1>4, QuietNext, ErrorStep
    <2> QED
      BY <1>2, <2>1, <2>2
  <1>5. CASE TurnOver
    <2>1. UNCHANGED lastError
      BY <1>5 DEF TurnOver, convVars, store
    <2>2. ~lastError => mode' # "leaving" \/ verdict' # "failed"
      BY <1>5 DEF TurnOver, BackToPrompt, Goes, Fails
    <2> QED
      BY <1>2, <2>1, <2>2 DEF Refuses
  <1>6. CASE \/ LeaveLoop \/ Exit \/ DrawingFails
             \/ \E how \in {"open", "switch"} : Reopen(how)
    <2>1. UNCHANGED lastError /\ (mode' # "leaving" \/ verdict' # "failed")
      BY <1>6 DEF LeaveLoop, Exit, DrawingFails, Reopen, Goes, convVars, store
    <2> QED
      BY <1>2, <2>1 DEF Refuses
  <1>7. CASE InputCloses \/ ReplAtBound \/ UNCHANGED replVars
    <2>1. UNCHANGED <<lastError, mode, verdict, hazard>>
      BY <1>7 DEF InputCloses, ReplAtBound, replVars, convVars, store, control
    <2> QED
      BY <2>1 DEF Caused, Failing
  <1>8. CASE Gone
    BY <1>8 DEF Gone, ProcessGone, Caused, Failing
  <1>9. ASSUME UNCHANGED lastError, mode' # "leaving"
        PROVE  Caused'
    BY <1>2, <1>9 DEF Refuses
  <1>10. CASE RepairOnOpen \/ SeedDraft
    <2>1. PICK ok, after : OpenAppend(ok, after)
      BY <1>10 DEF RepairOnOpen, SeedDraft
    <2>2. mode = "opening"
      BY <1>10 DEF RepairOnOpen, SeedDraft
    <2> QED
      BY <1>3, <1>9, <2>1, <2>2 DEF OpenAppend, Wrote, control
  <1>11. CASE OpenDone
    BY <1>3, <1>9, <1>11 DEF OpenDone
  <1>12. CASE Dequeue
    BY <1>3, <1>9, <1>12 DEF Dequeue, Wrote, Goes
  <1>13. CASE DiscardQueue
    BY <1>3, <1>9, <1>13 DEF DiscardQueue, Wrote, control
  <1>14. CASE Compact \/ Setting
    BY <1>3, <1>9, <1>14 DEF Compact, Setting, Wrote, Goes
  <1>15. CASE \E t \in Text : Submit(t)
    BY <1>3, <1>9, <1>15 DEF Submit, InBatch, Wrote, control
  <1> QED
    BY <1>1, <1>4, <1>5, <1>6, <1>7, <1>8, <1>10, <1>11, <1>12, <1>13, <1>14, <1>15,
       NextIsOneOf DEF Moves, Writes

(* As long as the output can be drawn, a run ends with an error only after  *)
(* one of the listed mishaps: no sequence of inputs, signals, replies and   *)
(* tools that end as they like leads there.                                 *)
FailureHasACause == mode = "leaving" /\ verdict = "failed" => hazard # {}

(* So it is whatever else may fail: storage, requests, tools, the process.  *)
THEOREM RunsFailForACause ==
    ASSUME "present" \notin Faults
    PROVE  ReplSpec => []FailureHasACause
  <1>1. ReplInit => Caused
    BY DEF ReplInit, Created, Caused, Failing
  <1>2. /\ IInv /\ Caused /\ NoUnprovokedRejection' /\ [ReplNext]_replVars => Caused'
    BY CausedStep DEF IInv
  <1>3. Caused => FailureHasACause
    BY DEF Caused, Failing, FailureHasACause
  <1> QED
    BY <1>1, <1>2, <1>3, AlwaysIInv, ReplRecordsAreAccepted, PTL DEF ReplSpec

(* What a step may add to the mishaps when nothing but storage may fail.    *)
OnlyStorage == hazard \subseteq {"storage"}

LEMMA OnlyStorageStep ==
    ASSUME LoopTyped, Placed, Requested, OnlyStorage, Faults \subseteq {"storage"},
           Mishaps \subseteq {"crash", "eof"}, \A cs \in Replies : DistinctCalls(cs),
           via = "open", [ReplNext]_replVars
    PROVE  OnlyStorage'
  <1> USE DEF OnlyStorage
  <1>1. ASSUME NEW ok, WriteFailed(ok, {})
        PROVE  OnlyStorage'
    BY <1>1 DEF WriteFailed
  <1>2. CASE UNCHANGED hazard
    BY <1>2
  <1>3. CASE KeepPartial
    BY <1>1, <1>3 DEF KeepPartial
  <1>4. CASE \E o, raw : Answered(o, raw) \/ NotAnswered(o, raw)
    BY <1>1, <1>4 DEF Answered, NotAnswered
  <1>5. CASE [Next]_vars
    <2>1. CASE \E t \in Text : Start(t)
      BY <1>1, <2>1 DEF Start
    <2>2. CASE LaunchTool
      BY <1>1, <2>2 DEF LaunchTool
    <2>3. CASE \E reply \in Replies : Reply(reply)
      BY <1>1, <2>3 DEF Reply
    <2>4. CASE RepairMarker \/ SteeredBookend
      BY <1>1, <2>4 DEF RepairMarker, SteeredBookend, Close
    <2>5. CASE RefuseTool \/ ToolDone \/ RepairCall \/ SkipCall
      BY <1>4, <2>5 DEF RefuseTool, ToolDone, RepairCall, SkipCall, FillIn
    <2>6. CASE Cancel \/ ReplyFails
      BY <1>3, <2>6 DEF Cancel, ReplyFails
    <2>7. CASE \/ Stream \/ StreamBreaks \/ ToolBreaks \/ Steer \/ AtBound
               \/ TurnAway \/ NextRound \/ StageTool \/ UNCHANGED vars
               \/ \E allow \in BOOLEAN : Answer(allow)
      BY <2>7 DEF Stream, StreamBreaks, ToolBreaks, Steer, AtBound, TurnAway,
                  NextRound, StageTool, Answer, store, vars
    <2> QED
      BY <1>5, <2>1, <2>2, <2>3, <2>4, <2>5, <2>6, <2>7
         DEF Next, RunOn, World, ModelAnswers, Embedder
  <1>6. CASE Drives \/ Moves \/ UNCHANGED replVars
    BY <1>5, <1>6, QuietNext
  <1>7. CASE RepairOnOpen \/ SeedDraft
    <2>1. PICK ok, after : OpenAppend(ok, after)
      BY <1>7 DEF RepairOnOpen, SeedDraft
    <2> QED
      BY <1>1, <2>1 DEF OpenAppend
  <1>8. CASE OpenDone
    <2>1. hist.pending = NoText /\ hist.phase = "user"
      BY <1>8 DEF OpenDone, NeedsRepair
    <2>2. AcceptsSetting(hist)
      BY <2>1 DEF Requested, Shape, AcceptsSetting, BetweenTurns
    <2>3. hazard' = hazard \/ hazard' = hazard \cup {"storage"}
      BY <1>8, <2>1, <2>2 DEF OpenDone, WriteFailed
    <2> QED
      BY <2>3
  <1>9. CASE Dequeue \/ DiscardQueue \/ Compact \/ Setting
    BY <1>1, <1>9 DEF Dequeue, DiscardQueue, Compact, Setting
  <1>10. CASE \E t \in Text : Submit(t)
    BY <1>1, <1>10 DEF Submit
  <1>11. CASE Gone
    BY <1>11 DEF Gone, ProcessGone
  <1> QED
    BY <1>6, <1>7, <1>8, <1>9, <1>10, <1>11, NextIsOneOf DEF Writes

LEMMA ViaStep ==
    ASSUME LoopTyped, "switch" \notin Mishaps, via = "open", [ReplNext]_replVars
    PROVE  via' = "open"
  <1>1. CASE Drives
    BY <1>1 DEF Drives, Starts, RunQueued, RunTyped, StartTurn, TurnRuns,
                CallbackRuns, During, Unwind, UnwindRuns, CtrlC, Signal, Decide, control
  <1>2. CASE Moves \/ UNCHANGED replVars
    BY <1>2 DEF Moves, LeaveLoop, TurnOver, BackToPrompt, Exit, InputCloses,
                DrawingFails, ReplAtBound, Reopen, Goes, Fails, replVars, control
  <1>3. CASE Writes
    BY <1>3 DEF Writes, RepairOnOpen, SeedDraft, OpenDone, OpenAppend, Dequeue,
                DiscardQueue, Compact, Setting, Submit, Goes, Fails, control
  <1>4. CASE Gone
    BY <1>4 DEF Gone, ProcessGone
  <1> QED
    BY <1>1, <1>2, <1>3, <1>4, NextIsOneOf

(* What docs/CLI.md says of errors holds where the program can be drawn,    *)
(* every request can be started, a reply repeats no call, no Enter comes    *)
(* after the end of its turn and no session is switched to: then a run      *)
(* ends with an error only when the storage failed.                         *)
THEOREM OnlyStorageFails ==
    ASSUME Faults \subseteq {"storage"}, Mishaps \subseteq {"crash", "eof"},
           \A cs \in Replies : DistinctCalls(cs)
    PROVE  ReplSpec => []OnlyStorageEndsTheRun
  <1> DEFINE Opened == OnlyStorage /\ via = "open"
  <1>1. ReplInit => Opened
    BY DEF ReplInit, Created, OnlyStorage
  <1>2. IInv /\ Opened /\ [ReplNext]_replVars => Opened'
    BY OnlyStorageStep, ViaStep, LoopTypes DEF IInv
  <1>3. Opened /\ FailureHasACause => OnlyStorageEndsTheRun
    BY DEF OnlyStorage, FailureHasACause, OnlyStorageEndsTheRun
  <1>4. ReplSpec => []FailureHasACause
    BY RunsFailForACause
  <1> HIDE DEF Opened
  <1> QED
    BY <1>1, <1>2, <1>3, <1>4, AlwaysIInv, PTL DEF ReplSpec
=============================================================================
