-------------------------- MODULE ConversationProofs --------------------------
(***************************************************************************)
(* Theorems about Conversation, for every set of calls, replies and texts, *)
(* every max_model_steps and every combination of faults.                  *)
(***************************************************************************)
EXTENDS Conversation, HistoryProofs

-----------------------------------------------------------------------------
(* The type invariant is inductive once it is known where tool_index       *)
(* points at a call.                                                       *)
Serving == {"ask", "launch", "refuse", "tool", "repair", "skip"}

IndexInRange == pc \in Serving => ti <= Len(calls)

Typed == TypeOK /\ IndexInRange

LEMMA TypedInit == Init => Typed
  <1> SUFFICES ASSUME Init
               PROVE  Typed
    OBVIOUS
  <1>1. /\ hist \in History /\ hist.started = 0
        /\ turnId = 1 /\ pc = "idle" /\ steps = 0 /\ calls = <<>> /\ ti = 1
        /\ ending = "failed" /\ outcome = "ok" /\ ran = {}
    BY EmptyHistoryType DEF Init, Created, EmptyHistory, NextTurn
  <1>2. StoreOK
    BY <1>1, ConversationAssumption DEF StoreOK
  <1>3. ProgressOK
    BY <1>1, ConversationAssumption DEF ProgressOK
  <1>4. PlaceOK
    BY <1>1 DEF PlaceOK, Waiting
  <1>5. FlagsOK
    BY Zenon DEF FlagsOK, Init, Created
  <1>6. IndexInRange
    BY <1>1 DEF IndexInRange, Serving
  <1> QED
    BY <1>1, <1>2, <1>3, <1>4, <1>5, <1>6 DEF Typed, TypeOK

(* What an append leaves behind.                                           *)
LEMMA AppendType ==
    ASSUME StoreOK, NEW ok \in BOOLEAN, NEW after, NEW why,
           ok => after \in History /\ after.started <= MaxTurns,
           Wrote(ok, after) \/ WriteFailed(ok, why)
    PROVE  StoreOK'
  BY DEF StoreOK, Wrote, WriteFailed

(* What the ways to go on leave behind.                                    *)
LEMMA FinishTurnType ==
    ASSUME PlaceOK, hist' \in History,
           NEW how \in {"ok", "failed", "cancelled"}, FinishTurn(how)
    PROVE  PlaceOK' /\ IndexInRange'
  BY DEF PlaceOK, FinishTurn, NextTurn, History, Waiting, IndexInRange, Serving

LEMMA CloseOutType ==
    ASSUME PlaceOK, NEW how \in {"failed", "cancelled"}, NEW may \in BOOLEAN,
           CloseOut(how, may)
    PROVE  PlaceOK' /\ IndexInRange'
  BY DEF PlaceOK, CloseOut, Steps, IndexInRange, Serving

LEMMA GotoType ==
    ASSUME PlaceOK, NEW label \in Waiting \cup Steps, Goto(label),
           label \in Serving => ti' <= Len(calls')
    PROVE  PlaceOK' /\ IndexInRange'
  BY DEF PlaceOK, Goto, closing, IndexInRange

LEMMA CallInRange ==
    ASSUME ProgressOK, ti <= Len(calls)
    PROVE  calls[ti] \in CallId
  BY DEF ProgressOK

(* A tool message, written or not.                                         *)
LEMMA AnswerType ==
    ASSUME StoreOK, ProgressOK, ti <= Len(calls),
           NEW result \in Outcome, NEW raw \in BOOLEAN,
           Answered(result, raw) \/ NotAnswered(result, raw)
    PROVE  StoreOK'
  <1> DEFINE ok == AcceptsTool(hist, turnId, calls[ti], result, "normal", raw)
             after == AfterTool(hist, calls[ti], result)
  <1>1. after \in History /\ after.started = hist.started
    <2>1. after \in History
      BY CallInRange, AfterToolType DEF StoreOK
    <2>2. after.started = hist.started
      BY DEF AfterTool, StoreOK, History
    <2> QED
      BY <2>1, <2>2
  <1>2. ok \in BOOLEAN
    BY DEF AcceptsTool, ValidToolRecord
  <1>3. Wrote(ok, after) \/ WriteFailed(ok, {})
    BY DEF Answered, NotAnswered
  <1> HIDE DEF ok, after
  <1> QED
    BY <1>1, <1>2, <1>3, AppendType DEF StoreOK

(* The partial text of a reply, kept or not.                               *)
LEMMA KeepPartialType ==
    ASSUME StoreOK, KeepPartial
    PROVE  StoreOK'
  <1> DEFINE ok == AcceptsPartial(hist, turnId)
             after == AfterPartial(hist)
  <1>1. after \in History /\ after.started = hist.started
    BY AfterPartialType DEF AfterPartial, StoreOK, History
  <1>2. ok \in BOOLEAN
    BY DEF AcceptsPartial
  <1>3. Wrote(ok, after) \/ WriteFailed(ok, {}) \/ hist' = hist
    BY DEF KeepPartial
  <1> HIDE DEF ok, after
  <1> QED
    BY <1>1, <1>2, <1>3, AppendType DEF StoreOK

-----------------------------------------------------------------------------
(* One lemma per action.                                                   *)

LEMMA StartType ==
    ASSUME Typed, NEW t \in Text, Start(t)
    PROVE  Typed'
  <1> USE DEF Typed, TypeOK
  <1> DEFINE ok == AcceptsUser(hist, turnId, t)
             after == AfterUser(hist, turnId, t)
  <1>1. ok => after \in History /\ after.started <= MaxTurns
    <2>1. after \in History
      BY AfterUserType DEF StoreOK, PlaceOK
    <2>2. ok => after.started = hist.started + 1
      BY DEF StoreOK, AcceptsUser, AfterUser, NextTurn, History
    <2>3. hist.started < MaxTurns /\ hist.started \in Nat
      BY DEF Start, StoreOK, History
    <2> QED
      BY <2>1, <2>2, <2>3, ConversationAssumption
  <1>2. ok \in BOOLEAN
    BY DEF AcceptsUser
  <1>3. Wrote(ok, after) \/ WriteFailed(ok, {})
    BY DEF Start
  <1>4. StoreOK'
    <2> HIDE DEF ok, after
    <2> QED
      BY <1>1, <1>2, <1>3, AppendType
  <1>5. ProgressOK' /\ ran' \subseteq CallId
    <2>1. /\ steering' = FALSE /\ text' = FALSE
          /\ UNCHANGED <<calls, ti, ran>>
          /\ steps' \in {0, 1}
          /\ committed' = FALSE \/ committed' = committed
      BY DEF Start
    <2> QED
      BY <2>1, ConversationAssumption DEF ProgressOK
  <1>6. \/ FinishTurn("failed")
        \/ pc' = "model" /\ outcome' = "none"
           /\ UNCHANGED <<mayStart, rFail, ending, turnId>>
    BY DEF Start
  <1>7. PlaceOK' /\ IndexInRange'
    <2>1. CASE FinishTurn("failed")
      BY <1>4, <2>1, FinishTurnType DEF StoreOK
    <2>2. CASE ~FinishTurn("failed")
      BY <1>6, <2>2 DEF PlaceOK, Waiting, IndexInRange, Serving
    <2> QED
      BY <2>1, <2>2
  <1>8. FlagsOK'
    BY Zenon DEF FlagsOK, Start, Wrote, WriteFailed, FinishTurn
  <1> QED
    BY <1>4, <1>5, <1>7, <1>8

LEMMA StreamType ==
    ASSUME Typed, Stream
    PROVE  Typed'
  <1>1. UNCHANGED <<hist, turnId, pc, ending, outcome, steps, calls, ti, ran>>
    BY DEF Stream, store, closing
  <1>2. FlagsOK'
    BY Zenon DEF Typed, TypeOK, FlagsOK, Stream, store, closing
  <1> QED
    BY <1>1, <1>2 DEF Typed, TypeOK, StoreOK, ProgressOK, PlaceOK, IndexInRange

LEMMA BreaksType ==
    ASSUME Typed, StreamBreaks \/ ToolBreaks
    PROVE  Typed'
  <1> USE DEF Typed, TypeOK
  <1>1. /\ UNCHANGED <<hist, steps, calls, ti, ran>>
        /\ UNCHANGED <<lastError, rejected, steering, committed, text>>
        /\ CloseOut("failed", FALSE) \/ CloseOut("failed", TRUE)
    BY DEF StreamBreaks, ToolBreaks, progress
  <1>2. StoreOK' /\ ProgressOK' /\ ran' \subseteq CallId
    BY <1>1 DEF StoreOK, ProgressOK
  <1>3. PlaceOK' /\ IndexInRange'
    BY <1>1, CloseOutType
  <1>4. FlagsOK'
    BY <1>1, Zenon DEF FlagsOK, CloseOut
  <1> QED
    BY <1>2, <1>3, <1>4

LEMMA ReplyType ==
    ASSUME Typed, NEW reply \in Replies, Reply(reply)
    PROVE  Typed'
  <1> USE DEF Typed, TypeOK
  <1> DEFINE ok == AcceptsAssistant(hist, turnId, "normal", reply)
             after == AfterAssistant(hist, reply)
  <1>1. reply \in Seq(CallId)
    BY ConversationAssumption
  <1>2. after \in History /\ after.started = hist.started
    BY <1>1, AfterAssistantType DEF AfterAssistant, StoreOK, History
  <1>3. ok \in BOOLEAN
    BY DEF AcceptsAssistant
  <1>4. \E why : Wrote(ok, after) \/ WriteFailed(ok, why)
    BY DEF Reply
  <1>5. StoreOK'
    <2> HIDE DEF ok, after
    <2> QED
      BY <1>2, <1>3, <1>4, AppendType DEF StoreOK
  <1>6. /\ steps' = steps
        /\ \/ calls' = reply /\ ti' = 1 /\ ran' = {}
           \/ UNCHANGED <<calls, ti, ran>>
    BY DEF Reply
  <1>7. ProgressOK' /\ ran' \subseteq CallId
    BY <1>1, <1>6 DEF ProgressOK
  <1>8. FinishTurn("ok") \/ Goto("next") \/ CloseOut("failed", FALSE)
    BY DEF Reply
  <1>9. PlaceOK' /\ IndexInRange'
    BY <1>5, <1>8, FinishTurnType, GotoType, CloseOutType
       DEF StoreOK, Steps, Serving
  <1>10. FlagsOK'
    BY Zenon DEF FlagsOK, Reply, Wrote, WriteFailed, FinishTurn, Goto,
                 CloseOut, closing
  <1> QED
    BY <1>5, <1>7, <1>9, <1>10

LEMMA ReplyFailsType ==
    ASSUME Typed, ReplyFails
    PROVE  Typed'
  <1> USE DEF Typed, TypeOK
  <1>1. StoreOK'
    BY KeepPartialType DEF ReplyFails
  <1>2. UNCHANGED <<steps, calls, ti, ran>> /\ CloseOut("failed", FALSE)
    BY DEF ReplyFails, progress
  <1>3. ProgressOK' /\ ran' \subseteq CallId
    BY <1>2 DEF ProgressOK
  <1>4. PlaceOK' /\ IndexInRange'
    BY <1>2, CloseOutType
  <1>5. FlagsOK'
    BY Zenon DEF FlagsOK, ReplyFails, KeepPartial, Wrote, WriteFailed,
                 CloseOut, progress
  <1> QED
    BY <1>1, <1>3, <1>4, <1>5

LEMMA TurnAwayType ==
    ASSUME Typed, TurnAway
    PROVE  Typed'
  <1> USE DEF Typed, TypeOK
  <1>1. /\ UNCHANGED <<hist, turnId, steps, calls, ti, ran, ending, outcome>>
        /\ pc' = IF CallsLeft THEN "skip" ELSE "bookend"
    BY DEF TurnAway, store, progress
  <1>2. StoreOK' /\ ProgressOK' /\ ran' \subseteq CallId
    BY <1>1 DEF StoreOK, ProgressOK
  <1>3. PlaceOK' /\ IndexInRange'
    BY <1>1 DEF PlaceOK, IndexInRange, Steps, Serving, CallsLeft
  <1>4. FlagsOK'
    BY Zenon DEF FlagsOK, TurnAway, store, progress
  <1> QED
    BY <1>2, <1>3, <1>4

LEMMA NextRoundType ==
    ASSUME Typed, NextRound
    PROVE  Typed'
  <1> USE DEF Typed, TypeOK
  <1>1. /\ UNCHANGED <<hist, calls, ti, ran>>
        /\ steps' = steps \/ (RoundsLeft /\ steps' = steps + 1)
        /\ Goto("model") \/ CloseOut("failed", FALSE)
    BY DEF NextRound
  <1>2. StoreOK' /\ ProgressOK' /\ ran' \subseteq CallId
    BY <1>1, ConversationAssumption DEF StoreOK, ProgressOK, RoundsLeft
  <1>3. PlaceOK' /\ IndexInRange'
    BY <1>1, GotoType, CloseOutType DEF Waiting, Serving
  <1>4. FlagsOK'
    BY Zenon DEF FlagsOK, NextRound, Goto, CloseOut, closing
  <1> QED
    BY <1>2, <1>3, <1>4

LEMMA StageToolType ==
    ASSUME Typed, StageTool
    PROVE  Typed'
  <1> USE DEF Typed, TypeOK
  <1>1. /\ UNCHANGED <<hist, steps, calls, ti, ran>>
        /\ ti <= Len(calls)
        /\ \/ Goto("launch") \/ Goto("refuse") \/ Goto("ask")
           \/ CloseOut("failed", FALSE)
    BY DEF StageTool, CallsLeft, progress
  <1>2. StoreOK' /\ ProgressOK' /\ ran' \subseteq CallId
    BY <1>1 DEF StoreOK, ProgressOK
  <1>3. PlaceOK' /\ IndexInRange'
    BY <1>1, GotoType, CloseOutType DEF Waiting, Steps
  <1>4. FlagsOK'
    BY Zenon DEF FlagsOK, StageTool, Goto, CloseOut, closing, progress
  <1> QED
    BY <1>2, <1>3, <1>4

LEMMA LaunchToolType ==
    ASSUME Typed, LaunchTool
    PROVE  Typed'
  <1> USE DEF Typed, TypeOK
  <1> DEFINE ok == AcceptsStarted(hist, turnId, calls[ti])
             after == AfterStarted(hist, calls[ti])
  <1>1. ti <= Len(calls) /\ calls[ti] \in CallId
    BY CallInRange DEF LaunchTool, IndexInRange, Serving
  <1>2. after \in History /\ after.started = hist.started
    BY <1>1, AfterStartedType DEF AfterStarted, StoreOK, History
  <1>3. ok \in BOOLEAN
    BY DEF AcceptsStarted
  <1>4. Wrote(ok, after) \/ WriteFailed(ok, {})
    BY DEF LaunchTool
  <1>5. StoreOK'
    <2> HIDE DEF ok, after
    <2> QED
      BY <1>2, <1>3, <1>4, AppendType DEF StoreOK
  <1>6. /\ UNCHANGED <<steps, calls, ti>>
        /\ ran' = ran \/ ran' = ran \cup {calls[ti]}
        /\ Goto("tool") \/ CloseOut("failed", TRUE) \/ CloseOut("failed", FALSE)
    BY DEF LaunchTool, progress
  <1>7. ProgressOK' /\ ran' \subseteq CallId
    BY <1>1, <1>6 DEF ProgressOK
  <1>8. PlaceOK' /\ IndexInRange'
    BY <1>1, <1>6, GotoType, CloseOutType DEF Waiting
  <1>9. FlagsOK'
    BY Zenon DEF FlagsOK, LaunchTool, Wrote, WriteFailed, Goto, CloseOut,
                 closing, progress
  <1> QED
    BY <1>5, <1>7, <1>8, <1>9

LEMMA RefuseToolType ==
    ASSUME Typed, RefuseTool
    PROVE  Typed'
  <1> USE DEF Typed, TypeOK
  <1>1. ti <= Len(calls)
    BY DEF RefuseTool, IndexInRange, Serving
  <1>2. /\ UNCHANGED <<steps, calls, ran>> /\ ti' = ti + 1
        /\ \/ Answered("not_executed", FALSE)
           \/ NotAnswered("not_executed", FALSE)
        /\ CloseOut("failed", FALSE)
    BY DEF RefuseTool
  <1>3. StoreOK'
    BY <1>1, <1>2, AnswerType DEF Outcome
  <1>4. ProgressOK' /\ ran' \subseteq CallId
    BY <1>1, <1>2 DEF ProgressOK
  <1>5. PlaceOK' /\ IndexInRange'
    BY <1>2, CloseOutType
  <1>6. FlagsOK'
    BY Zenon DEF FlagsOK, RefuseTool, Answered, NotAnswered, Wrote,
                 WriteFailed, CloseOut
  <1> QED
    BY <1>3, <1>4, <1>5, <1>6

LEMMA ToolDoneType ==
    ASSUME Typed, ToolDone
    PROVE  Typed'
  <1> USE DEF Typed, TypeOK
  <1>1. ti <= Len(calls)
    BY DEF ToolDone, IndexInRange, Serving
  <1>2. /\ UNCHANGED <<steps, calls, ran>>
        /\ ti' = ti + 1 \/ ti' = ti
        /\ Answered("completed", TRUE) \/ NotAnswered("completed", TRUE)
        /\ Goto("next") \/ CloseOut("failed", TRUE)
    BY DEF ToolDone
  <1>3. StoreOK'
    BY <1>1, <1>2, AnswerType DEF Outcome
  <1>4. ProgressOK' /\ ran' \subseteq CallId
    BY <1>1, <1>2 DEF ProgressOK
  <1>5. PlaceOK' /\ IndexInRange'
    BY <1>2, GotoType, CloseOutType DEF Steps, Serving
  <1>6. FlagsOK'
    BY Zenon DEF FlagsOK, ToolDone, Answered, NotAnswered, Wrote,
                 WriteFailed, Goto, CloseOut, closing
  <1> QED
    BY <1>3, <1>4, <1>5, <1>6

LEMMA FillInType ==
    ASSUME Typed, pc \in {"repair", "skip"}, NEW then \in {"marker", "bookend"},
           FillIn(then)
    PROVE  Typed'
  <1> USE DEF Typed, TypeOK
  <1> DEFINE result == IF mayStart THEN "unknown" ELSE "not_executed"
  <1>1. ti <= Len(calls) /\ result \in Outcome /\ mayStart \in BOOLEAN
    BY DEF IndexInRange, Serving, Outcome, FlagsOK
  <1>2. /\ UNCHANGED <<steps, calls, ran>> /\ ti' = ti + 1
        /\ Answered(result, mayStart) \/ NotAnswered(result, mayStart)
        /\ AfterFillIn(rFail, then) \/ AfterFillIn(TRUE, then)
    BY DEF FillIn
  <1>3. StoreOK'
    <2> HIDE DEF result
    <2> QED
      BY <1>1, <1>2, AnswerType
  <1>4. ProgressOK' /\ ran' \subseteq CallId
    BY <1>1, <1>2 DEF ProgressOK
  <1>5. \/ /\ ti < Len(calls) /\ UNCHANGED <<pc, ending, outcome, turnId>>
        \/ FinishTurn("failed") \/ Goto(then)
    BY <1>2 DEF AfterFillIn
  <1>6. PlaceOK' /\ IndexInRange'
    <2>1. CASE ti < Len(calls) /\ UNCHANGED <<pc, ending, outcome, turnId>>
      BY <1>2, <2>1 DEF PlaceOK, ProgressOK, IndexInRange
    <2>2. CASE FinishTurn("failed")
      BY <1>3, <2>2, FinishTurnType DEF StoreOK
    <2>3. CASE Goto(then)
      BY <2>3, GotoType DEF Steps, Serving
    <2> QED
      BY <1>5, <2>1, <2>2, <2>3
  <1>7. FlagsOK'
    BY Zenon DEF FlagsOK, FillIn, AfterFillIn, Answered, NotAnswered, Wrote,
                 WriteFailed, FinishTurn, Goto, closing
  <1> QED
    BY <1>3, <1>4, <1>6, <1>7

LEMMA CloseType ==
    ASSUME Typed, NEW how \in {"ok", "failed", "cancelled"}, Close(how)
    PROVE  Typed'
  <1> USE DEF Typed, TypeOK
  <1> DEFINE ok == AcceptsAssistant(hist, turnId, "repair", <<>>)
             after == AfterAssistant(hist, <<>>)
  <1>1. after \in History /\ after.started = hist.started
    <2>1. <<>> \in Seq(CallId)
      OBVIOUS
    <2> QED
      BY <2>1, AfterAssistantType DEF AfterAssistant, StoreOK, History
  <1>2. ok \in BOOLEAN
    BY DEF AcceptsAssistant
  <1>3. Wrote(ok, after) \/ WriteFailed(ok, {})
    BY DEF Close
  <1>4. StoreOK'
    <2> HIDE DEF ok, after
    <2> QED
      BY <1>1, <1>2, <1>3, AppendType DEF StoreOK
  <1>5. /\ UNCHANGED <<steps, calls, ti, ran>>
        /\ FinishTurn(how) \/ FinishTurn("failed")
    BY DEF Close, progress
  <1>6. ProgressOK' /\ ran' \subseteq CallId
    BY <1>5 DEF ProgressOK
  <1>7. PlaceOK' /\ IndexInRange'
    BY <1>4, <1>5, FinishTurnType DEF StoreOK
  <1>8. FlagsOK'
    BY Zenon DEF FlagsOK, Close, Wrote, WriteFailed, FinishTurn, progress
  <1> QED
    BY <1>4, <1>6, <1>7, <1>8

LEMMA CancelType ==
    ASSUME Typed, Cancel
    PROVE  Typed'
  <1> USE DEF Typed, TypeOK
  <1>1. KeepPartial \/ hist' = hist
    BY DEF Cancel
  <1>2. StoreOK'
    BY <1>1, KeepPartialType DEF StoreOK
  <1>3. /\ UNCHANGED <<steps, calls, ti, ran>>
        /\ CloseOut("cancelled", pc = "tool")
    BY DEF Cancel, progress
  <1>4. ProgressOK' /\ ran' \subseteq CallId
    BY <1>3 DEF ProgressOK
  <1>5. PlaceOK' /\ IndexInRange'
    BY <1>3, CloseOutType
  <1>6. FlagsOK'
    BY Zenon DEF FlagsOK, Cancel, KeepPartial, Wrote, WriteFailed, CloseOut,
                 progress
  <1> QED
    BY <1>2, <1>4, <1>5, <1>6

LEMMA SteerType ==
    ASSUME Typed, Steer
    PROVE  Typed'
  <1>1. UNCHANGED <<hist, turnId, pc, ending, outcome, steps, calls, ti, ran>>
    BY DEF Steer, store, closing
  <1>2. FlagsOK'
    BY Zenon DEF Typed, TypeOK, FlagsOK, Steer, store, closing
  <1> QED
    BY <1>1, <1>2 DEF Typed, TypeOK, StoreOK, ProgressOK, PlaceOK, IndexInRange

LEMMA AnswerPermissionType ==
    ASSUME Typed, NEW allow \in BOOLEAN, Answer(allow)
    PROVE  Typed'
  <1> USE DEF Typed, TypeOK
  <1>1. /\ UNCHANGED <<hist, steps, calls, ti, ran>>
        /\ pc = "ask"
        /\ Goto("launch") \/ Goto("refuse")
    BY DEF Answer, progress
  <1>2. StoreOK' /\ ProgressOK' /\ ran' \subseteq CallId
    BY <1>1 DEF StoreOK, ProgressOK
  <1>3. PlaceOK' /\ IndexInRange'
    BY <1>1, GotoType DEF Steps, IndexInRange, Serving
  <1>4. FlagsOK'
    BY Zenon DEF FlagsOK, Answer, Goto, closing, progress
  <1> QED
    BY <1>2, <1>3, <1>4

-----------------------------------------------------------------------------
LEMMA TypedUnchanged ==
    ASSUME Typed, UNCHANGED vars
    PROVE  Typed'
  <1>1. /\ UNCHANGED <<hist, turnId, lastError, rejected, pc, ran>>
        /\ UNCHANGED <<steering, steps, calls, ti, committed, text>>
        /\ UNCHANGED <<mayStart, rFail, ending, outcome>>
    BY DEF vars, store, progress, closing
  <1>2. StoreOK' /\ ProgressOK' /\ (ran \subseteq CallId)'
    BY Zenon, <1>1 DEF Typed, TypeOK, StoreOK, ProgressOK
  <1>3. PlaceOK'
    BY Zenon, <1>1 DEF Typed, TypeOK, PlaceOK
  <1>4. FlagsOK'
    BY Zenon, <1>1 DEF Typed, TypeOK, FlagsOK
  <1>5. IndexInRange'
    BY Zenon, <1>1 DEF Typed, IndexInRange
  <1> QED
    BY <1>2, <1>3, <1>4, <1>5 DEF Typed, TypeOK

LEMMA TypedStep ==
    ASSUME Typed, [Next]_vars
    PROVE  Typed'
  <1>1. CASE RunOn
    <2>1. CASE RepairCall \/ SkipCall
      BY <2>1, FillInType DEF RepairCall, SkipCall
    <2>2. CASE RepairMarker \/ SteeredBookend
      BY <2>2, CloseType DEF RepairMarker, SteeredBookend, Typed, TypeOK, PlaceOK
    <2> QED
      BY <1>1, <2>1, <2>2, TurnAwayType, NextRoundType, StageToolType,
         LaunchToolType, RefuseToolType DEF RunOn
  <1>2. CASE World
    BY <1>2, StreamType, BreaksType, ReplyFailsType, ReplyType, ToolDoneType
       DEF World, ModelAnswers
  <1>3. CASE Embedder
    BY <1>3, StartType, CancelType, SteerType, AnswerPermissionType DEF Embedder
  <1>4. CASE AtBound \/ UNCHANGED vars
    BY <1>4, TypedUnchanged DEF AtBound
  <1> QED
    BY <1>1, <1>2, <1>3, <1>4 DEF Next

(* Every state of every behaviour of the conversation has its type: in     *)
(* particular tool_index stays within the calls of the reply, the model is *)
(* asked at most max_model_steps times a turn, and the log stays a state   *)
(* the replay can reach.                                                   *)
THEOREM TypeCorrect == Spec => []TypeOK
  <1>1. Spec => []Typed
    BY TypedInit, TypedStep, PTL DEF Spec
  <1>2. Typed => TypeOK
    BY DEF Typed
  <1> QED
    BY <1>1, <1>2, PTL

-----------------------------------------------------------------------------
(* What one step does to the log and to the live context: nothing, or the  *)
(* same message is added to both; and a tool message is one the log        *)
(* accepts.                                                                *)
SameContexts == hist'.ctx = hist.ctx /\ live' = live

MessageAdded ==
    \E m \in Message : /\ m.role # "tool"
                      /\ hist'.ctx = Append(hist.ctx, m)
                      /\ live' = Append(live, m)

ResultAdded ==
    \E id \in CallId, o \in Outcome, raw \in BOOLEAN :
        /\ AcceptsTool(hist, turnId, id, o, "normal", raw)
        /\ hist'.ctx = Append(hist.ctx, ToolMsg(id, o))
        /\ live' = Append(live, ToolMsg(id, o))

LEMMA AnswerAdds ==
    ASSUME Typed, ti <= Len(calls), NEW result \in Outcome, NEW raw \in BOOLEAN,
           Answered(result, raw) \/ NotAnswered(result, raw)
    PROVE  SameContexts \/ ResultAdded
  <1>1. calls[ti] \in CallId
    BY CallInRange DEF Typed, TypeOK
  <1>2. CASE Answered(result, raw)
    BY <1>1, <1>2, AfterToolEffect
       DEF Answered, Wrote, ResultAdded, Typed, TypeOK, StoreOK
  <1>3. CASE NotAnswered(result, raw)
    BY <1>3 DEF NotAnswered, WriteFailed, SameContexts
  <1> QED
    BY <1>2, <1>3

LEMMA KeepPartialAdds ==
    ASSUME Typed, KeepPartial \/ hist' = hist, live' = live
    PROVE  SameContexts
  BY AfterPartialEffect
     DEF KeepPartial, Wrote, WriteFailed, SameContexts, Typed, TypeOK, StoreOK

LEMMA StartAdds ==
    ASSUME Typed, NEW t \in Text, Start(t)
    PROVE  SameContexts \/ MessageAdded
  <1>1. UserMsg(t) \in Message /\ UserMsg(t).role # "tool"
    BY MessageTypes DEF UserMsg
  <1>2. \/ hist' = hist /\ live' = live
        \/ hist' = AfterUser(hist, turnId, t) /\ live' = Append(live, UserMsg(t))
    BY DEF Start, Wrote, WriteFailed
  <1>3. AfterUser(hist, turnId, t).ctx = Append(hist.ctx, UserMsg(t))
    BY AfterUserEffect DEF Typed, TypeOK, StoreOK
  <1> QED
    BY <1>1, <1>2, <1>3 DEF SameContexts, MessageAdded

LEMMA AssistantAdds ==
    ASSUME Typed, \/ \E reply \in Replies : Reply(reply)
                  \/ \E how : Close(how)
    PROVE  SameContexts \/ MessageAdded
  <1>1. PICK cs \in Seq(CallId) :
           \/ hist' = hist /\ live' = live
           \/ /\ hist' = AfterAssistant(hist, cs)
              /\ live' = Append(live, AssistantMsg(cs))
    <2>1. <<>> \in Seq(CallId) /\ Replies \subseteq Seq(CallId)
      BY ConversationAssumption
    <2> QED
      BY <2>1 DEF Reply, Close, Wrote, WriteFailed
  <1>2. AssistantMsg(cs) \in Message /\ AssistantMsg(cs).role # "tool"
    BY MessageTypes DEF AssistantMsg
  <1>3. AfterAssistant(hist, cs).ctx = Append(hist.ctx, AssistantMsg(cs))
    BY AfterAssistantEffect DEF Typed, TypeOK, StoreOK
  <1> QED
    BY <1>1, <1>2, <1>3 DEF SameContexts, MessageAdded

LEMMA ContextStep ==
    ASSUME Typed, [Next]_vars
    PROVE  SameContexts \/ MessageAdded \/ ResultAdded
  <1>1. CASE \/ TurnAway \/ NextRound \/ StageTool \/ Stream \/ StreamBreaks
             \/ ToolBreaks \/ Steer \/ AtBound \/ UNCHANGED vars
             \/ \E allow \in BOOLEAN : Answer(allow)
    BY <1>1 DEF TurnAway, NextRound, StageTool, Stream, StreamBreaks, ToolBreaks,
                Steer, AtBound, Answer, vars, store, SameContexts
  <1>2. CASE LaunchTool
    <2>1. live' = live /\ (hist' = hist \/ hist' = AfterStarted(hist, calls[ti]))
      BY <1>2 DEF LaunchTool, Wrote, WriteFailed
    <2> QED
      BY <2>1, AfterStartedEffect DEF SameContexts, Typed, TypeOK, StoreOK
  <1>3. CASE ReplyFails \/ Cancel
    BY <1>3, KeepPartialAdds DEF ReplyFails, Cancel
  <1>4. CASE RefuseTool \/ ToolDone \/ RepairCall \/ SkipCall
    <2>1. ti <= Len(calls) /\ mayStart \in BOOLEAN
      BY <1>4 DEF RefuseTool, ToolDone, RepairCall, SkipCall, Typed, IndexInRange,
                  Serving, TypeOK, FlagsOK
    <2>2. PICK result \in Outcome, raw \in BOOLEAN :
             Answered(result, raw) \/ NotAnswered(result, raw)
      BY <1>4, <2>1 DEF RefuseTool, ToolDone, RepairCall, SkipCall, FillIn, Outcome
    <2> QED
      BY <2>1, <2>2, AnswerAdds
  <1>5. CASE \/ RepairMarker \/ SteeredBookend
             \/ \E reply \in Replies : Reply(reply)
    BY <1>5, AssistantAdds DEF RepairMarker, SteeredBookend
  <1>6. CASE \E t \in Text : Start(t)
    BY <1>6, StartAdds
  <1> QED
    BY <1>1, <1>2, <1>3, <1>4, <1>5, <1>6
       DEF Next, RunOn, World, ModelAnswers, Embedder

(* The context sent to the model is, after every step and every failed     *)
(* append, the one a restart would restore from the log.                   *)
THEOREM LiveIsDurable == Spec => []LiveMatchesHistory
  <1>1. Init => LiveMatchesHistory
    BY DEF Init, Created, LiveMatchesHistory
  <1>2. Typed /\ LiveMatchesHistory /\ [Next]_vars => LiveMatchesHistory'
    BY ContextStep DEF LiveMatchesHistory, SameContexts, MessageAdded,
                       ResultAdded
  <1>3. Spec => []Typed
    BY TypedInit, TypedStep, PTL DEF Spec
  <1> QED
    BY <1>1, <1>2, <1>3, PTL DEF Spec

-----------------------------------------------------------------------------
(* The log knows of every process of the round before it is spawned.       *)

(* Nothing is spawned, and the log does not forget a start.                *)
NothingSpawned ==
    /\ ran' \subseteq ran
    /\ hist'.phase = "tools" => hist.phase = "tools" /\ hist.began \subseteq hist'.began

LEMMA AnswerSpawnsNothing ==
    ASSUME Typed, NEW result, NEW raw, ran' = ran,
           Answered(result, raw) \/ NotAnswered(result, raw)
    PROVE  NothingSpawned
  <1>1. CASE NotAnswered(result, raw)
    BY <1>1 DEF NotAnswered, WriteFailed, NothingSpawned
  <1>2. CASE Answered(result, raw)
    <2>1. hist.phase = "tools" /\ hist' = AfterTool(hist, calls[ti], result)
      BY <1>2 DEF Answered, Wrote, AcceptsTool
    <2> QED
      BY <2>1, AfterToolRound DEF NothingSpawned, Typed, TypeOK, StoreOK
  <1> QED
    BY <1>1, <1>2

LEMMA WriteAheadStep ==
    ASSUME Typed, WriteAhead, [Next]_vars
    PROVE  WriteAhead'
  <1>1. CASE NothingSpawned
    BY <1>1 DEF NothingSpawned, WriteAhead
  <1>2. CASE \/ TurnAway \/ NextRound \/ StageTool \/ Stream \/ StreamBreaks
             \/ ToolBreaks \/ Steer \/ AtBound \/ UNCHANGED vars
             \/ \E allow \in BOOLEAN : Answer(allow)
    <2>1. UNCHANGED <<hist, ran>>
      BY <1>2 DEF TurnAway, NextRound, StageTool, Stream, StreamBreaks, ToolBreaks,
                  Steer, AtBound, Answer, vars, store
    <2> QED
      BY <2>1 DEF WriteAhead
  <1>3. CASE ReplyFails \/ Cancel
    <2>1. ran' = ran /\ (hist' = hist \/ hist' = AfterPartial(hist))
      BY <1>3 DEF ReplyFails, Cancel, KeepPartial, Wrote, WriteFailed
    <2> QED
      BY <2>1, <1>1, AfterPartialEffect
         DEF NothingSpawned, Typed, TypeOK, StoreOK
  <1>4. CASE RefuseTool \/ ToolDone \/ RepairCall \/ SkipCall
    <2>1. ran' = ran
      BY <1>4 DEF RefuseTool, ToolDone, RepairCall, SkipCall, FillIn
    <2>2. \E result, raw : Answered(result, raw) \/ NotAnswered(result, raw)
      BY <1>4 DEF RefuseTool, ToolDone, RepairCall, SkipCall, FillIn
    <2> QED
      BY <2>1, <2>2, <1>1, AnswerSpawnsNothing
  <1>5. CASE RepairMarker \/ SteeredBookend
    <2>1. ran' = ran /\ (hist' = hist \/ hist' = AfterAssistant(hist, <<>>))
      BY <1>5 DEF RepairMarker, SteeredBookend, Close, Wrote, WriteFailed
    <2> QED
      BY <2>1, <1>1, AfterAssistantEffect
         DEF NothingSpawned, Typed, TypeOK, StoreOK
  <1>6. CASE \E t \in Text : Start(t)
    <2>1. PICK t \in Text : Start(t)
      BY <1>6
    <2>2. ran' = ran /\ (hist' = hist \/ hist' = AfterUser(hist, turnId, t))
      BY <2>1 DEF Start, Wrote, WriteFailed
    <2> QED
      BY <2>2, <1>1, AfterUserEffect DEF NothingSpawned, Typed, TypeOK, StoreOK
  <1>7. CASE \E reply \in Replies : Reply(reply)
    <2>1. PICK reply \in Replies : Reply(reply)
      BY <1>7
    <2>2. \/ hist' = hist /\ ran' = ran
          \/ ran' = {}
      BY <2>1 DEF Reply, Wrote, WriteFailed
    <2> QED
      BY <2>2 DEF WriteAhead
  <1>8. CASE LaunchTool
    <2>1. \/ hist' = hist /\ ran' = ran
          \/ /\ hist' = AfterStarted(hist, calls[ti])
             /\ hist.phase = "tools"
             /\ ran' \subseteq ran \cup {calls[ti]}
      BY <1>8 DEF LaunchTool, Wrote, WriteFailed, AcceptsStarted
    <2> QED
      BY <2>1, AfterStartedEffect DEF WriteAhead, Typed, TypeOK, StoreOK
  <1> QED
    BY <1>2, <1>3, <1>4, <1>5, <1>6, <1>7, <1>8
       DEF Next, RunOn, World, ModelAnswers, Embedder

(* A process is spawned only after its TOOL_STARTED record is in the log,  *)
(* whatever fails and whenever the turn is cancelled.                      *)
THEOREM StartsAreLogged == Spec => []WriteAhead
  <1>1. Init => WriteAhead
    BY DEF Init, Created, WriteAhead
  <1>2. Spec => []Typed
    BY TypedInit, TypedStep, PTL DEF Spec
  <1> QED
    BY <1>1, <1>2, WriteAheadStep, PTL DEF Spec

(* No step adds a NOT_EXECUTED result for a call whose process was spawned:*)
(* the log refuses it, as it knows of the start.                           *)
LEMMA DeniedWorkDidNotRun ==
    ASSUME Typed, WriteAhead, [Next]_vars, NEW id \in ran
    PROVE  hist'.ctx # Append(hist.ctx, ToolMsg(id, "not_executed"))
  <1> DEFINE msg == ToolMsg(id, "not_executed")
  <1> SUFFICES ASSUME hist'.ctx = Append(hist.ctx, msg)
               PROVE  FALSE
    OBVIOUS
  <1>1. hist.ctx \in Seq(Message) /\ id \in CallId
    BY DEF Typed, TypeOK, StoreOK, History
  <1>2. msg \in Message /\ msg.role = "tool"
    BY <1>1, MessageTypes DEF ToolMsg, Outcome
  <1>3. \A m \in Message : Append(hist.ctx, m) = Append(hist.ctx, msg) => m = msg
    <2> TAKE m \in Message
    <2>1. Append(hist.ctx, m)[Len(hist.ctx) + 1] = m
      BY <1>1
    <2>2. Append(hist.ctx, msg)[Len(hist.ctx) + 1] = msg
      BY <1>1, <1>2
    <2> QED
      BY <2>1, <2>2
  <1>4. CASE SameContexts
    <2>1. Len(Append(hist.ctx, msg)) = Len(hist.ctx) + 1 /\ Len(hist.ctx) \in Nat
      BY <1>1, <1>2
    <2> QED
      BY <1>4, <2>1 DEF SameContexts
  <1>5. CASE MessageAdded
    BY <1>2, <1>3, <1>5 DEF MessageAdded
  <1>6. CASE ResultAdded
    <2>1. PICK other \in CallId, o \in Outcome, raw \in BOOLEAN :
             /\ AcceptsTool(hist, turnId, other, o, "normal", raw)
             /\ hist'.ctx = Append(hist.ctx, ToolMsg(other, o))
      BY <1>6 DEF ResultAdded
    <2>2. ToolMsg(other, o) = msg
      BY <1>3, <2>1, MessageTypes
    <2>3. other = id /\ o = "not_executed"
      BY <2>2 DEF ToolMsg
    <2>4. hist.phase = "tools" /\ id \notin hist.began
      BY <2>1, <2>3 DEF AcceptsTool
    <2> QED
      BY <2>4 DEF WriteAhead
  <1> QED
    BY <1>4, <1>5, <1>6, ContextStep

(* No call whose process was spawned is ever recorded as not executed.     *)
THEOREM WorkIsNotDenied == Spec => WorkIsNeverDenied
  <1>1. Typed /\ WriteAhead /\ [Next]_vars =>
          [\A id \in ran :
              hist'.ctx # Append(hist.ctx, ToolMsg(id, "not_executed"))]_vars
    BY DeniedWorkDidNotRun
  <1>2. Spec => []Typed
    BY TypedInit, TypedStep, PTL DEF Spec
  <1> QED
    BY <1>1, <1>2, StartsAreLogged, PTL DEF Spec, WorkIsNeverDenied

-----------------------------------------------------------------------------
(* Why the log accepts what the conversation appends.  As long as nothing  *)
(* from `hazard` has happened, the phase of the log is the place the       *)
(* conversation is at, and in the middle of a round both agree on which    *)
(* calls have results and which may have started.                          *)
Before(k) == {calls[j] : j \in 1..(k - 1)}

(* The call at tool_index has a TOOL_STARTED record.                       *)
MayHaveStarted == pc = "tool" \/ (pc = "repair" /\ mayStart)

InRound ==
    /\ hist.phase = "tools" /\ ~hist.partial
    /\ hist.calls = calls /\ DistinctCalls(calls)
    /\ hist.resolved = Before(ti)
    /\ hist.began \subseteq Before(ti + 1)
    /\ calls[ti] \in hist.began <=> MayHaveStarted

RoundOver == hist.phase = "assistant" /\ ~hist.partial

AtCall == pc \in Serving \/ (pc = "next" /\ ti <= Len(calls))

Coupled ==
    /\ ~rejected /\ ~hist.consumed
    /\ pc = "idle" => hist.phase = "user" /\ turnId = NextTurn(hist)
    /\ pc # "idle" => turnId = hist.started
    /\ pc = "model" => RoundOver /\ ~committed
    /\ pc = "next" => committed
    /\ pc = "next" /\ ti > Len(calls) => RoundOver
    /\ AtCall => InRound /\ committed
    /\ pc \in {"marker", "bookend"} => hist.phase = "assistant"
    /\ pc \in {"repair", "skip"} => ~rFail
    /\ pc = "skip" => ~mayStart

InStep == hazard = {} => Coupled

(* Distinct calls: the one at tool_index is not among those before it.     *)
LEMMA NotBefore ==
    ASSUME ProgressOK, DistinctCalls(calls), NEW k \in 1..Len(calls)
    PROVE  calls[k] \notin Before(k)
  BY DEF ProgressOK, DistinctCalls, Before

LEMMA BeforeNext ==
    ASSUME ProgressOK, NEW k \in 1..Len(calls)
    PROVE  Before(k + 1) = Before(k) \cup {calls[k]}
  BY DEF ProgressOK, Before

LEMMA BeforeEnd ==
    ASSUME ProgressOK
    PROVE  Before(Len(calls) + 1) = ToSet(calls)
  BY DEF ProgressOK, Before, ToSet

(* The log accepts the result of the call at tool_index.                   *)
LEMMA AnswerAccepted ==
    ASSUME Typed, InRound, ti <= Len(calls), ~hist.consumed,
           turnId = hist.started,
           NEW o, NEW raw, ValidToolRecord(o, "normal", raw),
           o = "not_executed" <=> ~MayHaveStarted
    PROVE  AcceptsTool(hist, turnId, calls[ti], o, "normal", raw)
  <1>1. ti \in 1..Len(calls)
    BY DEF Typed, TypeOK, ProgressOK
  <1>2. calls[ti] \in ToSet(calls)
    BY <1>1 DEF ToSet, Typed, TypeOK, ProgressOK
  <1>3. calls[ti] \notin Before(ti)
    BY <1>1, NotBefore DEF InRound, Typed, TypeOK
  <1> QED
    BY <1>2, <1>3 DEF AcceptsTool, InRound

(* And then the round has come one call further, or is over.               *)
LEMMA RoundAdvances ==
    ASSUME Typed, InRound, ti <= Len(calls), NEW o,
           hist' = AfterTool(hist, calls[ti], o)
    PROVE  IF ti = Len(calls)
           THEN hist'.phase = "assistant" /\ ~hist'.partial
           ELSE /\ hist'.phase = "tools" /\ ~hist'.partial
                /\ hist'.calls = calls
                /\ hist'.resolved = Before(ti + 1)
                /\ hist'.began \subseteq Before(ti + 1)
                /\ calls[ti + 1] \notin hist'.began
  <1>1. ti \in 1..Len(calls) /\ ProgressOK /\ hist \in History
    BY DEF Typed, TypeOK, ProgressOK, StoreOK
  <1>2. hist.resolved \cup {calls[ti]} = Before(ti + 1)
    BY <1>1, BeforeNext DEF InRound
  <1>3. ~hist'.partial
    BY <1>1, AfterToolEffect DEF InRound
  <1>4. CASE ti = Len(calls)
    <2>1. ToSet(hist.calls) \subseteq hist.resolved \cup {calls[ti]}
      BY <1>1, <1>2, <1>4, BeforeEnd DEF InRound
    <2> QED
      BY <1>1, <1>3, <1>4, <2>1, AfterToolRound
  <1>5. CASE ti # Len(calls)
    <2>1. ti + 1 \in 1..Len(calls)
      BY <1>1, <1>5 DEF ProgressOK
    <2>2. calls[ti + 1] \in ToSet(calls) /\ calls[ti + 1] \notin Before(ti + 1)
      BY <1>1, <2>1, NotBefore DEF InRound, ToSet, ProgressOK
    <2>3. ~(ToSet(hist.calls) \subseteq hist.resolved \cup {calls[ti]})
      BY <1>2, <2>2 DEF InRound
    <2>4. /\ hist'.phase = "tools"
          /\ hist'.calls = hist.calls /\ hist'.began = hist.began
          /\ hist'.resolved = hist.resolved \cup {calls[ti]}
      BY <1>1, <2>3, AfterToolRound
    <2> QED
      BY <1>2, <1>3, <1>5, <2>2, <2>4 DEF InRound
  <1> QED
    BY <1>4, <1>5

(* No step takes a mishap back.                                            *)
LEMMA HazardGrows ==
    ASSUME [Next]_vars
    PROVE  hazard \subseteq hazard'
  <1>1. CASE RunOn
    BY <1>1 DEF RunOn, TurnAway, NextRound, StageTool, LaunchTool, RefuseTool,
                RepairCall, SkipCall, FillIn, RepairMarker, SteeredBookend, Close,
                Answered, NotAnswered, WriteFailed, store
  <1>2. CASE World
    BY <1>2 DEF World, Stream, StreamBreaks, ModelAnswers, Reply, ReplyFails,
                KeepPartial, ToolDone, ToolBreaks, Answered, NotAnswered,
                WriteFailed, store
  <1>3. CASE Embedder
    BY <1>3 DEF Embedder, Start, Cancel, KeepPartial, Steer, Answer, WriteFailed,
                store
  <1>4. CASE AtBound \/ UNCHANGED vars
    BY <1>4 DEF AtBound, vars, store
  <1> QED
    BY <1>1, <1>2, <1>3, <1>4 DEF Next

(* An append the log accepts fails only with a mishap.                     *)
LEMMA AcceptedIsWritten ==
    ASSUME NEW ok, NEW why, ok, hazard' = {}
    PROVE  ~WriteFailed(ok, why)
  BY DEF WriteFailed

(* The three ways out of a callback that keep the log and the conversation *)
(* together.                                                               *)
LEMMA FinishTurnCoupled ==
    ASSUME NEW how, FinishTurn(how),
           hist'.phase = "user", ~hist'.consumed, ~rejected'
    PROVE  Coupled'
  BY DEF FinishTurn, Coupled, AtCall, Serving, NextTurn

LEMMA CloseOutCoupledOver ==
    ASSUME NEW how, NEW may, CloseOut(how, may), ~rejected',
           ~(committed' /\ ti' <= Len(calls')),
           hist'.phase = "assistant", ~hist'.consumed, turnId = hist'.started
    PROVE  Coupled'
  BY DEF CloseOut, Coupled, AtCall, Serving

LEMMA CloseOutCoupledRound ==
    ASSUME NEW how, NEW may, CloseOut(how, may), ~rejected',
           committed', ti' <= Len(calls'),
           ~hist'.consumed, turnId = hist'.started,
           hist'.phase = "tools", ~hist'.partial,
           hist'.calls = calls', DistinctCalls(calls'),
           hist'.resolved = Before(ti)', hist'.began \subseteq Before(ti + 1)',
           calls'[ti'] \in hist'.began <=> may
    PROVE  Coupled'
  <1>1. pc' = "repair" /\ mayStart' = may /\ rFail' = FALSE /\ turnId' = turnId
    BY DEF CloseOut
  <1>2. InRound'
    BY <1>1 DEF InRound, MayHaveStarted
  <1> QED
    BY <1>1, <1>2 DEF Coupled, AtCall, Serving

(* A user message the log accepts is written, and the model is asked.      *)
LEMMA AcceptedStart ==
    ASSUME Typed, ~rejected, hazard' = {}, NEW t, Start(t),
           AcceptsUser(hist, turnId, t)
    PROVE  Coupled' /\ hist' = AfterUser(hist, turnId, t)
  <1> DEFINE ok == AcceptsUser(hist, turnId, t)
             after == AfterUser(hist, turnId, t)
  <1>1. Wrote(ok, after) /\ committed' = FALSE
        /\ pc' = "model" /\ turnId' = turnId
    BY AcceptedIsWritten DEF Start
  <1>2. /\ hist'.phase = "assistant" /\ hist'.started = turnId
        /\ ~hist'.consumed /\ ~hist'.partial /\ ~rejected'
    BY <1>1, AfterUserEffect DEF Wrote, Typed, TypeOK, StoreOK
  <1>3. Coupled'
    BY <1>1, <1>2 DEF Coupled, AtCall, Serving, RoundOver
  <1> QED
    BY <1>1, <1>3 DEF Wrote

LEMMA StartCoupled ==
    ASSUME Typed, Coupled, hazard' = {}, NEW t \in Text, Start(t)
    PROVE  Coupled' /\ hist' = AfterUser(hist, turnId, t)
  <1>1. AcceptsUser(hist, turnId, t) /\ ~rejected
    BY DEF Start, Coupled, AcceptsUser
  <1> QED
    BY <1>1, AcceptedStart

(* What a record leaves coupled that adds no message.                      *)
LEMMA CoupledSame ==
    ASSUME Coupled, SameRound(hist, hist'),
           hist'.began = hist.began, hist'.partial = hist.partial,
           hist'.started = hist.started, hist'.consumed = hist.consumed,
           UNCHANGED <<turnId, rejected, pc, mayStart, rFail, calls, ti, committed>>
    PROVE  Coupled'
  BY DEF Coupled, AtCall, RoundOver, InRound, MayHaveStarted, Before, SameRound,
         NextTurn

LEMMA StreamCoupled ==
    ASSUME Typed, Coupled, Stream \/ Steer
    PROVE  Coupled'
  <1>1. /\ UNCHANGED <<hist, turnId, rejected, pc, mayStart, rFail, calls, ti,
                       committed>>
    BY DEF Stream, Steer, store, closing
  <1> QED
    BY <1>1 DEF Coupled, AtCall, RoundOver, InRound, MayHaveStarted, Before

LEMMA StreamBreaksCoupled ==
    ASSUME Typed, Coupled, StreamBreaks
    PROVE  Coupled'
  <1>1. /\ UNCHANGED <<hist, rejected, committed>>
        /\ CloseOut("failed", FALSE)
        /\ ~committed /\ RoundOver /\ turnId = hist.started
    BY DEF StreamBreaks, Coupled, progress
  <1> QED
    BY <1>1, CloseOutCoupledOver DEF Coupled, RoundOver

(* The text of a reply is kept only while there is a reply.                *)
LEMMA KeepPartialCoupled ==
    ASSUME Typed, Coupled, hazard' = {}, pc = "model", KeepPartial
    PROVE  /\ hist'.phase = "assistant" /\ ~hist'.consumed
           /\ hist'.started = hist.started /\ ~rejected'
  <1>1. AcceptsPartial(hist, turnId)
    BY DEF Coupled, RoundOver, AcceptsPartial
  <1>2. rejected' = rejected /\ (hist' = hist \/ hist' = AfterPartial(hist))
    BY <1>1, AcceptedIsWritten DEF KeepPartial, Wrote
  <1> QED
    BY <1>2, AfterPartialEffect DEF Coupled, RoundOver, Typed, TypeOK, StoreOK

LEMMA ReplyFailsCoupled ==
    ASSUME Typed, Coupled, hazard' = {}, ReplyFails
    PROVE  Coupled'
  <1>1. /\ pc = "model" /\ KeepPartial
        /\ committed' = committed /\ CloseOut("failed", FALSE)
    BY DEF ReplyFails, progress
  <1>2. ~committed' /\ turnId = hist.started
    BY <1>1 DEF Coupled
  <1> QED
    BY <1>1, <1>2, KeepPartialCoupled, CloseOutCoupledOver

LEMMA ReplyCoupled ==
    ASSUME Typed, Coupled, hazard' = {}, NEW reply \in Replies, Reply(reply)
    PROVE  Coupled'
  <1> DEFINE ok == AcceptsAssistant(hist, turnId, "normal", reply)
             after == AfterAssistant(hist, reply)
  <1>1. DistinctCalls(reply)
    BY DEF Reply, WriteFailed, AcceptsAssistant, Wrote
  <1>2. ok
    BY <1>1 DEF Reply, Coupled, RoundOver, AcceptsAssistant
  <1>3. /\ Wrote(ok, after) /\ calls' = reply /\ ti' = 1 /\ committed' = TRUE
        /\ \/ reply = <<>> /\ FinishTurn("ok")
           \/ reply # <<>> /\ Goto("next")
           \/ reply # <<>> /\ CloseOut("failed", FALSE)
    BY <1>2, AcceptedIsWritten DEF Reply
  <1>4. /\ hist' = after /\ ~rejected' /\ reply \in Seq(CallId)
        /\ turnId = hist.started
    BY <1>3, ConversationAssumption DEF Wrote, Coupled, Reply
  <1>5. /\ hist'.phase = IF reply = <<>> THEN "user" ELSE "tools"
        /\ hist'.started = hist.started
        /\ hist'.calls = reply /\ hist'.began = {} /\ hist'.resolved = {}
        /\ ~hist'.consumed /\ ~hist'.partial
    BY <1>4, AfterAssistantEffect DEF Typed, TypeOK, StoreOK, Coupled
  <1>6. CASE reply = <<>>
    BY <1>3, <1>4, <1>5, <1>6, FinishTurnCoupled
  <1>7. CASE reply # <<>>
    <2>1. Len(reply) >= 1 /\ Before(ti)' = {}
      BY <1>3, <1>4, <1>7 DEF Before
    <2>2. CASE CloseOut("failed", FALSE)
      BY <1>1, <1>3, <1>4, <1>5, <1>7, <2>1, <2>2, CloseOutCoupledRound
    <2>3. CASE Goto("next")
      <3>1. pc' = "next" /\ turnId' = turnId
        BY <2>3 DEF Goto
      <3>2. InRound'
        BY <1>1, <1>3, <1>5, <1>7, <2>1, <3>1 DEF InRound, MayHaveStarted
      <3> QED
        BY <1>3, <1>4, <1>5, <2>1, <3>1, <3>2 DEF Coupled, AtCall, Serving
    <2> QED
      BY <1>3, <1>7, <2>2, <2>3
  <1> QED
    BY <1>6, <1>7

LEMMA TurnAwayCoupled ==
    ASSUME Typed, Coupled, TurnAway
    PROVE  Coupled'
  <1>1. /\ pc = "next"
        /\ UNCHANGED <<hist, turnId, rejected, calls, ti, committed>>
        /\ pc' = (IF ti <= Len(calls) THEN "skip" ELSE "bookend")
        /\ ~rFail' /\ ~mayStart'
    BY DEF TurnAway, store, progress, CallsLeft
  <1>2. ti \in Nat /\ Len(calls) \in Nat
    BY DEF Typed, TypeOK, ProgressOK
  <1>3. CASE ti <= Len(calls)
    <2>1. InRound' /\ committed'
      BY <1>1, <1>3 DEF Coupled, AtCall, InRound, MayHaveStarted, Before
    <2> QED
      BY <1>1, <1>3, <2>1 DEF Coupled
  <1>4. CASE ti > Len(calls)
    BY <1>1, <1>2, <1>4 DEF Coupled, AtCall, Serving, RoundOver
  <1> QED
    BY <1>2, <1>3, <1>4

LEMMA NextRoundCoupled ==
    ASSUME Typed, Coupled, NextRound
    PROVE  Coupled'
  <1>1. ti \in Nat /\ Len(calls) \in Nat
    BY DEF Typed, TypeOK, ProgressOK
  <1>2. /\ pc = "next" /\ ti > Len(calls) /\ ~committed'
        /\ UNCHANGED <<hist, rejected>>
        /\ Goto("model") \/ CloseOut("failed", FALSE)
    <2>1. pc = "next" /\ ~CallsLeft /\ UNCHANGED <<hist, rejected>>
      BY DEF NextRound
    <2>2. ~committed'
      BY DEF NextRound
    <2>3. Goto("model") \/ CloseOut("failed", FALSE)
      BY DEF NextRound
    <2>4. ti > Len(calls)
      BY <1>1, <2>1 DEF CallsLeft
    <2> QED
      BY <2>1, <2>2, <2>3, <2>4
  <1>3. RoundOver /\ turnId = hist.started /\ ~hist.consumed /\ ~rejected
    BY <1>2 DEF Coupled
  <1>4. CASE Goto("model")
    BY <1>2, <1>3, <1>4 DEF Goto, Coupled, AtCall, Serving, RoundOver
  <1>5. CASE CloseOut("failed", FALSE)
    BY <1>2, <1>3, <1>5, CloseOutCoupledOver DEF RoundOver
  <1> QED
    BY <1>2, <1>4, <1>5

(* Between two appends of a round, with the call at tool_index as it was.  *)
LEMMA MoveCoupled ==
    ASSUME Typed, Coupled, AtCall, ti <= Len(calls),
           UNCHANGED <<hist, rejected, calls, ti, committed>>,
           \/ \E label \in {"launch", "refuse", "ask"} :
                 Goto(label) /\ ~MayHaveStarted
           \/ \E how, may : CloseOut(how, may) /\ (may <=> MayHaveStarted)
    PROVE  Coupled'
  <1>1. InRound /\ committed /\ ~hist.consumed /\ ~rejected
    BY DEF Coupled
  <1>2. turnId = hist.started
    BY DEF Coupled, AtCall, Serving
  <1>3. CASE \E label \in {"launch", "refuse", "ask"} :
               Goto(label) /\ ~MayHaveStarted
    <2>1. PICK label \in {"launch", "refuse", "ask"} :
             Goto(label) /\ ~MayHaveStarted
      BY <1>3
    <2>2. pc' = label /\ turnId' = turnId
      BY <2>1 DEF Goto
    <2>3. InRound'
      BY <1>1, <2>1, <2>2 DEF InRound, MayHaveStarted, Before
    <2> QED
      BY <1>1, <1>2, <2>2, <2>3 DEF Coupled
  <1>4. CASE \E how, may : CloseOut(how, may) /\ (may <=> MayHaveStarted)
    <2>1. PICK how, may : CloseOut(how, may) /\ (may <=> MayHaveStarted)
      BY <1>4
    <2>2. /\ hist'.resolved = Before(ti)'
          /\ hist'.began \subseteq Before(ti + 1)'
          /\ calls'[ti'] \in hist'.began <=> may
      BY <1>1, <2>1 DEF InRound, Before
    <2> QED
      BY <1>1, <1>2, <2>1, <2>2, CloseOutCoupledRound DEF InRound
  <1> QED
    BY <1>3, <1>4

LEMMA StageToolCoupled ==
    ASSUME Typed, Coupled, StageTool
    PROVE  Coupled'
  <1>1. pc = "next" /\ ti <= Len(calls)
        /\ UNCHANGED <<hist, rejected, calls, ti, committed>>
    BY DEF StageTool, CallsLeft, progress
  <1>2. AtCall /\ ~MayHaveStarted
    BY <1>1 DEF AtCall, MayHaveStarted
  <1>3. \/ \E label \in {"launch", "refuse", "ask"} : Goto(label)
        \/ CloseOut("failed", FALSE)
    BY DEF StageTool
  <1> QED
    BY <1>1, <1>2, <1>3, MoveCoupled

LEMMA AnswerPermissionCoupled ==
    ASSUME Typed, Coupled, NEW allow, Answer(allow)
    PROVE  Coupled'
  <1>1. pc = "ask" /\ UNCHANGED <<hist, rejected, calls, ti, committed>>
        /\ (Goto("launch") \/ Goto("refuse"))
    BY DEF Answer, progress
  <1>2. AtCall /\ ~MayHaveStarted /\ ti <= Len(calls)
    BY <1>1 DEF AtCall, Serving, MayHaveStarted, Typed, IndexInRange
  <1> QED
    BY <1>1, <1>2, MoveCoupled

LEMMA ToolBreaksCoupled ==
    ASSUME Typed, Coupled, ToolBreaks
    PROVE  Coupled'
  <1>1. pc = "tool" /\ UNCHANGED <<hist, rejected, calls, ti, committed>>
        /\ CloseOut("failed", TRUE)
    BY DEF ToolBreaks, progress
  <1>2. AtCall /\ MayHaveStarted /\ ti <= Len(calls)
    BY <1>1 DEF AtCall, Serving, MayHaveStarted, Typed, IndexInRange
  <1> QED
    BY <1>1, <1>2, MoveCoupled

LEMMA CancelCoupled ==
    ASSUME Typed, Coupled, hazard' = {}, Cancel
    PROVE  Coupled'
  <1>1. UNCHANGED <<calls, ti, committed>> /\ CloseOut("cancelled", pc = "tool")
    BY DEF Cancel, progress
  <1>2. CASE pc = "model"
    <2>1. KeepPartial
      BY <1>2 DEF Cancel
    <2>2. ~committed' /\ turnId = hist.started
      BY <1>1, <1>2 DEF Coupled
    <2> QED
      BY <1>1, <1>2, <2>1, <2>2, KeepPartialCoupled, CloseOutCoupledOver
  <1>3. CASE pc \in {"ask", "tool"}
    <2>1. AtCall /\ ti <= Len(calls) /\ (pc = "tool" <=> MayHaveStarted)
      BY <1>3 DEF AtCall, Serving, MayHaveStarted, Typed, IndexInRange
    <2>2. UNCHANGED <<hist, rejected>>
      BY <1>3 DEF Cancel
    <2> QED
      BY <1>1, <2>1, <2>2, MoveCoupled
  <1> QED
    BY <1>2, <1>3 DEF Cancel

LEMMA LaunchToolCoupled ==
    ASSUME Typed, Coupled, hazard' = {}, LaunchTool
    PROVE  Coupled'
  <1> DEFINE ok == AcceptsStarted(hist, turnId, calls[ti])
             after == AfterStarted(hist, calls[ti])
  <1>1. /\ pc = "launch" /\ ti \in 1..Len(calls)
        /\ InRound /\ committed /\ ~hist.consumed /\ ~rejected
        /\ turnId = hist.started /\ calls[ti] \notin hist.began
    <2>1. pc = "launch" /\ AtCall /\ ~MayHaveStarted
      BY DEF LaunchTool, AtCall, Serving, MayHaveStarted
    <2>2. ti \in 1..Len(calls)
      BY <2>1 DEF Serving, Typed, IndexInRange, TypeOK, ProgressOK
    <2>3. /\ InRound /\ committed /\ ~hist.consumed /\ ~rejected
          /\ turnId = hist.started
      BY <2>1 DEF Coupled
    <2> QED
      BY <2>1, <2>2, <2>3 DEF InRound
  <1>2. calls[ti] \in ToSet(calls) /\ calls[ti] \notin Before(ti)
    BY <1>1, NotBefore DEF InRound, ToSet, Typed, TypeOK, ProgressOK
  <1>3. ok
    BY <1>1, <1>2 DEF AcceptsStarted, InRound
  <1>4. /\ Wrote(ok, after) /\ UNCHANGED <<calls, ti, committed>>
        /\ Goto("tool") \/ CloseOut("failed", TRUE)
    BY <1>3, AcceptedIsWritten DEF LaunchTool, progress
  <1>5. /\ hist'.phase = "tools" /\ ~hist'.partial
        /\ hist'.started = hist.started /\ ~hist'.consumed
        /\ hist'.calls = calls' /\ hist'.resolved = Before(ti)'
        /\ hist'.began = hist.began \cup {calls[ti]} /\ ~rejected'
    BY <1>1, <1>4, AfterStartedEffect
       DEF Wrote, InRound, Before, Typed, TypeOK, StoreOK
  <1>6. hist'.began \subseteq Before(ti + 1)' /\ calls'[ti'] \in hist'.began
    BY <1>1, <1>4, <1>5, BeforeNext DEF InRound, Before, Typed, TypeOK
  <1>7. CASE Goto("tool")
    <2>1. pc' = "tool" /\ turnId' = turnId
      BY <1>7 DEF Goto
    <2>2. InRound'
      BY <1>1, <1>4, <1>5, <1>6, <2>1 DEF InRound, MayHaveStarted
    <2> QED
      BY <1>1, <1>4, <1>5, <2>1, <2>2 DEF Coupled
  <1>8. CASE CloseOut("failed", TRUE)
    <2>1. committed' /\ ti' <= Len(calls') /\ DistinctCalls(calls')
      BY <1>1, <1>4 DEF InRound
    <2>2. turnId = hist'.started /\ (calls'[ti'] \in hist'.began <=> TRUE)
      BY <1>1, <1>5, <1>6
    <2> QED
      BY <1>5, <1>6, <1>8, <2>1, <2>2, CloseOutCoupledRound
  <1> QED
    BY <1>4, <1>7, <1>8

(* A tool message of a coupled state is written, and moves the round on.   *)
LEMMA AnswerCoupled ==
    ASSUME Typed, Coupled, hazard' = {}, AtCall, ti <= Len(calls),
           NEW o, NEW raw, ValidToolRecord(o, "normal", raw),
           o = "not_executed" <=> ~MayHaveStarted,
           Answered(o, raw) \/ NotAnswered(o, raw)
    PROVE  /\ ~NotAnswered(o, raw)
           /\ ~rejected' /\ ~hist'.consumed /\ hist'.started = turnId
           /\ IF ti = Len(calls)
              THEN hist'.phase = "assistant" /\ ~hist'.partial
              ELSE /\ hist'.phase = "tools" /\ ~hist'.partial
                   /\ hist'.calls = calls
                   /\ hist'.resolved = Before(ti + 1)
                   /\ hist'.began \subseteq Before(ti + 1)
                   /\ calls[ti + 1] \notin hist'.began
  <1>1. InRound /\ ~hist.consumed /\ ~rejected /\ turnId = hist.started
    BY DEF Coupled, AtCall, Serving
  <1>2. AcceptsTool(hist, turnId, calls[ti], o, "normal", raw)
    BY <1>1, AnswerAccepted
  <1>3. ~NotAnswered(o, raw)
    BY <1>2, AcceptedIsWritten DEF NotAnswered
  <1>4. hist' = AfterTool(hist, calls[ti], o) /\ rejected' = rejected
    BY <1>3 DEF Answered, Wrote
  <1>5. ~hist'.consumed /\ hist'.started = hist.started
    BY <1>1, <1>4, AfterToolEffect DEF Typed, TypeOK, StoreOK
  <1> QED
    BY <1>1, <1>3, <1>4, <1>5, RoundAdvances

LEMMA ToolDoneCoupled ==
    ASSUME Typed, Coupled, hazard' = {}, ToolDone
    PROVE  Coupled'
  <1>1. /\ pc = "tool" /\ AtCall /\ MayHaveStarted /\ ti <= Len(calls)
        /\ turnId = hist.started /\ committed
        /\ ti \in Nat /\ Len(calls) \in Nat
    BY DEF ToolDone, AtCall, Serving, MayHaveStarted, Typed, IndexInRange, Coupled,
           TypeOK, ProgressOK
  <1>2. ValidToolRecord("completed", "normal", TRUE)
    BY DEF ValidToolRecord
  <1>3. Answered("completed", TRUE) \/ NotAnswered("completed", TRUE)
    BY DEF ToolDone
  <1>4. /\ ~NotAnswered("completed", TRUE)
        /\ ~rejected' /\ ~hist'.consumed /\ hist'.started = turnId
        /\ IF ti = Len(calls)
           THEN hist'.phase = "assistant" /\ ~hist'.partial
           ELSE /\ hist'.phase = "tools" /\ ~hist'.partial
                /\ hist'.calls = calls
                /\ hist'.resolved = Before(ti + 1)
                /\ hist'.began \subseteq Before(ti + 1)
                /\ calls[ti + 1] \notin hist'.began
    BY <1>1, <1>2, <1>3, AnswerCoupled
  <1>5. /\ ti' = ti + 1 /\ pc' = "next" /\ turnId' = turnId
        /\ UNCHANGED <<calls, committed>>
    BY <1>4 DEF ToolDone, Goto
  <1>6. CASE ti = Len(calls)
    BY <1>1, <1>4, <1>5, <1>6 DEF Coupled, AtCall, Serving, RoundOver
  <1>7. CASE ti # Len(calls)
    <2>1. InRound'
      BY <1>1, <1>4, <1>5, <1>7 DEF InRound, MayHaveStarted, Before, Coupled
    <2> QED
      BY <1>1, <1>4, <1>5, <1>7, <2>1 DEF Coupled
  <1> QED
    BY <1>6, <1>7

LEMMA RefuseToolCoupled ==
    ASSUME Typed, Coupled, hazard' = {}, RefuseTool
    PROVE  Coupled'
  <1>1. /\ AtCall /\ ~MayHaveStarted /\ ti <= Len(calls)
        /\ ti \in Nat /\ Len(calls) \in Nat
    BY DEF RefuseTool, AtCall, Serving, MayHaveStarted, Typed, IndexInRange,
           TypeOK, ProgressOK
  <1>2. committed /\ DistinctCalls(calls)
    BY <1>1 DEF Coupled, InRound
  <1>3. /\ ti' = ti + 1 /\ UNCHANGED <<calls, committed>>
        /\ CloseOut("failed", FALSE)
        /\ \/ Answered("not_executed", FALSE)
           \/ NotAnswered("not_executed", FALSE)
    BY DEF RefuseTool
  <1>4. ValidToolRecord("not_executed", "normal", FALSE)
    BY DEF ValidToolRecord
  <1>5. /\ ~rejected' /\ ~hist'.consumed /\ hist'.started = turnId
        /\ IF ti = Len(calls)
           THEN hist'.phase = "assistant" /\ ~hist'.partial
           ELSE /\ hist'.phase = "tools" /\ ~hist'.partial
                /\ hist'.calls = calls
                /\ hist'.resolved = Before(ti + 1)
                /\ hist'.began \subseteq Before(ti + 1)
                /\ calls[ti + 1] \notin hist'.began
    BY <1>1, <1>3, <1>4, AnswerCoupled
  <1>6. CASE ti = Len(calls)
    <2>1. ~(committed' /\ ti' <= Len(calls'))
      BY <1>1, <1>3, <1>6
    <2> QED
      BY <1>3, <1>5, <1>6, <2>1, CloseOutCoupledOver
  <1>7. CASE ti # Len(calls)
    <2>1. committed' /\ ti' <= Len(calls') /\ DistinctCalls(calls')
      BY <1>1, <1>2, <1>3, <1>7
    <2>2. /\ hist'.resolved = Before(ti)' /\ hist'.began \subseteq Before(ti)'
          /\ hist'.calls = calls' /\ calls'[ti'] \notin hist'.began
      BY <1>3, <1>5, <1>7 DEF Before
    <2>3. Before(ti)' \subseteq Before(ti + 1)'
      BY <1>1, <1>3 DEF Before
    <2> QED
      BY <1>3, <1>5, <1>7, <2>1, <2>2, <2>3, CloseOutCoupledRound
  <1> QED
    BY <1>6, <1>7

LEMMA FillInCoupled ==
    ASSUME Typed, Coupled, hazard' = {},
           \/ pc = "repair" /\ FillIn("marker")
           \/ pc = "skip" /\ FillIn("bookend")
    PROVE  Coupled'
  <1> DEFINE result == IF mayStart THEN "unknown" ELSE "not_executed"
  <1>1. PICK then \in {"marker", "bookend"} :
           FillIn(then) /\ pc = (IF then = "marker" THEN "repair" ELSE "skip")
    OBVIOUS
  <1>2. /\ AtCall /\ ti <= Len(calls) /\ (MayHaveStarted <=> mayStart)
        /\ ti \in Nat /\ Len(calls) \in Nat /\ ~rFail
    BY <1>1 DEF AtCall, Serving, MayHaveStarted, Typed, IndexInRange, Coupled,
                TypeOK, ProgressOK
  <1>3. committed /\ DistinctCalls(calls) /\ turnId = hist.started
    BY <1>1, <1>2 DEF Coupled, InRound
  <1>4. /\ ValidToolRecord(result, "normal", mayStart)
        /\ result = "not_executed" <=> ~MayHaveStarted
    BY <1>2 DEF ValidToolRecord, Typed, TypeOK, FlagsOK
  <1>5. /\ ti' = ti + 1 /\ UNCHANGED <<calls, committed>>
        /\ \/ Answered(result, mayStart) /\ AfterFillIn(rFail, then)
           \/ NotAnswered(result, mayStart) /\ AfterFillIn(TRUE, then)
    BY <1>1 DEF FillIn
  <1>6. /\ ~NotAnswered(result, mayStart)
        /\ ~rejected' /\ ~hist'.consumed /\ hist'.started = turnId
        /\ IF ti = Len(calls)
           THEN hist'.phase = "assistant" /\ ~hist'.partial
           ELSE /\ hist'.phase = "tools" /\ ~hist'.partial
                /\ hist'.calls = calls
                /\ hist'.resolved = Before(ti + 1)
                /\ hist'.began \subseteq Before(ti + 1)
                /\ calls[ti + 1] \notin hist'.began
    <2> HIDE DEF result
    <2> QED
      BY <1>2, <1>4, <1>5, AnswerCoupled
  <1>7. AfterFillIn(rFail, then)
    BY <1>5, <1>6
  <1>8. CASE ti = Len(calls)
    <2>1. pc' = then /\ turnId' = turnId
      BY <1>2, <1>7, <1>8 DEF AfterFillIn, Goto
    <2> QED
      BY <1>3, <1>6, <1>8, <2>1 DEF Coupled, AtCall, Serving
  <1>9. CASE ti # Len(calls)
    <2>1. pc' = pc /\ turnId' = turnId /\ (rFail' <=> rFail) /\ ~mayStart'
      BY <1>2, <1>7, <1>9 DEF AfterFillIn
    <2>2. /\ hist'.resolved = Before(ti)' /\ hist'.began \subseteq Before(ti)'
          /\ hist'.calls = calls' /\ calls'[ti'] \notin hist'.began
      BY <1>5, <1>6, <1>9 DEF Before
    <2>3. Before(ti)' \subseteq Before(ti + 1)'
      BY <1>2, <1>5 DEF Before
    <2>4. InRound' /\ committed'
      BY <1>1, <1>3, <1>5, <1>6, <1>9, <2>1, <2>2, <2>3 DEF InRound, MayHaveStarted
    <2> QED
      BY <1>1, <1>2, <1>3, <1>6, <2>1, <2>4 DEF Coupled
  <1> QED
    BY <1>8, <1>9

LEMMA CloseCoupled ==
    ASSUME Typed, Coupled, hazard' = {}, pc \in {"marker", "bookend"},
           NEW how, Close(how)
    PROVE  Coupled'
  <1> DEFINE ok == AcceptsAssistant(hist, turnId, "repair", <<>>)
             after == AfterAssistant(hist, <<>>)
  <1>1. ok
    <2>1. DistinctCalls(<<>>)
      BY DEF DistinctCalls
    <2> QED
      BY <2>1 DEF Coupled, AcceptsAssistant
  <1>2. Wrote(ok, after) /\ FinishTurn(how)
    BY <1>1, AcceptedIsWritten DEF Close
  <1>3. hist'.phase = "user" /\ ~hist'.consumed /\ ~rejected'
    BY <1>2, AfterAssistantEffect DEF Wrote, Coupled, Typed, TypeOK, StoreOK
  <1> QED
    BY <1>2, <1>3, FinishTurnCoupled

LEMMA InStepInductive ==
    ASSUME Typed, InStep, [Next]_vars
    PROVE  InStep'
  <1> SUFFICES ASSUME hazard' = {}
               PROVE  Coupled'
    BY DEF InStep
  <1>1. Coupled
    BY HazardGrows DEF InStep
  <1>2. CASE RunOn
    BY <1>1, <1>2, TurnAwayCoupled, NextRoundCoupled, StageToolCoupled,
       LaunchToolCoupled, RefuseToolCoupled, FillInCoupled, CloseCoupled
       DEF RunOn, RepairCall, SkipCall, RepairMarker, SteeredBookend
  <1>3. CASE World
    BY <1>1, <1>3, StreamCoupled, StreamBreaksCoupled, ReplyFailsCoupled,
       ReplyCoupled, ToolDoneCoupled, ToolBreaksCoupled DEF World, ModelAnswers
  <1>4. CASE Embedder
    BY <1>1, <1>4, StartCoupled, CancelCoupled, StreamCoupled,
       AnswerPermissionCoupled DEF Embedder
  <1>5. CASE AtBound \/ UNCHANGED vars
    <2>1. UNCHANGED <<hist, turnId, rejected, pc, mayStart, rFail, calls, ti,
                      committed>>
      BY <1>5 DEF AtBound, vars, store, progress, closing
    <2> QED
      BY <1>1, <2>1 DEF Coupled, AtCall, RoundOver, InRound, MayHaveStarted, Before
  <1> QED
    BY <1>2, <1>3, <1>4, <1>5 DEF Next

LEMMA AlwaysInStep == Spec => []InStep
  <1>1. Init => InStep
    BY DEF Init, Created, InStep, Coupled, AtCall, Serving, EmptyHistory, NextTurn
  <1>2. Spec => []Typed
    BY TypedInit, TypedStep, PTL DEF Spec
  <1> QED
    BY <1>1, <1>2, InStepInductive, PTL DEF Spec

(* The log never refuses a record of the conversation unless one of the    *)
(* listed mishaps came first.                                              *)
THEOREM RecordsAreAccepted == Spec => []NoUnprovokedRejection
  <1>1. InStep => NoUnprovokedRejection
    BY DEF InStep, Coupled, NoUnprovokedRejection
  <1> QED
    BY <1>1, AlwaysInStep, PTL

(* And then every turn, finished, failed, denied, steered or cancelled,    *)
(* leaves the log ready for the next user message.                         *)
THEOREM EndedTurnsAreClosed == Spec => []EndedTurnIsClosedUnlessHazard
  <1>1. InStep => EndedTurnIsClosedUnlessHazard
    BY DEF InStep, Coupled, EndedTurnIsClosedUnlessHazard, EndedTurnIsClosed
  <1> QED
    BY <1>1, AlwaysInStep, PTL

-----------------------------------------------------------------------------
(* Every request is answerable.  The log has its shape, as it only grows   *)
(* by records it accepts; and the conversation asks the model only where   *)
(* the log waits for a reply.  The latter holds after any mishap: whatever *)
(* fails sends the turn to its repair, which asks nothing.                 *)
LEMMA AnswerAppends ==
    ASSUME Typed, ti <= Len(calls), NEW o \in Outcome, NEW raw \in BOOLEAN,
           Answered(o, raw) \/ NotAnswered(o, raw)
    PROVE  hist' = hist \/ RestAdded(hist, hist', turnId)
  <1>1. calls[ti] \in CallId /\ "normal" \in Source
    BY CallInRange DEF Typed, TypeOK, Source
  <1>2. \/ hist' = hist
        \/ /\ AcceptsTool(hist, turnId, calls[ti], o, "normal", raw)
           /\ hist' = AfterTool(hist, calls[ti], o)
    BY DEF Answered, NotAnswered, Wrote, WriteFailed
  <1> QED
    BY <1>1, <1>2 DEF RestAdded

(* A step that goes on with what is under way.                             *)
GoesOn ==
    \/ RunOn \/ World \/ Cancel \/ Steer \/ UNCHANGED vars
    \/ \E allow \in BOOLEAN : Answer(allow)

LEMMA LogGoesOn ==
    ASSUME Typed, GoesOn
    PROVE  hist' = hist \/ RestAdded(hist, hist', turnId)
  <1>1. CASE \/ TurnAway \/ NextRound \/ StageTool \/ Stream \/ StreamBreaks
             \/ ToolBreaks \/ Steer \/ UNCHANGED vars
             \/ \E allow \in BOOLEAN : Answer(allow)
    BY <1>1 DEF TurnAway, NextRound, StageTool, Stream, StreamBreaks, ToolBreaks,
                Steer, Answer, vars, store
  <1>2. CASE LaunchTool
    <2>1. \/ hist' = hist
          \/ /\ AcceptsStarted(hist, turnId, calls[ti])
             /\ hist' = AfterStarted(hist, calls[ti])
      BY <1>2 DEF LaunchTool, Wrote, WriteFailed
    <2>2. calls[ti] \in CallId
      BY <1>2, CallInRange
         DEF LaunchTool, Typed, TypeOK, IndexInRange, Serving
    <2> QED
      BY <2>1, <2>2 DEF RestAdded
  <1>3. CASE ReplyFails \/ Cancel
    BY <1>3 DEF ReplyFails, Cancel, KeepPartial, Wrote, WriteFailed, RestAdded
  <1>4. CASE RefuseTool \/ ToolDone \/ RepairCall \/ SkipCall
    <2>1. ti <= Len(calls) /\ mayStart \in BOOLEAN
      BY <1>4 DEF RefuseTool, ToolDone, RepairCall, SkipCall, Typed, IndexInRange,
                  Serving, TypeOK, FlagsOK
    <2>2. PICK result \in Outcome, raw \in BOOLEAN :
             Answered(result, raw) \/ NotAnswered(result, raw)
      BY <1>4, <2>1 DEF RefuseTool, ToolDone, RepairCall, SkipCall, FillIn, Outcome
    <2> QED
      BY <2>1, <2>2, AnswerAppends
  <1>5. CASE RepairMarker \/ SteeredBookend
    <2>1. \/ hist' = hist
          \/ /\ AcceptsAssistant(hist, turnId, "repair", <<>>)
             /\ hist' = AfterAssistant(hist, <<>>)
      BY <1>5 DEF RepairMarker, SteeredBookend, Close, Wrote, WriteFailed
    <2>2. <<>> \in Seq(CallId) /\ "repair" \in Source
      BY DEF Source
    <2> QED
      BY <2>1, <2>2 DEF RestAdded
  <1>6. CASE \E reply \in Replies : Reply(reply)
    <2>1. PICK reply \in Replies : Reply(reply)
      BY <1>6
    <2>2. \/ hist' = hist
          \/ /\ AcceptsAssistant(hist, turnId, "normal", reply)
             /\ hist' = AfterAssistant(hist, reply)
      BY <2>1 DEF Reply, Wrote, WriteFailed
    <2>3. reply \in Seq(CallId) /\ "normal" \in Source
      BY ConversationAssumption DEF Source
    <2> QED
      BY <2>2, <2>3 DEF RestAdded
  <1> QED
    BY <1>1, <1>2, <1>3, <1>4, <1>5, <1>6 DEF GoesOn, RunOn, World, ModelAnswers

LEMMA LogStep ==
    ASSUME Typed, [Next]_vars
    PROVE  hist' = hist \/ RecordAdded(hist, hist', turnId)
  <1>1. CASE \E t \in Text : Start(t)
    BY <1>1 DEF Start, Wrote, WriteFailed, RecordAdded, UserAdded
  <1>2. CASE GoesOn \/ AtBound
    BY <1>2, LogGoesOn DEF RecordAdded, GoesOn, AtBound
  <1> QED
    BY <1>1, <1>2 DEF Next, Embedder, GoesOn

(* Where the conversation may go on to a request, and what the log is then *)
(* waiting for.                                                            *)
Asking == {"next", "ask", "launch", "tool"}

InRequest ==
    /\ pc = "model" => hist.phase = "assistant"
    /\ pc \in Asking =>
          IF ti <= Len(calls)
          THEN /\ hist.phase = "tools"
               /\ hist.calls = calls /\ DistinctCalls(calls)
               /\ hist.resolved = Before(ti)
          ELSE hist.phase = "assistant"

LEMMA InRequestStep ==
    ASSUME Typed, InRequest, [Next]_vars
    PROVE  InRequest'
  <1>1. CASE pc' \notin {"model"} \cup Asking
    BY <1>1 DEF InRequest
  <1>2. CASE pc' = pc /\ UNCHANGED <<hist, calls, ti>>
    BY <1>2 DEF InRequest, Before
  <1>3. CASE Stream \/ Steer \/ AtBound \/ UNCHANGED vars
    BY <1>2, <1>3 DEF Stream, Steer, AtBound, vars, store, progress
  <1>4. CASE \/ StreamBreaks \/ ToolBreaks \/ ReplyFails \/ Cancel \/ RefuseTool
             \/ TurnAway \/ RepairMarker \/ SteeredBookend
    <2>1. pc' \in {"idle", "repair", "marker", "skip", "bookend"}
      BY <1>4 DEF StreamBreaks, ToolBreaks, ReplyFails, Cancel, RefuseTool, TurnAway,
                  RepairMarker, SteeredBookend, Close, CloseOut, FinishTurn
    <2> QED
      BY <2>1, <1>1 DEF Asking
  <1>5. CASE RepairCall \/ SkipCall
    <2>1. pc' \in {"idle", "repair", "marker", "skip", "bookend"}
      BY <1>5 DEF RepairCall, SkipCall, FillIn, AfterFillIn, FinishTurn, Goto
    <2> QED
      BY <2>1, <1>1 DEF Asking
  <1>6. CASE \E t \in Text : Start(t)
    <2>1. PICK t \in Text : Start(t)
      BY <1>6
    <2>2. \/ pc' = "idle"
          \/ pc' = "model" /\ hist' = AfterUser(hist, turnId, t)
      BY <2>1 DEF Start, Wrote, FinishTurn
    <2> QED
      BY <2>2, AfterUserEffect DEF InRequest, Asking, Typed, TypeOK, StoreOK
  <1>7. CASE \E reply \in Replies : Reply(reply)
    <2>1. PICK reply \in Replies : Reply(reply)
      BY <1>7
    <2>2. \/ pc' \in {"idle", "repair", "marker"}
          \/ /\ pc' = "next" /\ reply # <<>> /\ DistinctCalls(reply)
             /\ hist' = AfterAssistant(hist, reply)
             /\ calls' = reply /\ ti' = 1
      BY <2>1 DEF Reply, Wrote, AcceptsAssistant, FinishTurn, CloseOut, Goto
    <2>3. CASE pc' \in {"idle", "repair", "marker"}
      BY <2>3, <1>1 DEF Asking
    <2>4. CASE pc' = "next"
      <3>1. /\ reply # <<>> /\ DistinctCalls(reply) /\ reply \in Seq(CallId)
            /\ hist' = AfterAssistant(hist, reply) /\ calls' = reply /\ ti' = 1
        BY <2>2, <2>4, ConversationAssumption
      <3>2. /\ hist'.phase = "tools" /\ hist'.calls = reply
            /\ hist'.resolved = {}
        BY <3>1, AfterAssistantEffect DEF Typed, TypeOK, StoreOK
      <3>3. Len(reply) >= 1 /\ Before(ti)' = {}
        BY <3>1 DEF Before
      <3> QED
        BY <2>4, <3>1, <3>2, <3>3 DEF InRequest
    <2> QED
      BY <2>2, <2>3, <2>4
  <1>8. CASE NextRound
    <2>1. /\ pc = "next" /\ ~CallsLeft /\ hist' = hist
          /\ pc' \in {"model", "repair", "marker"}
      BY <1>8 DEF NextRound, Goto, CloseOut
    <2>2. hist.phase = "assistant"
      BY <2>1 DEF InRequest, CallsLeft, Asking
    <2> QED
      BY <2>1, <2>2 DEF InRequest, Asking
  <1>9. CASE StageTool \/ \E allow \in BOOLEAN : Answer(allow)
    <2>1. /\ pc \in {"next", "ask"} /\ ti <= Len(calls)
          /\ UNCHANGED <<hist, calls, ti>>
          /\ pc' \in {"launch", "refuse", "ask", "repair", "marker"}
      BY <1>9 DEF StageTool, Answer, CallsLeft, Goto, CloseOut, progress, Typed,
                  IndexInRange, Serving
    <2> QED
      BY <2>1 DEF InRequest, Asking, Before
  <1>10. CASE LaunchTool
    <2>1. /\ pc = "launch" /\ ti <= Len(calls) /\ UNCHANGED <<calls, ti>>
          /\ \/ pc' \in {"repair", "marker"}
             \/ pc' = "tool" /\ hist' = AfterStarted(hist, calls[ti])
      BY <1>10 DEF LaunchTool, Wrote, Goto, CloseOut, progress, Typed,
                   IndexInRange, Serving
    <2>2. CASE pc' \in {"repair", "marker"}
      BY <2>2, <1>1 DEF Asking
    <2>3. CASE pc' = "tool"
      <3>1. /\ hist'.phase = hist.phase /\ hist'.calls = hist.calls
            /\ hist'.resolved = hist.resolved
        BY <2>1, <2>3, AfterStartedEffect DEF Typed, TypeOK, StoreOK
      <3> QED
        BY <2>1, <2>3, <3>1 DEF InRequest, Asking, Before
    <2> QED
      BY <2>1, <2>2, <2>3
  <1>11. CASE ToolDone
    <2>1. /\ pc = "tool" /\ ti <= Len(calls)
          /\ \/ pc' \in {"repair", "marker"}
             \/ /\ pc' = "next" /\ calls' = calls /\ ti' = ti + 1
                /\ hist' = AfterTool(hist, calls[ti], "completed")
      BY <1>11 DEF ToolDone, Answered, Wrote, Goto, CloseOut, Typed,
                   IndexInRange, Serving
    <2>2. CASE pc' \in {"repair", "marker"}
      BY <2>2, <1>1 DEF Asking
    <2>3. CASE pc' = "next"
      <3>1. /\ hist.phase = "tools" /\ hist.calls = calls /\ DistinctCalls(calls)
            /\ hist.resolved = Before(ti)
        BY <2>1 DEF InRequest, Asking
      <3>2. ProgressOK /\ ti \in 1..Len(calls) /\ hist \in History
        BY <2>1 DEF Typed, TypeOK, ProgressOK, StoreOK
      <3>3. hist.resolved \cup {calls[ti]} = Before(ti + 1)
        BY <3>1, <3>2, BeforeNext
      <3>4. Before(ti + 1) = Before(ti)'
        BY <2>1, <2>3 DEF Before
      <3>5. CASE ti = Len(calls)
        <4>1. ToSet(hist.calls) \subseteq hist.resolved \cup {calls[ti]}
          BY <3>1, <3>2, <3>3, <3>5, BeforeEnd
        <4>2. hist'.phase = "assistant"
          BY <2>1, <2>3, <3>2, <4>1, AfterToolRound
        <4> QED
          BY <2>1, <2>3, <3>2, <3>5, <4>2 DEF InRequest
      <3>6. CASE ti # Len(calls)
        <4>1. ti + 1 \in 1..Len(calls)
          BY <3>2, <3>6 DEF ProgressOK
        <4>2. calls[ti + 1] \in ToSet(calls) /\ calls[ti + 1] \notin Before(ti + 1)
          BY <3>1, <3>2, <4>1, NotBefore DEF ToSet, ProgressOK
        <4>3. ~(ToSet(hist.calls) \subseteq hist.resolved \cup {calls[ti]})
          BY <3>1, <3>3, <4>2
        <4>4. /\ hist'.phase = "tools" /\ hist'.calls = hist.calls
              /\ hist'.resolved = hist.resolved \cup {calls[ti]}
          BY <2>1, <2>3, <3>2, <4>3, AfterToolRound
        <4> QED
          BY <2>1, <2>3, <3>1, <3>3, <3>4, <4>1, <4>4 DEF InRequest
      <3> QED
        BY <3>5, <3>6
    <2> QED
      BY <2>1, <2>2, <2>3
  <1> QED
    BY <1>3, <1>4, <1>5, <1>6, <1>7, <1>8, <1>9, <1>10, <1>11
       DEF Next, RunOn, World, ModelAnswers, Embedder

(* A context of this shape, at the point where a reply is due, is one the  *)
(* chat protocol admits.                                                   *)
LEMMA ShapeIsAnswerable ==
    ASSUME NEW h \in History, Shape(h), h.phase = "assistant"
    PROVE  Answerable(h.ctx)
  <1> DEFINE c == h.ctx
             n == Len(c)
             asking == {i \in DOMAIN c : c[i].role = "assistant"}
  <1>1. c \in Seq(Message) /\ n \in Nat /\ DOMAIN c = 1..n
    BY DEF History
  <1>2. CompleteTo(c, n) /\ c # <<>> /\ c[n].role # "assistant"
    BY DEF Shape
  <1> HIDE DEF c, n
  <1>3. ASSUME NEW i \in asking
        PROVE  /\ Answers(c, i) = Window(c, i)
               /\ {c[j].arg : j \in Answers(c, i)} = ToSet(c[i].arg)
    <2>1. i \in 1..n /\ Served(c, i, n)
      BY <1>1, <1>2 DEF CompleteTo
    <2>2. c[i].arg \in Seq(CallId) /\ Len(c[i].arg) \in Nat
          /\ i + Len(c[i].arg) <= n
      BY <2>1 DEF Served
    <2>3. \A j \in Window(c, i) : /\ j \in DOMAIN c /\ i < j
                                  /\ j <= i + Len(c[i].arg)
      BY <1>1, <2>1, <2>2 DEF Window
    <2>4. \A j \in DOMAIN c : i < j /\ j <= i + Len(c[i].arg) => j \in Window(c, i)
      BY <1>1, <2>1, <2>2 DEF Window
    <2>5. Answers(c, i) = Window(c, i)
      BY <2>1, <2>3, <2>4 DEF Answers, Served
    <2> QED
      BY <2>1, <2>5 DEF Served
  <1>4. ASSUME NEW j \in DOMAIN c, c[j].role = "tool"
        PROVE  \E i \in asking : j \in Answers(c, i)
    <2>1. PICK i \in 1..n : c[i].role = "assistant" /\ j \in Window(c, i)
      BY <1>1, <1>2, <1>4 DEF CompleteTo
    <2>2. i \in asking
      BY <1>1, <2>1
    <2> QED
      BY <1>3, <2>1, <2>2
  <1>5. Last(c).role # "assistant"
    BY <1>2 DEF Last, n
  <1>6. Answerable(c)
    BY <1>3, <1>4, <1>5 DEF Answerable
  <1> QED
    BY <1>6 DEF c

Requested == Shape(hist) /\ InRequest

LEMMA RequestedInit == Init => Requested
  BY EmptyHistoryShape DEF Init, Created, Requested, InRequest, Asking

LEMMA RequestedStep ==
    ASSUME Typed, Requested, [Next]_vars
    PROVE  Requested'
  <1>1. hist \in History /\ turnId \in Nat
    BY DEF Typed, TypeOK, StoreOK, PlaceOK
  <1>2. Shape(hist')
    BY <1>1, LogStep, RecordKeepsShape DEF Requested
  <1> QED
    BY <1>2, InRequestStep DEF Requested

LEMMA RequestedAnswerable ==
    ASSUME Typed, Requested, LiveMatchesHistory
    PROVE  RequestIsAnswerable
  BY ShapeIsAnswerable DEF Typed, TypeOK, StoreOK, Requested, InRequest,
                           LiveMatchesHistory, RequestIsAnswerable

(* Every context the model is sent is one the chat protocol admits: each   *)
(* call of a reply is answered right behind it, nothing else is, and the   *)
(* last message is the user's or a tool's.                                 *)
THEOREM RequestsAreAnswerable == Spec => []RequestIsAnswerable
  <1>1. Spec => []Typed
    BY TypedInit, TypedStep, PTL DEF Spec
  <1>2. Spec => []Requested
    BY <1>1, RequestedInit, RequestedStep, PTL DEF Spec
  <1> QED
    BY <1>1, <1>2, LiveIsDurable, RequestedAnswerable, PTL

-----------------------------------------------------------------------------
(* What each kind of step is to the dialogue.                              *)
TalkStep == [Talk!Next]_(Talk!dialogue)

SilentStep(h, g) == SameRound(h, g) /\ g.pending = h.pending

(* Nothing is said and nothing is asked; at most a reply is given up.      *)
LEMMA QuietTalk ==
    ASSUME SilentStep(hist, hist'), ran' = ran,
           pc' = "model" => pc = "model" /\ live' = live
    PROVE  TalkStep
  <1>1. /\ hist'.ctx = hist.ctx /\ hist'.phase = hist.phase
        /\ ToSet(hist'.calls) \ hist'.resolved = ToSet(hist.calls) \ hist.resolved
        /\ hist'.pending = hist.pending
    BY DEF SilentStep, SameRound
  <1>2. CASE pc = "model" /\ pc' # "model"
    <2>1. Talk!ReplyIsLost
      BY <1>1, <1>2 DEF Talk!ReplyIsLost
    <2> QED
      BY <2>1 DEF TalkStep, Talk!Next
  <1>3. CASE pc' = "model" \/ pc # "model"
    BY <1>1, <1>3 DEF TalkStep, Talk!dialogue
  <1> QED
    BY <1>2, <1>3

LEMMA AskTalk ==
    ASSUME UNCHANGED <<hist, live, ran>>, LiveMatchesHistory,
           hist.phase = "assistant", pc # "model", pc' = "model"
    PROVE  TalkStep
  <1>1. Talk!ModelIsAsked
    BY DEF Talk!ModelIsAsked, LiveMatchesHistory
  <1> QED
    BY <1>1 DEF TalkStep, Talk!Next

LEMMA UserTalk ==
    ASSUME hist \in History, NEW turn, NEW t \in Text,
           AcceptsUser(hist, turn, t), hist' = AfterUser(hist, turn, t),
           ran' = ran, pc # "model", pc' = "model" => live' = hist'.ctx
    PROVE  TalkStep
  <1>1. /\ hist.phase = "user" /\ hist'.phase = "assistant"
        /\ hist'.ctx = Append(hist.ctx, UserMsg(t))
        /\ hist'.calls = hist.calls /\ hist'.resolved = hist.resolved
        /\ \/ hist'.pending = hist.pending
           \/ hist.pending = t /\ hist'.pending = NoText
    BY DEF AcceptsUser, AfterUser, History
  <1>2. UserMsg(t) = Talk!Msg("user", t, "")
    BY DEF UserMsg, Talk!Msg
  <1>3. {hist'.pending} \ {NoText} \in
           {{hist.pending} \ {NoText}, ({hist.pending} \ {NoText}) \ {t}}
    BY <1>1
  <1>4. Talk!UserSays(t)
    BY <1>1, <1>2, <1>3 DEF Talk!UserSays, Talk!Says
  <1> QED
    BY <1>4 DEF TalkStep, Talk!Next

LEMMA ReplyTalk ==
    ASSUME hist \in History, NEW turn, NEW source, NEW cs \in Replies,
           AcceptsAssistant(hist, turn, source, cs),
           hist' = AfterAssistant(hist, cs), LiveMatchesHistory,
           ran' = {}, pc = "model", pc' # "model"
    PROVE  TalkStep
  <1>1. /\ hist.phase = "assistant"
        /\ hist'.phase = IF cs = <<>> THEN "user" ELSE "tools"
        /\ hist'.ctx = Append(hist.ctx, AssistantMsg(cs))
        /\ hist'.calls = cs /\ hist'.resolved = {}
        /\ hist'.pending = hist.pending
    BY AfterAssistantEffect DEF AcceptsAssistant, AfterAssistant, History
  <1>2. AssistantMsg(cs) = Talk!Msg("assistant", cs, "")
    BY DEF AssistantMsg, Talk!Msg
  <1>3. ToSet(hist'.calls) \ hist'.resolved = {cs[i] : i \in DOMAIN cs}
    BY <1>1 DEF ToSet
  <1>4. Talk!ModelSays(cs)
    BY <1>1, <1>2, <1>3 DEF Talk!ModelSays, Talk!Says, LiveMatchesHistory
  <1> QED
    BY <1>4 DEF TalkStep, Talk!Next

LEMMA CloseTalk ==
    ASSUME hist \in History, Shape(hist), NEW turn, NEW source,
           AcceptsAssistant(hist, turn, source, <<>>),
           hist' = AfterAssistant(hist, <<>>),
           ran' = ran, pc # "model", pc' # "model"
    PROVE  TalkStep
  <1>1. /\ hist.phase = "assistant" /\ hist'.phase = "user"
        /\ hist'.ctx = Append(hist.ctx, AssistantMsg(<<>>))
        /\ hist'.calls = <<>> /\ hist.calls = <<>>
        /\ hist'.pending = hist.pending
    BY AfterAssistantEffect
       DEF AcceptsAssistant, Shape, AfterAssistant, History
  <1>2. AssistantMsg(<<>>) = Talk!Msg("assistant", <<>>, "")
    BY DEF AssistantMsg, Talk!Msg
  <1>3. ToSet(hist.calls) = {} /\ ToSet(hist'.calls) = {}
    BY <1>1 DEF ToSet
  <1>4. Talk!TurnIsClosed
    BY <1>1, <1>2, <1>3 DEF Talk!TurnIsClosed, Talk!Says
  <1> QED
    BY <1>4 DEF TalkStep, Talk!Next

LEMMA SpawnTalk ==
    ASSUME hist \in History, WriteAhead, NEW turn, NEW id \in CallId,
           AcceptsStarted(hist, turn, id), hist' = AfterStarted(hist, id),
           ran' \in {ran, ran \cup {id}}, pc # "model", pc' # "model"
    PROVE  TalkStep
  <1>1. SilentStep(hist, hist')
    BY AfterStartedEffect DEF SilentStep, SameRound, AfterStarted, History
  <1>2. CASE ran' = ran
    BY <1>1, <1>2, QuietTalk
  <1>3. CASE ran' # ran
    <2>1. /\ id \in (ToSet(hist.calls) \ hist.resolved) \ ran
          /\ ran' = ran \cup {id}
      BY <1>3 DEF AcceptsStarted, WriteAhead
    <2>2. Talk!ToolRuns(id)
      BY <1>1, <2>1 DEF Talk!ToolRuns, SilentStep, SameRound
    <2> QED
      BY <2>2 DEF TalkStep, Talk!Next
  <1> QED
    BY <1>2, <1>3

LEMMA AnswerTalk ==
    ASSUME hist \in History, WriteAhead, NEW id \in CallId, NEW o \in Outcome,
           NEW turn, NEW source, NEW raw,
           AcceptsTool(hist, turn, id, o, source, raw),
           hist' = AfterTool(hist, id, o),
           o = "completed" => id \in ran,
           ran' = ran, pc # "model", pc' # "model"
    PROVE  TalkStep
  <1> DEFINE open == ToSet(hist.calls) \ hist.resolved
  <1>1. /\ id \in open
        /\ o = "not_executed" => id \notin ran
    BY DEF AcceptsTool, WriteAhead
  <1>2. hist'.ctx = Append(hist.ctx, ToolMsg(id, o)) /\ hist'.pending = hist.pending
    BY AfterToolEffect DEF AfterTool, History
  <1>3. ToolMsg(id, o) = Talk!Msg("tool", id, o)
    BY DEF ToolMsg, Talk!Msg
  <1>4. /\ ToSet(hist'.calls) \ hist'.resolved = open \ {id}
        /\ hist'.phase = IF open \ {id} = {} THEN "assistant" ELSE "tools"
    <2>1. CASE ToSet(hist.calls) \subseteq hist.resolved \cup {id}
      <3>1. /\ hist'.phase = "assistant" /\ hist'.calls = <<>>
        BY <2>1 DEF AfterTool, History
      <3>2. ToSet(hist'.calls) = {}
        BY <3>1 DEF ToSet
      <3> QED
        BY <2>1, <3>1, <3>2
    <2>2. CASE ~(ToSet(hist.calls) \subseteq hist.resolved \cup {id})
      <3>1. /\ hist'.phase = "tools" /\ hist'.calls = hist.calls
            /\ hist'.resolved = hist.resolved \cup {id}
        BY <2>2, AfterToolRound
      <3> QED
        BY <2>2, <3>1
    <2> QED
      BY <2>1, <2>2
  <1>5. Talk!ToolSays(id, o)
    BY <1>1, <1>2, <1>3, <1>4 DEF Talk!ToolSays, Talk!Says
  <1> QED
    BY <1>5 DEF TalkStep, Talk!Next, Outcome

(* A tool is waited for only once its process runs.                        *)
Spawned == pc = "tool" => calls[ti] \in ran

TalkInv == /\ Typed /\ WriteAhead /\ Requested /\ LiveMatchesHistory
           /\ Spawned

LEMMA SpawnedStep ==
    ASSUME Spawned, [Next]_vars
    PROVE  Spawned'
  <1>1. CASE LaunchTool
    BY <1>1 DEF LaunchTool, Goto, CloseOut, progress, Spawned
  <1>2. CASE Stream \/ Steer \/ AtBound \/ UNCHANGED vars
    BY <1>2 DEF Stream, Steer, AtBound, vars, progress, Spawned
  <1>3. CASE \/ StreamBreaks \/ ToolBreaks \/ ReplyFails \/ Cancel \/ RefuseTool
             \/ TurnAway \/ RepairMarker \/ SteeredBookend \/ NextRound
             \/ StageTool \/ \E allow \in BOOLEAN : Answer(allow)
             \/ \E t \in Text : Start(t)
    <2>1. pc' # "tool"
      BY <1>3 DEF StreamBreaks, ToolBreaks, ReplyFails, Cancel, RefuseTool, TurnAway,
                  RepairMarker, SteeredBookend, NextRound, StageTool, Answer, Start,
                  Close, CloseOut, FinishTurn, Goto
    <2> QED
      BY <2>1 DEF Spawned
  <1>4. CASE RepairCall \/ SkipCall
    <2>1. pc' # "tool"
      BY <1>4 DEF RepairCall, SkipCall, FillIn, AfterFillIn, FinishTurn, Goto
    <2> QED
      BY <2>1 DEF Spawned
  <1>5. CASE ToolDone \/ \E reply \in Replies : Reply(reply)
    <2>1. pc' # "tool"
      BY <1>5 DEF ToolDone, Reply, CloseOut, FinishTurn, Goto
    <2> QED
      BY <2>1 DEF Spawned
  <1> QED
    BY <1>1, <1>2, <1>3, <1>4, <1>5
       DEF Next, RunOn, World, ModelAnswers, Embedder

LEMMA AnswerStepTalk ==
    ASSUME TalkInv, RefuseTool \/ ToolDone \/ RepairCall \/ SkipCall
    PROVE  TalkStep
  <1>1. /\ ti <= Len(calls) /\ mayStart \in BOOLEAN /\ hist \in History
        /\ calls[ti] \in CallId /\ ran' = ran /\ pc # "model"
    BY CallInRange
       DEF TalkInv, RefuseTool, ToolDone, RepairCall, SkipCall, FillIn, Typed,
           IndexInRange, Serving, TypeOK, StoreOK, FlagsOK
  <1>2. pc' # "model"
    BY DEF RefuseTool, ToolDone, RepairCall, SkipCall, FillIn, AfterFillIn,
           FinishTurn, Goto, CloseOut
  <1>3. PICK o \in Outcome, raw \in BOOLEAN :
           /\ Answered(o, raw) \/ NotAnswered(o, raw)
           /\ o = "completed" => calls[ti] \in ran
    BY <1>1 DEF RefuseTool, ToolDone, RepairCall, SkipCall, FillIn, Outcome,
                TalkInv, Spawned
  <1>4. CASE NotAnswered(o, raw)
    <2>1. SilentStep(hist, hist')
      BY <1>4 DEF NotAnswered, WriteFailed, SilentStep, SameRound
    <2> QED
      BY <1>1, <1>2, <2>1, QuietTalk
  <1>5. CASE Answered(o, raw)
    <2>1. /\ AcceptsTool(hist, turnId, calls[ti], o, "normal", raw)
          /\ hist' = AfterTool(hist, calls[ti], o)
      BY <1>5 DEF Answered, Wrote
    <2> QED
      BY <1>1, <1>2, <1>3, <2>1, AnswerTalk DEF TalkInv
  <1> QED
    BY <1>3, <1>4, <1>5

LEMMA TalkGoesOn ==
    ASSUME TalkInv, [Next]_vars
    PROVE  TalkStep
  <1>1. hist \in History /\ Shape(hist)
    BY DEF TalkInv, Typed, TypeOK, StoreOK, Requested
  <1>2. CASE \/ TurnAway \/ StageTool \/ StreamBreaks \/ ToolBreaks
             \/ \E allow \in BOOLEAN : Answer(allow)
    <2>1. UNCHANGED <<hist, ran>> /\ pc' # "model"
      BY <1>2 DEF TurnAway, StageTool, StreamBreaks, ToolBreaks, Answer, store,
                  Goto, CloseOut
    <2> QED
      BY <2>1, QuietTalk DEF SilentStep, SameRound
  <1>3. CASE Stream \/ Steer \/ AtBound \/ UNCHANGED vars
    <2>1. UNCHANGED <<hist, ran, pc, live>>
      BY <1>3 DEF Stream, Steer, AtBound, vars, store
    <2> QED
      BY <2>1, QuietTalk DEF SilentStep, SameRound
  <1>4. CASE ReplyFails \/ Cancel
    <2>1. /\ ran' = ran /\ pc' # "model"
          /\ hist' = hist \/ hist' = AfterPartial(hist)
      BY <1>4 DEF ReplyFails, Cancel, KeepPartial, Wrote, WriteFailed, CloseOut
    <2>2. SilentStep(hist, AfterPartial(hist)) /\ SilentStep(hist, hist)
      BY <1>1 DEF SilentStep, SameRound, AfterPartial, History
    <2> QED
      BY <2>1, <2>2, QuietTalk
  <1>5. CASE NextRound
    <2>1. /\ UNCHANGED <<hist, live, ran>> /\ pc = "next" /\ ~CallsLeft
      BY <1>5 DEF NextRound
    <2>2. hist.phase = "assistant"
      BY <2>1 DEF TalkInv, Requested, InRequest, Asking, CallsLeft
    <2>3. CASE pc' = "model"
      BY <2>1, <2>2, <2>3, AskTalk DEF TalkInv
    <2>4. CASE pc' # "model"
      BY <2>1, <2>4, QuietTalk DEF SilentStep, SameRound
    <2> QED
      BY <2>3, <2>4
  <1>6. CASE LaunchTool
    <2>1. calls[ti] \in CallId /\ pc = "launch" /\ pc' # "model"
      BY <1>6, CallInRange DEF TalkInv, LaunchTool, Typed, TypeOK, IndexInRange,
                               Serving, Goto, CloseOut
    <2>2. \/ /\ AcceptsStarted(hist, turnId, calls[ti])
             /\ hist' = AfterStarted(hist, calls[ti])
             /\ ran' \in {ran, ran \cup {calls[ti]}}
          \/ hist' = hist /\ ran' = ran
      BY <1>6 DEF LaunchTool, Wrote, WriteFailed
    <2>3. CASE hist' = hist /\ ran' = ran
      BY <2>1, <2>3, QuietTalk DEF SilentStep, SameRound
    <2> QED
      BY <1>1, <2>1, <2>2, <2>3, SpawnTalk DEF TalkInv
  <1>7. CASE RefuseTool \/ ToolDone \/ RepairCall \/ SkipCall
    BY <1>7, AnswerStepTalk
  <1>8. CASE RepairMarker \/ SteeredBookend
    <2>1. pc # "model" /\ pc' # "model" /\ ran' = ran
      BY <1>8 DEF RepairMarker, SteeredBookend, Close, FinishTurn
    <2>2. \/ /\ AcceptsAssistant(hist, turnId, "repair", <<>>)
             /\ hist' = AfterAssistant(hist, <<>>)
          \/ hist' = hist
      BY <1>8 DEF RepairMarker, SteeredBookend, Close, Wrote, WriteFailed
    <2>3. CASE hist' = hist
      BY <2>1, <2>3, QuietTalk DEF SilentStep, SameRound
    <2> QED
      BY <1>1, <2>1, <2>2, <2>3, CloseTalk
  <1>9. CASE \E t \in Text : Start(t)
    <2>1. PICK t \in Text : Start(t)
      BY <1>9
    <2>2. /\ pc = "idle" /\ ran' = ran
          /\ \/ /\ AcceptsUser(hist, turnId, t)
                /\ hist' = AfterUser(hist, turnId, t)
                /\ live' = Append(live, UserMsg(t))
             \/ hist' = hist /\ pc' = "idle"
      BY <2>1 DEF Start, Wrote, WriteFailed, FinishTurn
    <2>3. CASE hist' = hist /\ pc' = "idle"
      BY <2>2, <2>3, QuietTalk DEF SilentStep, SameRound
    <2>4. CASE /\ AcceptsUser(hist, turnId, t)
               /\ hist' = AfterUser(hist, turnId, t)
               /\ live' = Append(live, UserMsg(t))
      <3>1. live' = hist'.ctx
        BY <1>1, <2>4, AfterUserEffect DEF TalkInv, LiveMatchesHistory
      <3> QED
        BY <1>1, <2>2, <2>4, <3>1, UserTalk
    <2> QED
      BY <2>2, <2>3, <2>4
  <1>10. CASE \E reply \in Replies : Reply(reply)
    <2>1. PICK reply \in Replies : Reply(reply)
      BY <1>10
    <2>2. /\ pc = "model" /\ pc' # "model"
          /\ \/ /\ AcceptsAssistant(hist, turnId, "normal", reply)
                /\ hist' = AfterAssistant(hist, reply) /\ ran' = {}
             \/ hist' = hist /\ ran' = ran
      BY <2>1 DEF Reply, Wrote, WriteFailed, FinishTurn, Goto, CloseOut
    <2>3. CASE hist' = hist /\ ran' = ran
      BY <2>2, <2>3, QuietTalk DEF SilentStep, SameRound
    <2> QED
      BY <1>1, <2>2, <2>3, ReplyTalk DEF TalkInv
  <1> QED
    BY <1>2, <1>3, <1>4, <1>5, <1>6, <1>7, <1>8, <1>9, <1>10
       DEF Next, RunOn, World, ModelAnswers, Embedder

(* The log, the processes and the requests of a session are one Dialogue,  *)
(* whichever appends, requests and tools fail and whenever the turn is     *)
(* cancelled: each step of the conversation is one of its steps or none.   *)
THEOREM DialogueIsKept == Spec => KeepsDialogue
  <1>1. Init => Talk!Init
    BY DEF Init, Created, EmptyHistory, Talk!Init, ToSet
  <1>2. Init => TalkInv
    BY TypedInit, RequestedInit
       DEF TalkInv, Init, Created, WriteAhead, LiveMatchesHistory, Spawned
  <1>3. TalkInv /\ [Next]_vars => TalkStep
    BY TalkGoesOn
  <1>4. Spec => []Spawned
    BY <1>2, SpawnedStep, PTL DEF Spec, TalkInv
  <1>5. Spec => []Typed
    BY TypedInit, TypedStep, PTL DEF Spec
  <1>6. Spec => []Requested
    BY <1>5, RequestedInit, RequestedStep, PTL DEF Spec
  <1>7. Spec => []TalkInv
    BY <1>4, <1>5, <1>6, StartsAreLogged, LiveIsDurable, PTL DEF TalkInv
  <1> QED
    BY <1>1, <1>3, <1>7, PTL DEF Spec, KeepsDialogue, Talk!Spec, TalkStep
=============================================================================
