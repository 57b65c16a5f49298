----------------------------- MODULE Conversation -----------------------------
(***************************************************************************)
(* One model/tool turn after another: cli_conversation.c, with the         *)
(* persistence callback of cli.c (persist_conversation_event) and the      *)
(* append of cli_history_store.c it ends in.                               *)
(*                                                                         *)
(* A turn runs on callbacks: the model's reply, a tool's exit, the user's  *)
(* answer to a permission question, a cancel.  A callback runs to its end  *)
(* without another one in between, but on its way it may append several    *)
(* records to the durable log, each of which may fail, and between any two *)
(* of which the process may die.  An action of this module is therefore    *)
(* the piece of a callback up to and including one append, and pc says     *)
(* which piece is due; the events of the outside world are enabled only    *)
(* where the code has returned to its event loop, Waiting.                 *)
(***************************************************************************)
EXTENDS HistoryReplay

CONSTANTS Replies,    \* the lists of tool calls a model reply may carry
          MaxSteps,   \* max_model_steps, model requests per turn
          MaxTurns,   \* bound of the model: turns a session may start
          Faults      \* which things may go wrong, a subset of AllFaults

AllFaults == {"storage",   \* an append fails: disk full, I/O error
              "request",   \* a model request cannot be started
              "present",   \* output to the terminal fails
              "ids"}       \* a reply repeats a tool-call id

ASSUME ConversationAssumption ==
    /\ MaxSteps \in Nat \ {0}
    /\ MaxTurns \in Nat
    /\ Replies \subseteq Seq(CallId)
    /\ Faults \subseteq AllFaults
    /\ "ids" \in Faults \/ \A r \in Replies : DistinctCalls(r)

VARIABLES
    hist,       \* the durable log, as the state of its replay
    turnId,     \* persistence_context.turn_id, the turn records are tagged with
    lastError,  \* persistence_context.last_error # OI_OK, never cleared
    live,       \* conversation->messages, the context sent to the model
    pc,         \* where the turn is; busy = (pc # "idle")
    steering,   \* conversation->steering
    steps,      \* conversation->model_steps
    calls,      \* tool_calls of the assistant message being served
    ti,         \* conversation->tool_index, from 1
    committed,  \* conversation->assistant_committed
    text,       \* conversation->assistant.len > 0
    mayStart,   \* first_call_may_have_started of the repair under way
    rFail,      \* first_status # OI_OK of the repair or skip under way
    ending,     \* the status the turn under repair will finish with
    outcome,    \* last_status and cancelled of the turn that ended
    (* History variables: nothing in the code reads them. *)
    ran,        \* calls of the current round whose process was spawned
    rejected,   \* the grammar of the log refused some append
    hazard      \* the mishaps so far after which the log may refuse one

store    == <<hist, turnId, lastError, rejected, hazard>>
progress == <<steering, steps, calls, ti, committed, text>>
closing  == <<mayStart, rFail, ending, outcome>>
vars     == <<store, live, pc, progress, closing, ran>>

Waiting == {"idle", "model", "ask", "tool"}
Steps   == {"next", "launch", "refuse", "repair", "marker", "skip", "bookend"}

(* oi_cli_conversation_create, on the context of a log h.                  *)
Created(h) ==
    /\ hist = h /\ live = h.ctx
    /\ turnId = NextTurn(h) /\ lastError = FALSE
    /\ pc = "idle" /\ steering = FALSE /\ steps = 0
    /\ calls = <<>> /\ ti = 1 /\ committed = FALSE /\ text = FALSE
    /\ mayStart = FALSE /\ rFail = FALSE /\ ending = "failed"
    /\ outcome = "ok"
    /\ ran = {} /\ rejected = FALSE /\ hazard = {}

Init == Created(EmptyHistory)

-----------------------------------------------------------------------------
(* oi_cli_history_store_append, called by persist_conversation_event.      *)

Wrote(accepted, after) ==
    /\ accepted
    /\ hist' = after
    /\ UNCHANGED <<lastError, rejected>>

(* Refused by the grammar of the log, or accepted and not written.  `why`  *)
(* names the mishap a refusal is put down to.                              *)
WriteFailed(accepted, why) ==
    /\ accepted => "storage" \in Faults
    /\ hist' = hist
    /\ lastError' = TRUE
    /\ rejected' = (rejected \/ ~accepted)
    /\ hazard' = hazard \cup (IF accepted THEN {"storage"} ELSE why)

(* finish_turn: TURN_DONE moves the driver to the turn id that is next.    *)
FinishTurn(how) ==
    /\ pc' = "idle"
    /\ outcome' = how
    /\ turnId' = NextTurn(hist')
    /\ UNCHANGED <<mayStart, rFail, ending>>

(* finish_turn_with_repair: what is still open decides where to begin.     *)
CloseOut(how, may) ==
    /\ pc' = IF committed' /\ ti' <= Len(calls') THEN "repair" ELSE "marker"
    /\ ending' = how
    /\ mayStart' = may
    /\ rFail' = FALSE
    /\ UNCHANGED <<outcome, turnId>>

Goto(label) == pc' = label /\ UNCHANGED <<closing, turnId>>

-----------------------------------------------------------------------------
(* oi_cli_conversation_start: record the user message, ask the model.  If  *)
(* the request cannot be started the turn is finished as it stands.        *)
Start(t) ==
    /\ pc = "idle"
    /\ hist.started < MaxTurns
    /\ steering' = FALSE /\ text' = FALSE
    /\ UNCHANGED <<calls, ti, ran>>
    /\ LET ok == AcceptsUser(hist, turnId, t) IN
       \/ /\ Wrote(ok, AfterUser(hist, turnId, t))
          /\ live' = Append(live, UserMsg(t))
          /\ steps' = 1 /\ committed' = FALSE
          /\ \/ /\ pc' = "model" /\ outcome' = "none"
                /\ UNCHANGED <<mayStart, rFail, ending, turnId, hazard>>
             \/ /\ "request" \in Faults
                /\ FinishTurn("failed")
                /\ hazard' = hazard \cup {"start left open"}
       \/ /\ WriteFailed(ok, {})
          /\ steps' = 0
          /\ FinishTurn("failed")
          /\ UNCHANGED <<live, committed>>

(* on_llm_event: text arrives, or relaying it fails and ends the turn.     *)
Stream ==
    /\ pc = "model" /\ ~text
    /\ text' = TRUE
    /\ UNCHANGED <<store, live, pc, closing, ran,
                   steering, steps, calls, ti, committed>>

StreamBreaks ==
    /\ pc = "model"
    /\ UNCHANGED <<hist, lastError, rejected, hazard, live, progress, ran>>
    /\ CloseOut("failed", FALSE)

(* on_llm_done with a usable reply.  The reply is recorded, then the       *)
(* embedder is told that it is complete, which may fail.                   *)
Reply(reply) ==
    /\ pc = "model"
    /\ UNCHANGED <<steering, steps>>
    /\ LET ok == AcceptsAssistant(hist, turnId, "normal", reply) IN
       \/ /\ Wrote(ok, AfterAssistant(hist, reply))
          /\ live' = Append(live, AssistantMsg(reply))
          /\ calls' = reply /\ ti' = 1 /\ ran' = {}
          /\ committed' = TRUE /\ text' = FALSE
          /\ \/ /\ reply = <<>> /\ FinishTurn("ok")
                /\ UNCHANGED hazard
             \/ /\ reply # <<>> /\ Goto("next")
                /\ UNCHANGED hazard
             \/ /\ "present" \in Faults
                /\ CloseOut("failed", FALSE)
                /\ hazard' = IF reply = <<>>
                             THEN hazard \cup {"closed twice"} ELSE hazard
       \/ /\ WriteFailed(ok, IF DistinctCalls(reply) THEN {} ELSE {"ids"})
          /\ UNCHANGED <<calls, ti, committed, text, ran, live>>
          /\ CloseOut("failed", FALSE)

(* The text streamed so far, if any, is kept in the log; a failure to do   *)
(* so changes nothing about what follows.                                  *)
KeepPartial ==
    \/ ~text /\ UNCHANGED <<hist, lastError, rejected, hazard>>
    \/ /\ text
       /\ LET ok == AcceptsPartial(hist, turnId) IN
          \/ Wrote(ok, AfterPartial(hist)) /\ UNCHANGED hazard
          \/ WriteFailed(ok, {})

(* on_llm_done with an error.  (Mutant: the turn is not repaired.)         *)
ReplyFailsUnrepaired ==
    /\ pc = "model"
    /\ KeepPartial
    /\ UNCHANGED <<live, progress, ran>>
    /\ FinishTurn("failed")

ReplyFails ==
    /\ pc = "model"
    /\ KeepPartial
    /\ UNCHANGED <<live, progress, ran>>
    /\ CloseOut("failed", FALSE)

-----------------------------------------------------------------------------
(* start_next_tool, entered after a reply with calls and after each tool.  *)

(* Calls without a result; requests below max_model_steps.  (Mutants: each *)
(* off by one.)                                                            *)
CallsLeftButLast == ti < Len(calls)
CallsLeft == ti <= Len(calls)

RoundsLeftInclusive == steps <= MaxSteps
RoundsLeft == steps < MaxSteps

(* A message is waiting: leave the rest of the calls.  (Mutant: the turn   *)
(* is not ended when none is left.)                                        *)
TurnAwayFromCalls ==
    /\ pc = "next" /\ steering
    /\ pc' = IF CallsLeft THEN "skip" ELSE "next"
    /\ rFail' = FALSE /\ mayStart' = FALSE
    /\ UNCHANGED <<store, live, progress, ran, ending, outcome>>

TurnAway ==
    /\ pc = "next" /\ steering
    /\ pc' = IF CallsLeft THEN "skip" ELSE "bookend"
    /\ rFail' = FALSE /\ mayStart' = FALSE
    /\ UNCHANGED <<store, live, progress, ran, ending, outcome>>

(* start_model_request once all the calls have results.                    *)
NextRound ==
    /\ pc = "next" /\ ~steering /\ ~CallsLeft
    /\ committed' = FALSE
    /\ UNCHANGED <<hist, lastError, rejected, hazard, live, ran,
                   steering, calls, ti, text>>
    /\ \/ RoundsLeft /\ steps' = steps + 1 /\ Goto("model")
       \/ /\ \/ ~RoundsLeft /\ steps' = steps
             \/ RoundsLeft /\ "request" \in Faults /\ steps' = steps + 1
          /\ CloseOut("failed", FALSE)

(* request_tool_call: the call cannot be staged (no such tool), or the     *)
(* policy allows it, denies it, or asks the user.  (Mutant: a waiting      *)
(* message is ignored.)                                                    *)
StageToolRegardless ==
    /\ pc = "next" /\ CallsLeft
    /\ UNCHANGED <<hist, lastError, rejected, hazard, live, progress, ran>>
    /\ \/ \E label \in {"launch", "refuse", "ask"} : Goto(label)
       \/ CloseOut("failed", FALSE)

StageTool ==
    /\ pc = "next" /\ ~steering /\ CallsLeft
    /\ UNCHANGED <<hist, lastError, rejected, hazard, live, progress, ran>>
    /\ \/ \E label \in {"launch", "refuse", "ask"} : Goto(label)
       \/ CloseOut("failed", FALSE)

(* resolve_permission_body(allow): note in the log that the call starts,   *)
(* announce it, spawn the process, arm its timeout.                        *)
LaunchTool ==
    /\ pc = "launch"
    /\ UNCHANGED <<live, progress>>
    /\ LET ok == AcceptsStarted(hist, turnId, calls[ti]) IN
       \/ /\ Wrote(ok, AfterStarted(hist, calls[ti]))
          /\ \/ Goto("tool") /\ ran' = ran \cup {calls[ti]} /\ UNCHANGED hazard
             \/ /\ CloseOut("failed", TRUE)
                /\ ran' \in {ran, ran \cup {calls[ti]}}
                /\ UNCHANGED hazard
             \/ /\ "present" \in Faults
                /\ CloseOut("failed", FALSE)
                /\ hazard' = hazard \cup {"start unannounced"}
                /\ UNCHANGED ran
       \/ /\ WriteFailed(ok, {})
          /\ CloseOut("failed", FALSE)
          /\ UNCHANGED ran

(* commit_tool_text: the live context gets a result if the log got it.     *)
(* (Mutant: in any case.)                                                  *)
Answered(result, raw) ==
    /\ Wrote(AcceptsTool(hist, turnId, calls[ti], result, "normal", raw),
             AfterTool(hist, calls[ti], result))
    /\ live' = Append(live, ToolMsg(calls[ti], result))
    /\ UNCHANGED hazard

NotAnsweredButAdded(result, raw) ==
    /\ WriteFailed(AcceptsTool(hist, turnId, calls[ti],
                               result, "normal", raw), {})
    /\ live' = Append(live, ToolMsg(calls[ti], result))

NotAnswered(result, raw) ==
    /\ WriteFailed(AcceptsTool(hist, turnId, calls[ti],
                               result, "normal", raw), {})
    /\ UNCHANGED live

(* resolve_permission_body(deny).                                          *)
RefuseTool ==
    /\ pc = "refuse"
    /\ ti' = ti + 1
    /\ UNCHANGED <<steering, steps, calls, committed, text, ran>>
    /\ Answered("not_executed", FALSE) \/ NotAnswered("not_executed", FALSE)
    /\ CloseOut("failed", FALSE)

(* on_tool_done.                                                           *)
ToolDone ==
    /\ pc = "tool"
    /\ UNCHANGED <<steering, steps, calls, committed, text, ran>>
    /\ \/ Answered("completed", TRUE) /\ ti' = ti + 1 /\ Goto("next")
       \/ /\ NotAnswered("completed", TRUE)
          /\ ti' = ti
          /\ CloseOut("failed", TRUE)

(* on_tool_output: the output exceeds its limit or cannot be relayed.      *)
ToolBreaks ==
    /\ pc = "tool"
    /\ UNCHANGED <<hist, lastError, rejected, hazard, live, progress, ran>>
    /\ CloseOut("failed", TRUE)

-----------------------------------------------------------------------------
(* The loops of repair_dangling_tool_calls and skip_steered_tool_calls.    *)
(* They go on past a call whose placeholder could not be written, but then *)
(* nothing is appended after them.                                         *)
AfterFillIn(failed, then) ==
    IF ti < Len(calls)
    THEN /\ rFail' = failed /\ mayStart' = FALSE
         /\ UNCHANGED <<pc, ending, outcome, turnId>>
    ELSE IF failed THEN FinishTurn("failed") ELSE Goto(then)

FillIn(then) ==
    LET result == IF mayStart THEN "unknown" ELSE "not_executed" IN
    /\ ti' = ti + 1
    /\ UNCHANGED <<steering, steps, calls, committed, text, ran>>
    /\ \/ Answered(result, mayStart) /\ AfterFillIn(rFail, then)
       \/ NotAnswered(result, mayStart) /\ AfterFillIn(TRUE, then)

RepairCall == pc = "repair" /\ FillIn("marker")

SkipCall == pc = "skip" /\ FillIn("bookend")

(* repair_interrupted_turn and close_out_steered_turn: an assistant        *)
(* message without calls closes the turn in the log.                       *)
Close(how) ==
    /\ LET ok == AcceptsAssistant(hist, turnId, "repair", <<>>) IN
       \/ /\ Wrote(ok, AfterAssistant(hist, <<>>))
          /\ live' = Append(live, AssistantMsg(<<>>))
          /\ FinishTurn(how) /\ UNCHANGED hazard
       \/ /\ WriteFailed(ok, {})
          /\ FinishTurn("failed") /\ UNCHANGED live
    /\ UNCHANGED <<progress, ran>>

RepairMarker == pc = "marker" /\ Close(ending)

SteeredBookend == pc = "bookend" /\ Close("ok")

-----------------------------------------------------------------------------
(* Calls of the embedder during a turn.                                    *)

(* oi_cli_conversation_cancel.  (Mutant: a running tool is forgotten.)     *)
CancelForgetsTool ==
    /\ pc \in {"model", "ask", "tool"}
    /\ \/ pc = "model" /\ KeepPartial
       \/ pc # "model" /\ UNCHANGED <<hist, lastError, rejected, hazard>>
    /\ UNCHANGED <<live, progress, ran>>
    /\ CloseOut("cancelled", FALSE)

Cancel ==
    /\ pc \in {"model", "ask", "tool"}
    /\ \/ pc = "model" /\ KeepPartial
       \/ pc # "model" /\ UNCHANGED <<hist, lastError, rejected, hazard>>
    /\ UNCHANGED <<live, progress, ran>>
    /\ CloseOut("cancelled", pc = "tool")

(* oi_cli_conversation_steer.                                              *)
Steer ==
    /\ pc \in {"model", "ask", "tool"}
    /\ steering' = TRUE
    /\ UNCHANGED <<store, live, pc, closing, ran,
                   steps, calls, ti, committed, text>>

(* oi_cli_conversation_resolve_permission.                                 *)
Answer(allow) ==
    /\ pc = "ask"
    /\ Goto(IF allow THEN "launch" ELSE "refuse")
    /\ UNCHANGED <<hist, lastError, rejected, hazard, live, progress, ran>>

-----------------------------------------------------------------------------
(* The rest of the callback under way.                                     *)
RunOn == \/ TurnAway \/ NextRound \/ StageTool
         \/ LaunchTool \/ RefuseTool
         \/ RepairCall \/ RepairMarker
         \/ SkipCall \/ SteeredBookend

ModelAnswers == ReplyFails \/ \E r \in Replies : Reply(r)

World == \/ Stream \/ StreamBreaks \/ ModelAnswers
         \/ ToolDone \/ ToolBreaks

Embedder == \/ \E t \in Text : Start(t)
            \/ Cancel \/ Steer
            \/ \E allow \in BOOLEAN : Answer(allow)

(* The model's bound on turns, not a state the program stops in.           *)
AtBound == pc = "idle" /\ hist.started = MaxTurns /\ UNCHANGED vars

Next == RunOn \/ World \/ Embedder \/ AtBound

Spec == Init /\ [][Next]_vars

(* A callback runs to its end; a request and a tool end at some time, by   *)
(* themselves or by their timeout.                                         *)
FairSpec == Spec /\ WF_vars(RunOn) /\ WF_vars(ModelAnswers) /\ WF_vars(ToolDone)

-----------------------------------------------------------------------------
(* Types.                                                                  *)
StoreOK == hist \in History /\ hist.started <= MaxTurns

ProgressOK ==
    /\ steps \in 0..MaxSteps
    /\ calls \in Seq(CallId) /\ ti \in 1..(Len(calls) + 1)

PlaceOK ==
    /\ pc \in Waiting \cup Steps
    /\ turnId \in Nat
    /\ ending \in {"failed", "cancelled"}
    /\ outcome \in {"none", "ok", "failed", "cancelled"}

FlagsOK ==
    /\ lastError \in BOOLEAN /\ rejected \in BOOLEAN
    /\ steering \in BOOLEAN /\ committed \in BOOLEAN /\ text \in BOOLEAN
    /\ mayStart \in BOOLEAN /\ rFail \in BOOLEAN

TypeOK ==
    StoreOK /\ ProgressOK /\ PlaceOK /\ FlagsOK /\ ran \subseteq CallId

(* What the model is sent is what a restart would restore: the live        *)
(* context never runs ahead of or behind the log, whichever appends fail.  *)
LiveMatchesHistory == live = hist.ctx

(* The code appends only records the log accepts, in every interleaving of *)
(* replies, tools, denials, cancels and failures.  The mishaps in `hazard` *)
(* are the complete list of exceptions.                                    *)
NoUnprovokedRejection == rejected => hazard # {}

(* Every turn, however it ended, leaves the log ready for the next one.    *)
EndedTurnIsClosed == pc = "idle" => hist.phase = "user"

EndedTurnIsClosedUnlessHazard == hazard = {} => EndedTurnIsClosed

(* A process is spawned only after the log says that it may have been.     *)
WriteAhead == hist.phase = "tools" => ran \subseteq hist.began

(* No call whose process was spawned is ever recorded as not executed.     *)
WorkIsNeverDenied ==
    [][\A id \in ran :
          hist'.ctx # Append(hist.ctx, ToolMsg(id, "not_executed"))]_vars

(* A context the chat protocol admits: the calls of an assistant message   *)
(* are answered, each once, by the messages that follow it at once, every  *)
(* tool message is such an answer, and the last message is not a reply.    *)
Answers(context, i) ==
    {j \in DOMAIN context : /\ i < j /\ j <= i + Len(context[i].arg)
                            /\ context[j].role = "tool"}

Answerable(context) ==
    LET asking == {i \in DOMAIN context : context[i].role = "assistant"} IN
    /\ \A i \in asking :
          {context[j].arg : j \in Answers(context, i)} = ToSet(context[i].arg)
    /\ \A j \in DOMAIN context : context[j].role = "tool" =>
          \E i \in asking : j \in Answers(context, i)
    /\ Last(context).role # "assistant"

(* Every request sends the model such a context (build_request_body).      *)
RequestIsAnswerable == pc = "model" => Answerable(live)

(* The log, the processes and the requests together are a Dialogue: after  *)
(* any failure, cancel, death or repair, a call is run at most once, its   *)
(* result tells the truth, a reply is to the transcript as it stands, and  *)
(* what waits in the queue is said once or handed back.                    *)
Talk == INSTANCE Dialogue WITH
    said    <- hist.ctx,
    due     <- hist.phase,
    open    <- ToSet(hist.calls) \ hist.resolved,
    asked   <- IF pc = "model" THEN {live} ELSE {},
    waiting <- {hist.pending} \ {NoText}

KeepsDialogue == Talk!Spec

(* A started turn ends, or waits for the user to answer.                   *)
TurnEnds == pc # "idle" ~> pc \in {"idle", "ask"}
=============================================================================
