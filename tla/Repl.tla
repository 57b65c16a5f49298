--------------------------------- MODULE Repl ---------------------------------
(***************************************************************************)
(* The interactive loop around the conversation: cli_repl.c, with the      *)
(* parts of cli.c and cli_session_switch.c that open a session and persist *)
(* the REPL's own records, and the process's death and restart.            *)
(*                                                                         *)
(* During a turn the terminal, the signals, the model connection and the   *)
(* tool all report through one reactor.  A step of the reactor hands out a *)
(* batch of events, and the loop looks at the turn only after the batch:   *)
(* an event may therefore be handled after the one that ended the turn.    *)
(* That is why the events of a turn stay enabled at pc = "idle" until      *)
(* LeaveLoop is taken.                                                     *)
(***************************************************************************)
EXTENDS Conversation

CONSTANTS Commands,       \* the texts that are commands, a subset of Text
          LegacyLengths,  \* lengths of the untyped logs a run may start from
          MaxOpens,       \* bound of the model: times the session is opened
          Mishaps         \* what else may happen, a subset of AllMishaps

AllMishaps == {"crash",   \* the process is killed
               "eof",     \* the terminal is closed
               "late",    \* Enter is handled after the end of the turn
               "switch"}  \* the session is opened by /session switch

ASSUME ReplAssumption ==
    /\ Commands \subseteq Text
    /\ LegacyLengths \subseteq {n \in Nat : (n + 1) \div 2 <= MaxTurns}
    /\ MaxOpens \in Nat \ {0}
    /\ Mishaps \subseteq AllMishaps

VARIABLES
    mode,       \* where oi_cli_repl_run is; see Modes
    via,        \* how the session was opened
    conv,       \* the conversation object exists
    slot,       \* pending.text, the input queued for after the turn
    draft,      \* the text handed back to the composer, if untouched
    asking,     \* turn_input.awaiting_permission
    discard,    \* Ctrl+C is being handled and will discard the queue
    termSig,    \* terminate_signal # 0
    turnStatus, \* what went wrong in the loop around the turn
    verdict,    \* how the last run ended
    opens,      \* times the session was opened
    owed        \* history variable: the input accepted and not yet settled

control  == <<mode, via, conv, verdict, opens>>
queue    == <<slot, draft, owed>>
loop     == <<asking, discard, termSig, turnStatus>>
convVars == <<store, live, pc, progress, closing, ran>>
replVars == <<convVars, control, queue, loop>>

Modes == {"opening",   \* bringing the log into shape
          "prompt",    \* top of the loop
          "have",      \* a queued message was taken (label have_message)
          "command",   \* a queued command was taken (have_parsed_command)
          "turn",      \* in the loop that steps the reactor
          "turnover",  \* behind that loop
          "leaving",   \* out of the outer loop
          "exited"}    \* no process

TurnStatuses == {"ok", "loop", "input", "unwound", "fault"}

(* The process is gone and with it all but the log.                        *)
ProcessGone(how) ==
    /\ mode' = "exited" /\ verdict' = how
    /\ turnId' = 1 /\ lastError' = FALSE /\ live' = <<>>
    /\ pc' = "idle" /\ steering' = FALSE /\ steps' = 0
    /\ calls' = <<>> /\ ti' = 1 /\ committed' = FALSE /\ text' = FALSE
    /\ mayStart' = FALSE /\ rFail' = FALSE /\ ending' = "failed"
    /\ outcome' = "ok" /\ conv' = FALSE
    /\ slot' = NoText /\ draft' = NoText
    /\ asking' = FALSE /\ discard' = FALSE /\ termSig' = FALSE
    /\ turnStatus' = "ok"
    /\ UNCHANGED <<hist, rejected, hazard, ran, owed, via, opens>>

-----------------------------------------------------------------------------
(* Opening the session: cli.c for --session, prepare_history for a switch. *)

ReplInit ==
    /\ \E n \in LegacyLengths, t \in Text \ Commands :
          Created(LegacyHistory(n, t))
    /\ mode = "opening" /\ via = "open" /\ conv = FALSE
    /\ verdict = "ok" /\ opens = 1
    /\ slot = NoText /\ draft = NoText /\ owed = NoText
    /\ asking = FALSE /\ discard = FALSE /\ termSig = FALSE
    /\ turnStatus = "ok"

(* An append of the open path: on failure the session is not opened.       *)
OpenAppend(ok, after) ==
    \/ Wrote(ok, after) /\ UNCHANGED <<hazard, control>>
    \/ /\ WriteFailed(ok, {})
       /\ mode' = "leaving" /\ verdict' = "failed"
       /\ UNCHANGED <<via, conv, opens>>

(* oi_cli_history_build_repairs: one result for every open call, in order, *)
(* then the assistant message that closes the turn.                        *)
RepairOnOpen ==
    /\ mode = "opening" /\ NeedsRepair(hist)
    /\ IF Unresolved(hist) # {}
       THEN LET i  == CHOOSE k \in Unresolved(hist) :
                        \A m \in Unresolved(hist) : k <= m
                id == hist.calls[i]
                o  == IF id \in hist.began THEN "unknown" ELSE "not_executed"
            IN  OpenAppend(AcceptsTool(hist, hist.started, id, o, "repair", FALSE),
                           AfterTool(hist, id, o))
       ELSE OpenAppend(AcceptsAssistant(hist, hist.started, "repair", <<>>),
                       AfterAssistant(hist, <<>>))
    /\ UNCHANGED <<turnId, live, pc, progress, closing, ran, queue, loop>>

(* seed_pending_draft_from_replay; a switch does without it.               *)
SeedDraft ==
    /\ mode = "opening" /\ ~NeedsRepair(hist)
    /\ via = "open" /\ hist.pending # NoText
    /\ OpenAppend(AcceptsResolved(hist, hist.pendTurn, "discarded"),
                  AfterResolved(hist, "discarded"))
    /\ IF mode' = "opening"
       THEN draft' = hist.pending /\ owed' = NoText
       ELSE UNCHANGED <<draft, owed>>
    /\ UNCHANGED <<turnId, live, pc, progress, closing, ran, slot, loop>>

(* oi_cli_session_restore_settings, which may record the model or the      *)
(* directory this run starts from; then the context is cloned.  A switch   *)
(* creates the conversation at once, otherwise the first message does.     *)
OpenDone ==
    /\ mode = "opening" /\ ~NeedsRepair(hist)
    /\ via = "open" => hist.pending = NoText
    /\ \/ /\ mode' = "prompt"
          /\ live' = hist.ctx /\ turnId' = NextTurn(hist)
          /\ conv' = (via = "switch")
          /\ hazard' = IF hist.pending = NoText THEN hazard
                       ELSE hazard \cup {"switched past the queue"}
          /\ UNCHANGED <<hist, lastError, rejected, verdict>>
       \/ /\ WriteFailed(AcceptsSetting(hist), {"switched past the queue"})
          /\ mode' = "leaving" /\ verdict' = "failed"
          /\ UNCHANGED <<live, turnId, conv>>
    /\ UNCHANGED <<pc, progress, closing, ran, via, opens, queue, loop>>

-----------------------------------------------------------------------------
(* Top of the loop of oi_cli_repl_run.                                     *)

AtPrompt == mode = "prompt" /\ slot = NoText

Goes(place) == mode' = place /\ UNCHANGED <<via, conv, verdict, opens>>
Fails == mode' = "leaving" /\ verdict' = "failed" /\ UNCHANGED <<via, conv, opens>>

(* The queue is resolved in the log before what it held is run.            *)
Dequeue ==
    /\ mode = "prompt" /\ slot # NoText
    /\ LET how == IF slot \in Commands THEN "discarded" ELSE "consumed"
           ok  == AcceptsResolved(hist, hist.pendTurn, how)
       IN  \/ /\ Wrote(ok, AfterResolved(hist, how))
              /\ IF slot \in Commands
                 THEN Goes("command") /\ slot' = NoText /\ owed' = NoText
                 ELSE Goes("have") /\ UNCHANGED <<slot, owed>>
              /\ UNCHANGED hazard
           \/ /\ WriteFailed(ok, {})
              /\ slot' = NoText /\ UNCHANGED owed
              /\ Fails
    /\ UNCHANGED <<turnId, live, pc, progress, closing, ran, draft, loop>>

(* have_message: create the conversation if there is none, start the turn. *)
StartTurn(t) ==
    /\ Start(t)
    /\ conv' = TRUE
    /\ mode' = IF pc' = "model" THEN "turn" ELSE "turnover"
    /\ turnStatus' = IF pc' = "model" THEN "ok" ELSE "loop"
    /\ asking' = FALSE /\ termSig' = FALSE
    /\ owed' = IF hist.consumed /\ hist' # hist THEN NoText ELSE owed
    /\ UNCHANGED <<via, verdict, opens, discard>>

RunTyped(t) == AtPrompt /\ StartTurn(t) /\ draft' = NoText /\ UNCHANGED slot

(* (Mutant: the slot is not emptied.)                                      *)
RunQueuedAgain == mode = "have" /\ StartTurn(slot) /\ UNCHANGED <<slot, draft>>
RunQueued == mode = "have" /\ StartTurn(slot) /\ slot' = NoText /\ UNCHANGED draft

AtCommand == AtPrompt \/ mode = "command"

(* /compact: the prefixes oi_cli_compact_select_prefix may choose.         *)
(* (Mutant: not only whole turns.)                                         *)
AllPrefixes == {p \in 1..Len(live) : \E i \in 1..p : live[i].role = "user"}

TurnPrefixes ==
    {p \in 1..Len(live) :
        /\ p = Len(live) \/ live[p + 1].role = "user"
        /\ \E i \in 1..p : live[i].role = "user"}

(* oi_cli_conversation_apply_checkpoint.  (Mutant: off by one.)            *)
ApplyCheckpointShort(p) == live' = Splice(live, p - 1)
ApplyCheckpoint(p) == live' = Splice(live, p)

(* The checkpoint is written first and then spliced into the live context. *)
Compact ==
    /\ AtCommand /\ conv
    /\ \E p \in TurnPrefixes :
          LET ok == AcceptsCheckpoint(hist, p) IN
          \/ /\ Wrote(ok, AfterCheckpoint(hist, p))
             /\ ApplyCheckpoint(p)
             /\ Goes("prompt") /\ UNCHANGED hazard
          \/ WriteFailed(ok, {}) /\ Fails /\ UNCHANGED live
    /\ draft' = NoText
    /\ UNCHANGED <<turnId, pc, progress, closing, ran, slot, owed, loop>>

(* /model, /cwd; any other command leaves all of this state alone.         *)
Setting ==
    /\ AtCommand
    /\ \/ /\ Wrote(AcceptsSetting(hist), hist)
          /\ Goes("prompt") /\ UNCHANGED hazard
       \/ WriteFailed(AcceptsSetting(hist), {}) /\ Fails
    /\ draft' = NoText
    /\ UNCHANGED <<turnId, live, pc, progress, closing, ran, slot, owed, loop>>

(* /exit, Ctrl+D, SIGTERM, or a switch to another session.                 *)
Exit ==
    /\ AtCommand
    /\ mode' = "leaving" /\ verdict' = "ok"
    /\ UNCHANGED <<convVars, via, conv, opens, queue, loop>>

-----------------------------------------------------------------------------
(* Events of a turn.                                                       *)

InBatch == mode = "turn" /\ ~discard /\ pc \in Waiting

(* A model or tool event, or what is left of a callback.                   *)
During(step) ==
    /\ step
    /\ asking' = (asking \/ pc' = "ask")
    /\ UNCHANGED <<control, queue, discard, termSig, turnStatus>>

CallbackRuns == During(mode = "turn" /\ RunOn)
TurnRuns     == CallbackRuns \/ During(InBatch /\ World)

(* handle_turn_signal: SIGINT cancels, SIGTERM and SIGHUP cancel and end   *)
(* the run.                                                                *)
Signal(terminate) ==
    /\ InBatch
    /\ Cancel \/ (pc = "idle" /\ terminate /\ UNCHANGED convVars)
    /\ termSig' = (termSig \/ terminate)
    /\ UNCHANGED <<control, queue, asking, discard, turnStatus>>

(* handle_turn_input.  While a permission question is up, every key goes   *)
(* to the selector, also when a signal has already cancelled the question. *)
Decide(allow) ==
    /\ InBatch /\ asking
    /\ Answer(allow) \/ (pc # "ask" /\ UNCHANGED convVars)
    /\ asking' = FALSE
    /\ UNCHANGED <<control, queue, discard, termSig, turnStatus>>

(* Ctrl+C cancels the turn and hands the queued text back.  (Mutant: even  *)
(* when nothing is queued.)                                                *)
CtrlCDiscards ==
    /\ InBatch /\ ~asking
    /\ Cancel
    /\ discard' = TRUE
    /\ UNCHANGED <<control, queue, asking, termSig, turnStatus>>

CtrlC ==
    /\ InBatch /\ ~asking
    /\ Cancel \/ (pc = "idle" /\ slot # NoText /\ UNCHANGED convVars)
    /\ discard' = (slot # NoText)
    /\ UNCHANGED <<control, queue, asking, termSig, turnStatus>>

(* discard_pending_on_cancel, the second half of that callback.            *)
DiscardQueue ==
    /\ mode = "turn" /\ discard /\ pc = "idle"
    /\ discard' = FALSE /\ slot' = NoText
    /\ LET ok == AcceptsResolved(hist, hist.pendTurn, "discarded") IN
       \/ /\ Wrote(ok, AfterResolved(hist, "discarded"))
          /\ draft' = slot /\ owed' = NoText
          /\ UNCHANGED <<hazard, turnStatus>>
       \/ /\ WriteFailed(ok, {})
          /\ turnStatus' = "input" /\ UNCHANGED <<draft, owed>>
    /\ UNCHANGED <<turnId, live, pc, progress, closing, ran, control,
                   asking, termSig>>

(* handle_busy_submit for anything but the read-only commands: accepted    *)
(* into an empty slot if the log takes it, and then the turn is steered.   *)
(* The typed text leaves the composer before the log is asked.             *)
Submit(t) ==
    /\ InBatch /\ ~asking /\ slot = NoText
    /\ hist.started < MaxTurns
    /\ pc = "idle" => "late" \in Mishaps
    /\ draft' = NoText
    /\ LET ok == AcceptsQueued(hist, NextTurn(hist)) IN
       \/ /\ Wrote(ok, AfterQueued(hist, NextTurn(hist), t))
          /\ slot' = t /\ owed' = t
          /\ steering' = (steering \/ pc # "idle")
          /\ UNCHANGED <<hazard, turnStatus>>
       \/ /\ WriteFailed(ok, IF pc = "idle" THEN {"late submit"} ELSE {})
          /\ turnStatus' = "input"
          /\ UNCHANGED <<slot, owed, steering>>
    /\ UNCHANGED <<turnId, live, pc, closing, ran, steps, calls, ti,
                   committed, text, control, asking, discard, termSig>>

(* The terminal is gone: the composer reports OI_ERR_CLOSED.               *)
InputCloses ==
    /\ InBatch /\ "eof" \in Mishaps
    /\ turnStatus' = "input"
    /\ UNCHANGED <<convVars, control, queue, asking, discard, termSig>>

(* The batch is over: the loop looks at the turn.                          *)
LeaveLoop ==
    /\ InBatch
    /\ pc = "idle" \/ turnStatus # "ok"
    /\ Goes("turnover")
    /\ UNCHANGED <<convVars, queue, loop>>

(* The frame cannot be drawn, whatever the turn is doing.                  *)
DrawingFails ==
    /\ InBatch /\ "present" \in Faults
    /\ turnStatus' = IF turnStatus = "ok" THEN "loop" ELSE turnStatus
    /\ Goes("turnover")
    /\ UNCHANGED <<convVars, queue, asking, discard, termSig>>

-----------------------------------------------------------------------------
(* Behind the turn loop.                                                   *)

EndOfTurn == mode = "turnover" /\ pc \in Waiting /\ turnStatus # "fault"
Cancelled == outcome = "cancelled" /\ turnStatus \in {"ok", "loop"}
Broken    == turnStatus # "ok" \/ outcome \in {"failed", "cancelled"}

(* Back to the prompt, saying why; which may fail like any output.         *)
BackToPrompt == Goes("prompt") \/ ("present" \in Faults /\ Fails)

TurnOver ==
    /\ EndOfTurn
    /\ \/ /\ termSig
          /\ mode' = "leaving" /\ verdict' = "ok"
          /\ UNCHANGED <<via, conv, opens>>
       \/ ~termSig /\ Cancelled /\ BackToPrompt
       \/ /\ ~termSig /\ ~Cancelled /\ Broken /\ pc = "idle"
          /\ IF lastError THEN Fails ELSE BackToPrompt
       \/ ~termSig /\ ~Cancelled /\ ~Broken /\ Goes("prompt")
    /\ asking' = FALSE /\ turnStatus' = "ok"
    /\ UNCHANGED <<convVars, queue, discard, termSig>>

(* A turn that is still under way is cancelled.                            *)
Unwind ==
    /\ EndOfTurn /\ ~termSig /\ Broken /\ ~Cancelled
    /\ Cancel
    /\ turnStatus' = "unwound"
    /\ UNCHANGED <<control, queue, asking, discard, termSig>>

(* What that cancel has left open is repaired.  commit_message tells       *)
(* repl_conversation_event of a message before it appends it, and the      *)
(* panel a tool message is matched with is gone with turn_input: the       *)
(* process faults in place of the append, in the log and in live.          *)
TellsOfTool == pc = "repair"

UnwindRuns ==
    /\ mode = "turnover" /\ turnStatus # "fault"
    /\ \/ ~TellsOfTool /\ RunOn /\ UNCHANGED turnStatus
       \/ TellsOfTool /\ turnStatus' = "fault" /\ UNCHANGED convVars
    /\ UNCHANGED <<control, queue, asking, discard, termSig>>

PanelIsGone == turnStatus = "fault" /\ ProcessGone("crashed")

-----------------------------------------------------------------------------
Leave == mode = "leaving" /\ ProcessGone(verdict)

Crash == mode # "exited" /\ "crash" \in Mishaps /\ ProcessGone("crashed")

Reopen(how) ==
    /\ mode = "exited" /\ opens < MaxOpens
    /\ how = "switch" => "switch" \in Mishaps
    /\ mode' = "opening" /\ via' = how /\ opens' = opens + 1
    /\ UNCHANGED <<convVars, conv, verdict, queue, loop>>

(* The model's bound on restarts, not a state the program stops in.        *)
ReplAtBound == mode = "exited" /\ opens = MaxOpens /\ UNCHANGED replVars

Prepare  == RepairOnOpen \/ SeedDraft \/ OpenDone
TakeNext == Dequeue \/ RunQueued
Finish   == \/ DiscardQueue \/ LeaveLoop \/ TurnOver
            \/ Unwind \/ UnwindRuns \/ PanelIsGone \/ Leave
User     == \/ \E t \in Text \ Commands : RunTyped(t)
            \/ Compact \/ Setting \/ Exit
            \/ \E t \in Text : Submit(t)
            \/ CtrlC \/ InputCloses
            \/ \E b \in BOOLEAN : Signal(b) \/ Decide(b)

ReplNext == \/ Prepare \/ TakeNext \/ TurnRuns \/ Finish \/ User
            \/ DrawingFails \/ Crash \/ ReplAtBound
            \/ \E how \in {"open", "switch"} : Reopen(how)

ReplSpec == ReplInit /\ [][ReplNext]_replVars

(* The code's own steps are taken; a request and a tool end some time, by  *)
(* themselves or by their timeout.  Nothing is assumed of the user.        *)
ReplFairSpec ==
    /\ ReplSpec
    /\ WF_replVars(Prepare) /\ WF_replVars(TakeNext) /\ WF_replVars(Finish)
    /\ WF_replVars(CallbackRuns)
    /\ WF_replVars(During(InBatch /\ ModelAnswers))
    /\ WF_replVars(During(InBatch /\ ToolDone))

-----------------------------------------------------------------------------
(* Types.                                                                  *)
ReplTypeOK ==
    /\ TypeOK
    /\ mode \in Modes /\ via \in {"open", "switch"}
    /\ {slot, draft, owed} \subseteq Text \cup {NoText}
    /\ {conv, asking, discard, termSig} \subseteq BOOLEAN
    /\ turnStatus \in TurnStatuses
    /\ verdict \in {"ok", "failed", "crashed"}
    /\ opens \in 1..MaxOpens

Running == mode \notin {"opening", "leaving", "exited"}

(* Whatever was lost, reopened, switched to or compacted, the context the  *)
(* model sees is the one the log restores.                                 *)
LiveMatchesLog == Running => LiveMatchesHistory

(* At the prompt the log is between turns, unless something happened that  *)
(* is known to break it.                                                   *)
PromptIsBetweenTurns ==
    mode = "prompt" /\ hazard = {} =>
        hist.phase = "user" /\ ~hist.consumed /\ turnId = NextTurn(hist)

(* The queue in memory and the queue in the log are the same queue; so a   *)
(* restart, which clears the one, has settled the other before the prompt. *)
SlotMatchesLog == Running /\ hazard = {} => slot = hist.pending

(* An input accepted into the queue stays in the log until it has become a *)
(* turn, a draft or a command taken up, through crashes and failed appends.*)
AcceptedInputIsKept == owed # NoText => hist.pending = owed

(* Once something is queued, the turn under way begins no further tool and *)
(* no further model round ahead of it.                                     *)
NothingOvertakesTheQueue ==
    [][slot # NoText /\ slot' = slot /\ mode = "turn" =>
          /\ ran' \subseteq ran
          /\ pc' = "model" => pc = "model"]_replVars

(* Queued input is eventually taken up, handed back, or left to the log by *)
(* the end of the process; no model and no tool can hold it up forever.    *)
QueueDrains == slot # NoText ~> slot = NoText

(* A turn comes back to the prompt, or ends the run, or waits for the user *)
(* to answer a permission question.                                        *)
TurnComesBack == mode = "turn" ~> mode # "turn" \/ pc = "ask"

-----------------------------------------------------------------------------
(* What the documentation says of the program and the program does not do; *)
(* see README.md, "Disagreements".                                         *)

(* docs/CLI.md: only a durable-storage or structural failure ends the run  *)
(* with an error.                                                          *)
OnlyStorageEndsTheRun ==
    mode = "leaving" /\ verdict = "failed" => "storage" \in hazard

(* docs/CLI.md: a message that was queued when the process died is handed  *)
(* back as a draft on the next open of the session, whichever way it is    *)
(* opened (cli_session_switch.c promises the same preparation).            *)
PendingIsHandedBack == AtPrompt => hist.pending = NoText

(* cli_repl.c, struct repl_event_context: turn_input is dereferenced only  *)
(* while a turn is active, as conversation events cannot fire otherwise.   *)
EventsComeWithinATurn == turnStatus # "fault"
=============================================================================
