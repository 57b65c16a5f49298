---------------------------- MODULE HistoryReplay ----------------------------
(***************************************************************************)
(* The grammar of a durable session log: cli_history_replay.c.             *)
(*                                                                         *)
(* A session log is a sequence of typed records.  Opening a session folds  *)
(* the records, one by one, through the phase machine of                   *)
(* oi_cli_history_replay, and appending a record re-runs that fold on the  *)
(* log extended by the record: the record is written only if the fold      *)
(* accepts it (cli_history_store.c).  A log that some run was able to      *)
(* write is therefore fully described by the state of the fold at its end, *)
(* and that state, the record History below, stands for the log in every   *)
(* module of this project.                                                 *)
(*                                                                         *)
(* For each kind of record there are two operators: Accepts<Kind>, the     *)
(* conditions under which the fold does not return OI_ERR_PARSE (or the    *)
(* validity check of cli_history.c OI_ERR_INVAL), and After<Kind>, the     *)
(* state it leaves.  Message and tool texts are abstracted away, except    *)
(* for the text of user input, which the queue of the REPL relates to      *)
(* later records.  Record ids are implied by the order of records.         *)
(***************************************************************************)
EXTENDS Naturals, Sequences, FiniteSets, SequencesExt

CONSTANTS CallId,   \* tool-call ids a model reply may carry
          Text,     \* texts a user may submit
          NoText    \* no pending input

ASSUME TextAssumption == NoText \notin Text

-----------------------------------------------------------------------------
(* Messages of the model context, struct oi_cli_message.                   *)

UserMsg(text)       == [role |-> "user",      arg |-> text,  note |-> ""]
AssistantMsg(calls) == [role |-> "assistant", arg |-> calls, note |-> ""]
SummaryMsg          == [role |-> "assistant", arg |-> <<>>,  note |-> "summary"]
ToolMsg(id, result) == [role |-> "tool",      arg |-> id,    note |-> result]

(* enum oi_cli_history_tool_outcome and oi_cli_history_message_source.     *)
Outcome == {"completed", "unknown", "not_executed"}
Source  == {"normal", "repair"}

Phase == {"user", "assistant", "tools"}

Message == [role : {"user", "assistant", "tool"},
            arg  : Text \cup CallId \cup Seq(CallId),
            note : {"", "summary"} \cup Outcome]

(* struct replay_builder.  The turn being recorded is always the last one  *)
(* started (current_turn_id is 0 exactly in phase "user").                 *)
History ==
    [phase    : Phase,             \* what the next message must be
     started  : Nat,               \* last_started_turn_id
     calls    : Seq(CallId),       \* tools[]: the calls of the round being answered
     began    : SUBSET CallId,     \* those with a TOOL_STARTED record
     resolved : SUBSET CallId,     \* those with a result
     partial  : BOOLEAN,           \* partial_seen
     pending  : Text \cup {NoText},\* state.pending_input
     pendTurn : Nat,               \* state.pending_input_turn_id
     consumed : BOOLEAN,           \* queue_consumed
     ctx      : Seq(Message)]      \* state.context[].message

EmptyHistory ==
    [phase |-> "user", started |-> 0,
     calls |-> <<>>, began |-> {}, resolved |-> {}, partial |-> FALSE,
     pending |-> NoText, pendTurn |-> 0, consumed |-> FALSE, ctx |-> <<>>]

(* A log written before typed records existed: n messages alternating user *)
(* and assistant, the last of them possibly a user message nobody answered,*)
(* with the transition record that opening it puts behind them.            *)
LegacyHistory(n, text) ==
    [EmptyHistory EXCEPT
        !.phase   = IF n % 2 = 0 THEN "user" ELSE "assistant",
        !.started = (n + 1) \div 2,
        !.ctx     = [i \in 1..n |-> IF i % 2 = 1 THEN UserMsg(text)
                                                 ELSE AssistantMsg(<<>>)]]

NextTurn(h) == h.started + 1

(* oi_cli_history_replay's needs_repair and publish_unresolved.  (Mutant:  *)
(* only tool calls are looked for.)                                        *)
NeedsRepairForCalls(h) == h.phase = "tools"
NeedsRepair(h) == h.phase # "user"
Unresolved(h)  == {i \in DOMAIN h.calls : h.calls[i] \notin h.resolved}

DistinctCalls(calls) ==
    \A i, j \in DOMAIN calls : calls[i] = calls[j] => i = j

-----------------------------------------------------------------------------
(* User messages.  A queued input that was marked consumed admits exactly  *)
(* the message it announced.                                               *)
AcceptsUser(h, turn, text) ==
    /\ h.phase = "user"
    /\ turn = NextTurn(h)
    /\ h.consumed => h.pending = text /\ h.pendTurn = turn

AfterUser(h, turn, text) ==
    [h EXCEPT !.phase    = "assistant",
              !.started  = turn,
              !.partial  = FALSE,
              !.pending  = IF h.consumed THEN NoText ELSE h.pending,
              !.pendTurn = IF h.consumed THEN 0 ELSE h.pendTurn,
              !.consumed = FALSE,
              !.ctx      = Append(h.ctx, UserMsg(text))]

(* Assistant messages.  After a partial reply only a repair may follow.    *)
AcceptsAssistant(h, turn, source, calls) ==
    /\ h.phase = "assistant"
    /\ turn = h.started
    /\ ~h.consumed
    /\ h.partial => source = "repair"
    /\ DistinctCalls(calls)

AfterAssistant(h, calls) ==
    [h EXCEPT !.phase    = IF calls = <<>> THEN "user" ELSE "tools",
              !.calls    = calls,
              !.began    = {},
              !.resolved = {},
              !.partial  = FALSE,
              !.ctx      = Append(h.ctx, AssistantMsg(calls))]

(* Tool results.  A result must agree with whether the call was recorded   *)
(* as started, a completed result carries the raw output of a real run,    *)
(* and a repair never carries raw output.                                  *)
ValidToolRecord(outcome, source, raw) ==
    \/ source = "normal" /\ outcome = "completed" /\ raw
    \/ source = "normal" /\ outcome = "unknown"
    \/ source = "normal" /\ outcome = "not_executed" /\ ~raw
    \/ source = "repair" /\ outcome # "completed" /\ ~raw

AcceptsTool(h, turn, id, outcome, source, raw) ==
    /\ ValidToolRecord(outcome, source, raw)
    /\ h.phase = "tools"
    /\ turn = h.started
    /\ ~h.consumed
    /\ id \in ToSet(h.calls) \ h.resolved
    /\ (outcome = "not_executed") <=> (id \notin h.began)

AfterTool(h, id, outcome) ==
    LET answered == h.resolved \cup {id}
        allDone  == ToSet(h.calls) \subseteq answered
    IN  [h EXCEPT !.phase    = IF allDone THEN "assistant" ELSE "tools",
                  !.calls    = IF allDone THEN <<>> ELSE h.calls,
                  !.began    = IF allDone THEN {} ELSE h.began,
                  !.resolved = IF allDone THEN {} ELSE answered,
                  !.ctx      = Append(h.ctx, ToolMsg(id, outcome))]

(* The write-ahead note that a call is about to run.                       *)
AcceptsStarted(h, turn, id) ==
    /\ h.phase = "tools"
    /\ turn = h.started
    /\ ~h.consumed
    /\ id \in ToSet(h.calls) \ (h.began \cup h.resolved)

(* (Mutant: the start of the call is not noted.)                           *)
AfterStartedUnnoted(h, id) == h
AfterStarted(h, id) == [h EXCEPT !.began = h.began \cup {id}]

(* The text of a reply that was cut off.                                   *)
AcceptsPartial(h, turn) ==
    /\ h.phase = "assistant"
    /\ turn = h.started
    /\ ~h.consumed
    /\ ~h.partial

AfterPartial(h) == [h EXCEPT !.partial = TRUE]

-----------------------------------------------------------------------------
(* The one-slot input queue.                                               *)

AcceptsQueued(h, turn) ==
    /\ h.phase # "user"
    /\ h.pending = NoText
    /\ ~h.consumed
    /\ turn = NextTurn(h)

AfterQueued(h, turn, text) ==
    [h EXCEPT !.pending = text, !.pendTurn = turn]

(* The record names the queued record it resolves; as at most one is ever  *)
(* pending and the callers keep its id, the id always matches.             *)
AcceptsResolved(h, turn, how) ==
    /\ h.phase = "user"
    /\ h.pending # NoText
    /\ turn = h.pendTurn
    /\ h.consumed => how = "discarded"

(* A consumed input stays pending until its user message is in the log, so *)
(* that a crash between the two records loses nothing.  (Mutant: it does   *)
(* not.)                                                                   *)
AfterResolvedAtOnce(h, how) ==
    [h EXCEPT !.pending = NoText, !.pendTurn = 0, !.consumed = FALSE]

AfterResolved(h, how) ==
    IF how = "consumed"
    THEN [h EXCEPT !.consumed = TRUE]
    ELSE [h EXCEPT !.pending = NoText, !.pendTurn = 0, !.consumed = FALSE]

(* Between turns, with nothing queued: /compact and a setting change.  The *)
(* source range of a checkpoint is given by the length of the prefix of    *)
(* the context it covers.                                                  *)
BetweenTurns(h) == h.phase = "user" /\ h.pending = NoText /\ ~h.consumed

AcceptsCheckpoint(h, prefix) ==
    BetweenTurns(h) /\ prefix \in 1..Len(h.ctx)

Splice(context, prefix) ==
    <<SummaryMsg>> \o SubSeq(context, prefix + 1, Len(context))

AfterCheckpoint(h, prefix) == [h EXCEPT !.ctx = Splice(h.ctx, prefix)]

AcceptsSetting(h) == BetweenTurns(h)

=============================================================================
