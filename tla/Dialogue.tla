------------------------------ MODULE Dialogue ------------------------------
(***************************************************************************)
(* What a session is to the user, the model and the tools, whatever        *)
(* becomes of the process that serves it: one transcript, which grows by a *)
(* message at a time, each by whom it is due from.  The model is asked     *)
(* with the transcript as it stands and replies to that.  A call of a      *)
(* reply is run once or not at all, and its result does not deny it: what  *)
(* is reported as completed was run, what is reported as not executed was  *)
(* not.  The next turn begins when every call has a result and the turn is *)
(* closed; what the user says before waits, one text at most, until it is  *)
(* said in its turn or handed back.  Only turns as a whole, with nothing   *)
(* waiting, are ever replaced by a summary.                                *)
(***************************************************************************)
EXTENDS Naturals, Sequences

CONSTANTS Text,     \* what a user may say
          CallId,   \* tool calls
          Replies   \* the lists of calls a reply may carry

VARIABLES said,     \* the messages of the transcript
          due,      \* whose message is next: "user", "assistant", "tools"
          open,     \* the calls of the last reply that have no result
          ran,      \* the calls of the last reply whose process was spawned
          asked,    \* the transcripts a reply is awaited to, at most one
          waiting   \* the texts that wait for their turn, at most one

dialogue == <<said, due, open, ran, asked, waiting>>

Msg(role, arg, note) == [role |-> role, arg |-> arg, note |-> note]

Says(message) == said' = Append(said, message)

(* A session is new, or continues messages that just alternate.            *)
Init ==
    /\ \A i \in DOMAIN said :
          said[i].role = IF i % 2 = 1 THEN "user" ELSE "assistant"
    /\ due = IF Len(said) % 2 = 0 THEN "user" ELSE "assistant"
    /\ open = {} /\ ran = {} /\ asked = {} /\ waiting = {}

(* The text that waited is said once.  The request may leave with it.      *)
UserSays(text) ==
    /\ due = "user" /\ asked = {}
    /\ Says(Msg("user", text, ""))
    /\ due' = "assistant"
    /\ asked' \in {{}, {said'}}
    /\ waiting' \in {waiting, waiting \ {text}}
    /\ UNCHANGED <<open, ran>>

UserMustWait(text) ==
    /\ due # "user" /\ waiting = {}
    /\ waiting' = {text}
    /\ UNCHANGED <<said, due, open, ran, asked>>

TextIsHandedBack ==
    /\ due = "user" /\ waiting # {}
    /\ waiting' = {}
    /\ UNCHANGED <<said, due, open, ran, asked>>

ModelIsAsked ==
    /\ due = "assistant" /\ asked = {}
    /\ asked' = {said}
    /\ UNCHANGED <<said, due, open, ran, waiting>>

(* Nobody waits for the reply any longer.                                  *)
ReplyIsLost ==
    /\ asked # {}
    /\ asked' = {}
    /\ UNCHANGED <<said, due, open, ran, waiting>>

ModelSays(calls) ==
    /\ due = "assistant" /\ asked = {said}
    /\ Says(Msg("assistant", calls, ""))
    /\ due' = IF calls = <<>> THEN "user" ELSE "tools"
    /\ open' = {calls[i] : i \in DOMAIN calls} /\ ran' = {} /\ asked' = {}
    /\ UNCHANGED waiting

ToolRuns(id) ==
    /\ id \in open \ ran
    /\ ran' = ran \cup {id}
    /\ UNCHANGED <<said, due, open, asked, waiting>>

ToolSays(id, how) ==
    /\ id \in open
    /\ how = "completed" => id \in ran
    /\ how = "not_executed" => id \notin ran
    /\ Says(Msg("tool", id, how))
    /\ open' = open \ {id}
    /\ due' = IF open' = {} THEN "assistant" ELSE "tools"
    /\ UNCHANGED <<ran, asked, waiting>>

(* A turn that ends without a reply is closed in its place.                *)
TurnIsClosed ==
    /\ due = "assistant" /\ asked = {}
    /\ Says(Msg("assistant", <<>>, ""))
    /\ due' = "user"
    /\ UNCHANGED <<open, ran, asked, waiting>>

Summarised(n) ==
    /\ due = "user" /\ asked = {} /\ waiting = {}
    /\ n = Len(said) \/ said[n + 1].role = "user"
    /\ said' = <<Msg("assistant", <<>>, "summary")>> \o SubSeq(said, n + 1, Len(said))
    /\ UNCHANGED <<due, open, ran, asked, waiting>>

Next ==
    \/ \E text \in Text : UserSays(text) \/ UserMustWait(text)
    \/ TextIsHandedBack \/ ModelIsAsked \/ ReplyIsLost \/ TurnIsClosed
    \/ \E calls \in Replies : ModelSays(calls)
    \/ \E id \in CallId : ToolRuns(id)
    \/ \E id \in CallId, how \in {"completed", "unknown", "not_executed"} :
          ToolSays(id, how)
    \/ \E n \in 1..Len(said) : Summarised(n)

Spec == Init /\ [][Next]_dialogue
=============================================================================
