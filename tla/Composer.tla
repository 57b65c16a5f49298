------------------------------ MODULE Composer ------------------------------
(***************************************************************************)
(* Terminal input: cli_composer.c with the decoder, the line editor, the   *)
(* prompt and the input history it is made of, and the two selectors.      *)
(*                                                                         *)
(* Bytes come from the terminal cut anywhere.  One buffer and one decoder  *)
(* serve four readers in turn: the prompt between turns, the prompt during *)
(* a turn, the permission selector and the confirmation selector.  What    *)
(* one of them leaves in the buffer is the next one's to decode.           *)
(*                                                                         *)
(* Left out: drawing (and with it prompt_state.pasting, which only holds   *)
(* drawing back), signals, and the limits of the buffer (4096 bytes), of   *)
(* the draft (1 MiB) and of the history in bytes (4 MiB).                  *)
(***************************************************************************)
EXTENDS Naturals, SequencesExt

CONSTANTS Chars,       \* bytes and characters
          Keys,        \* what the user may press, see Key
          Commands,    \* names of the commands, in the order of their table
          Seeds,       \* messages of the session when its history is built
          HistoryMax,  \* OI_CLI_INPUT_HISTORY_MAX_ENTRIES
          MaxPressed   \* bound of the model: keys pressed

ASSUME ComposerAssumption ==
    /\ {"lf", " ", "e'"} \subseteq Chars
    /\ \A k \in Keys : k.bytes \in Seq(Chars)
    /\ Commands \in Seq(Seq(Chars)) /\ Seeds \subseteq Seq(Seq(Chars))
    /\ HistoryMax \in Nat \ {0} /\ MaxPressed \in Nat

VARIABLES
    tty,      \* bytes pressed and not yet read
    input,    \* composer.input, its first input_len bytes
    pasting,  \* decoder.pasting
    editor,   \* struct oi_cli_editor, its text as characters
    menu,     \* command_matches and command_selection of the prompt
    history,  \* struct oi_cli_input_history
    reader,   \* who reads: "idle", "busy", "permission", "select", "closed"
    at,       \* "decode" in its inner loop, "wait" for bytes or the timeout
    timer,    \* escape_timer is running (readers "busy" and "permission")
    option,   \* the option selected, from 0
    queued,   \* pending.text of the turn
    pressed,  \* keys pressed
    owed,     \* ghost: events of pressed keys not yet decoded
    hearing,  \* ghost: "whole", "torn" or "wrong", see Compare
    walk      \* ghost: the first walk through the history since a submission

prompt == <<editor, menu, history, walk, queued>>
vars == <<tty, input, pasting, editor, menu, history, reader, at, timer, option,
          queued, pressed, owed, hearing, walk>>

Nothing == <<>>
Event(type) == [type |-> type, text |-> Nothing]
Text(c)     == [type |-> "TEXT", text |-> c]
Key(bytes, means) == [bytes |-> bytes, means |-> means]

-----------------------------------------------------------------------------
(* The decoder, cli_input.c.  Its result: an event, the bytes it takes and *)
(* the paste state after it; the event AGAIN asks for more bytes.          *)

Decoded(event, n, paste) == [event |-> event, consumed |-> n, pasting |-> paste]
Again(paste)   == Decoded(Event("AGAIN"), 0, paste)
Invalid(paste) == Decoded(Event("INVALID"), 1, paste)

(* escape_mappings *)
EscapeMappings ==
    [UP |-> {<<"esc", "[", "A">>}, DOWN |-> {<<"esc", "[", "B">>},
     RIGHT |-> {<<"esc", "[", "C">>}, LEFT |-> {<<"esc", "[", "D">>},
     HOME |-> {<<"esc", "[", "H">>, <<"esc", "[", "1", "~">>, <<"esc", "[", "7", "~">>},
     END |-> {<<"esc", "[", "F">>, <<"esc", "[", "4", "~">>, <<"esc", "[", "8", "~">>},
     DELETE |-> {<<"esc", "[", "3", "~">>},
     PASTE_BEGIN |-> {<<"esc", "[", "2", "0", "0", "~">>}]
PasteEnd == <<"esc", "[", "2", "0", "1", "~">>

Controls ==
    [cr |-> "ENTER", lf |-> "NEWLINE", etx |-> "CTRL_C", eot |-> "CTRL_D",
     del |-> "BACKSPACE", tab |-> "TAB", soh |-> "HOME", enq |-> "END"]

(* "c3" "a9" stands for every character of several bytes. *)
DecodeText(bytes, paste) ==
    CASE bytes[1] = "c3" /\ Len(bytes) = 1 -> Again(paste)
      [] bytes[1] = "c3" /\ Len(bytes) > 1 /\ bytes[2] = "a9" ->
           Decoded(Text("e'"), 2, paste)
      [] \/ bytes[1] = "a9"
         \/ bytes[1] = "c3" /\ Len(bytes) > 1 /\ bytes[2] # "a9" -> Invalid(paste)
      [] bytes[1] \notin {"c3", "a9"} -> Decoded(Text(bytes[1]), 1, paste)

DecodeEscape(bytes) ==
    LET Whole(t) == {s \in EscapeMappings[t] : IsPrefix(s, bytes)}
        whole == {t \in DOMAIN EscapeMappings : Whole(t) # {}}
        begun == \E t \in DOMAIN EscapeMappings : \E s \in EscapeMappings[t] :
                     IsStrictPrefix(bytes, s)
    IN IF whole # {}
         THEN LET t == CHOOSE t \in whole : TRUE
                  s == CHOOSE s \in Whole(t) : TRUE
              IN Decoded(Event(t), Len(s), t = "PASTE_BEGIN")
         ELSE IF begun \/ Len(bytes) = 1 THEN Again(FALSE) ELSE Invalid(FALSE)

(* Mutant: the end of a paste cut by a read is taken for text. *)
CutEndIsText(bytes) ==
    CASE IsPrefix(PasteEnd, bytes) ->
           Decoded(Event("PASTE_END"), Len(PasteEnd), FALSE)
      [] bytes[1] = "nul" -> Invalid(TRUE)
      [] OTHER -> DecodeText(bytes, TRUE)

DecodePasted(bytes) ==
    CASE IsStrictPrefix(bytes, PasteEnd) -> Again(TRUE)
      [] IsPrefix(PasteEnd, bytes) ->
           Decoded(Event("PASTE_END"), Len(PasteEnd), FALSE)
      [] bytes[1] = "nul" -> Invalid(TRUE)
      [] OTHER -> DecodeText(bytes, TRUE)

Decode(bytes, paste) ==
    CASE paste -> DecodePasted(bytes)
      [] ~paste /\ bytes[1] = "esc" -> DecodeEscape(bytes)
      [] ~paste /\ bytes[1] \in DOMAIN Controls ->
           Decoded(Event(Controls[bytes[1]]), 1, FALSE)
      [] ~paste /\ bytes[1] = "nul" -> Invalid(FALSE)
      [] OTHER -> DecodeText(bytes, FALSE)

(* What a break of the loop over the buffer leaves to wait for. *)
Starved == input # <<>> => Decode(input, pasting).event.type = "AGAIN"

(* What the terminal sends for one event, in a paste and outside: by the   *)
(* tables above, and text as it is unless it means something else.         *)
Encodes(s, event, paste) ==
    \/ /\ Len(s) = 1 /\ event = Text(s[1]) /\ s[1] \notin {"c3", "a9", "nul"}
       /\ ~paste => s[1] \notin {"esc"} \cup DOMAIN Controls
    \/ s = <<"c3", "a9">> /\ event = Text("e'")
    \/ s = <<"nul">> /\ event = Event("INVALID")
    \/ paste /\ s = PasteEnd /\ event = Event("PASTE_END")
    \/ ~paste /\ s = <<"esc">> /\ event = Event("ESCAPE")
    \/ ~paste /\ \E c \in DOMAIN Controls : s = <<c>> /\ event = Event(Controls[c])
    \/ ~paste /\ \E t \in DOMAIN EscapeMappings :
                    s \in EscapeMappings[t] /\ event = Event(t)

PastesAfter(paste, event) ==
    event.type = "PASTE_BEGIN" \/ (paste /\ event.type # "PASTE_END")

(* The bytes of several events, one after the other, that do not end in a  *)
(* paste: pasted text does not hold the end of a paste, and an Escape is   *)
(* only known for one when nothing follows.                                *)
Sends(bytes, events, paste) ==
    LET n == Len(events)
    IN \E mode \in [0..n -> BOOLEAN] :
        /\ mode[0] = paste /\ mode[n] = FALSE
        /\ \A i \in 1..n : mode[i] = PastesAfter(mode[i - 1], events[i])
        /\ \E cut \in [0..n -> 0..Len(bytes)] :
             /\ cut[0] = 0 /\ cut[n] = Len(bytes)
             /\ \A i \in 1..n :
                  /\ cut[i - 1] < cut[i]
                  /\ Encodes(SubSeq(bytes, cut[i - 1] + 1, cut[i]), events[i], mode[i - 1])
                  /\ mode[i - 1] /\ events[i] = Text("esc") =>
                       /\ cut[i - 1] + Len(PasteEnd) <= Len(bytes)
                       /\ SubSeq(bytes, cut[i - 1] + 1, cut[i - 1] + Len(PasteEnd)) # PasteEnd
                  /\ events[i] = Event("ESCAPE") => i = n

Meaning ==
    {Text(c) : c \in Chars}
    \cup {Event(type) : type \in DOMAIN EscapeMappings \cup {Controls[c] : c \in DOMAIN Controls}
                                \cup {"PASTE_END", "INVALID", "ESCAPE"}}

ASSUME KeysAssumption ==
    \A k \in Keys : k.means \in Seq(Meaning) /\ Sends(k.bytes, k.means, FALSE)

(* oi_cli_composer_escape_pending *)
EscapePending(bytes, paste) == bytes # <<>> /\ bytes[1] = "esc" /\ ~paste

-----------------------------------------------------------------------------
(* The line editor, cli_editor.c: the cursor is between 0 and Len(text).   *)

NoText == [text |-> <<>>, cursor |-> 0]
SetTo(text) == [text |-> text, cursor |-> Len(text)]

Insert(e, c) ==
    [text |-> InsertAt(e.text, e.cursor + 1, c), cursor |-> e.cursor + 1]
MoveLeft(e)  == IF e.cursor = 0 THEN e ELSE [e EXCEPT !.cursor = @ - 1]
MoveRight(e) == IF e.cursor = Len(e.text) THEN e ELSE [e EXCEPT !.cursor = @ + 1]
LineStart(e) ==
    [e EXCEPT !.cursor = Max({0} \cup {i \in 1..@ : e.text[i] = "lf"})]
LineEnd(e) ==
    [e EXCEPT !.cursor =
        Min({Len(e.text)} \cup {i \in @..Len(e.text) - 1 : e.text[i + 1] = "lf"})]
(* Mutant: the cursor stays where the character was. *)
CursorStays(e) ==
    IF e.cursor = 0 THEN e ELSE [e EXCEPT !.text = RemoveAt(@, e.cursor)]

Backspace(e) ==
    IF e.cursor = 0 THEN e
    ELSE [text |-> RemoveAt(e.text, e.cursor), cursor |-> e.cursor - 1]
Delete(e) ==
    IF e.cursor = Len(e.text) THEN e
    ELSE [e EXCEPT !.text = RemoveAt(@, e.cursor + 1)]

-----------------------------------------------------------------------------
(* The input history, cli_input_history.c: entries count from 1 here, so   *)
(* that navigation_index is index - 1.                                     *)

Reset(entries) ==
    [entries |-> entries, index |-> Len(entries) + 1, navigating |-> FALSE,
     draft |-> <<>>]

HistoryAppend(h, text) ==
    IF h.entries # <<>> /\ Last(h.entries) = text THEN Reset(h.entries)
    ELSE Reset(Append(IF Len(h.entries) >= HistoryMax THEN Tail(h.entries)
                      ELSE h.entries, text))

(* The history of a session that is opened. *)
Loaded(seed) ==
    LET loaded[i \in 0..Len(seed)] ==
            IF i = 0 THEN Reset(<<>>) ELSE HistoryAppend(loaded[i - 1], seed[i])
    IN loaded[Len(seed)]

HasPrevious(h) == h.entries # <<>> /\ ~(h.navigating /\ h.index = 1)
(* Mutant: every step back keeps what is shown as the draft. *)
DraftEveryStep(h, text) ==
    [h EXCEPT !.navigating = TRUE, !.draft = text, !.index = @ - 1]

HistoryPrevious(h, text) ==
    LET begun == IF h.navigating THEN h
                 ELSE [h EXCEPT !.navigating = TRUE, !.draft = text]
    IN [begun EXCEPT !.index = @ - 1]

HasNext(h) == h.navigating /\ h.index # Len(h.entries) + 1
HistoryNext(h) == [h EXCEPT !.index = @ + 1]

Shown(h) == IF h.index = Len(h.entries) + 1 THEN h.draft ELSE h.entries[h.index]

-----------------------------------------------------------------------------
(* The prompt, cli_prompt_state.c.  Its result: the editor, the menu and   *)
(* the history after an event, and the action for the reader.              *)

(* A message that begins with a slash, "//x" for "/x".                     *)
LiteralSlash(text) == Len(text) > 1 /\ text[1] = "/" /\ text[2] = "/"

(* oi_cli_command_filter: the commands the text is a prefix of. *)
Filter(text) ==
    LET found[i \in 0..Len(Commands)] ==
            IF i = 0 THEN <<>>
            ELSE IF IsPrefix(text, Commands[i]) THEN Append(found[i - 1], Commands[i])
            ELSE found[i - 1]
    IN IF text = <<>> \/ text[1] # "/" \/ LiteralSlash(text) THEN <<>>
       ELSE found[Len(Commands)]

Refresh(e) ==
    [matches |-> Filter(e.text),
     selection |-> IF menu.selection >= Len(Filter(e.text)) THEN 0
                   ELSE menu.selection]

Then(e, m, h, action) ==
    [editor |-> e, menu |-> m, history |-> h, action |-> action]
Edit(e)     == Then(e, Refresh(e), history, "NONE")
MoveTo(e)   == Then(e, menu, history, "NONE")
Select(i)   == Then(editor, [menu EXCEPT !.selection = i], history, "NONE")
Act(action) == Then(editor, menu, history, action)
Show(h)     == LET e == SetTo(Shown(h)) IN Then(e, Refresh(e), h, "NONE")

Chosen    == menu.matches[menu.selection + 1]
MenuOpen  == menu.matches # <<>>
Complete  == Edit(SetTo(Append(Chosen, " ")))

Apply(event) ==
    LET type == event.type
        Is(ts, cond) == type \in ts /\ cond
    IN CASE type = "TEXT"      -> Edit(Insert(editor, event.text))
         [] type = "NEWLINE"   -> Edit(Insert(editor, "lf"))
         [] type = "BACKSPACE" -> Edit(Backspace(editor))
         [] type = "LEFT"      -> MoveTo(MoveLeft(editor))
         [] type = "RIGHT"     -> MoveTo(MoveRight(editor))
         [] type = "HOME"      -> MoveTo(LineStart(editor))
         [] type = "END"       -> MoveTo(LineEnd(editor))
         [] type = "CTRL_C"    -> Edit(NoText)
         [] Is({"ENTER"}, MenuOpen /\ editor.text # Chosen) -> Complete
         [] Is({"ENTER"}, editor.text # <<>>
                          /\ (MenuOpen => editor.text = Chosen)) -> Act("SUBMIT")
         [] Is({"TAB"}, MenuOpen) -> Complete
         [] Is({"UP"}, MenuOpen) ->
              Select(IF menu.selection = 0 THEN Len(menu.matches) - 1
                     ELSE menu.selection - 1)
         [] Is({"DOWN"}, MenuOpen) ->
              Select((menu.selection + 1) % Len(menu.matches))
         [] Is({"UP"}, ~MenuOpen /\ HasPrevious(history)) ->
              Show(HistoryPrevious(history, editor.text))
         [] Is({"DOWN"}, ~MenuOpen /\ HasNext(history)) -> Show(HistoryNext(history))
         [] Is({"CTRL_D"}, editor.text = <<>>) -> Act("EXIT")
         [] Is({"DELETE", "CTRL_D"}, type = "DELETE" \/ editor.text # <<>>) ->
              Edit(Delete(editor))
         [] OTHER -> Act("NONE")

(* A decided selector returns 1 from its callback or leaves its loop. *)
Options == IF reader = "permission" THEN 3 ELSE 2
Digit(event) ==
    {i \in 0..Options - 1 : event = Text(<<"1", "2", "3">>[i + 1])}

Pick(event) ==
    LET To(i) == [option |-> i, decided |-> FALSE]
    IN CASE event.type = "UP" ->
              To(IF option = 0 THEN Options - 1 ELSE option - 1)
         [] event.type = "DOWN" -> To((option + 1) % Options)
         [] event.type \in {"ENTER", "ESCAPE", "CTRL_C"} ->
              [option |-> option, decided |-> TRUE]
         [] Digit(event) # {} ->
              [option |-> CHOOSE i \in Digit(event) : TRUE, decided |-> TRUE]
         [] OTHER -> To(option)

-----------------------------------------------------------------------------
Init ==
    \E seed \in Seeds :
        /\ tty = <<>> /\ pressed = 0
        /\ input = <<>> /\ pasting = FALSE
        /\ editor = NoText
        /\ menu = [matches |-> <<>>, selection |-> 0]
        /\ history = Loaded(seed)
        /\ reader = "idle" /\ at = "decode" /\ timer = FALSE
        /\ option = 0 /\ queued = <<>>
        /\ owed = <<>> /\ hearing = "whole"
        /\ walk = [stage |-> "none", had |-> <<>>]

(* The user presses a key; its bytes are on their way.  An Escape that the *)
(* next key follows at once is not to be told from a sequence.             *)
Press(k) ==
    /\ pressed < MaxPressed /\ reader # "closed"
    /\ pressed' = pressed + 1
    /\ tty' = tty \o k.bytes
    /\ owed' = owed \o k.means
    /\ hearing' = IF owed # <<>> /\ Last(owed) = Event("ESCAPE") THEN "torn"
                  ELSE hearing
    /\ UNCHANGED <<input, pasting, reader, at, timer, option>>
    /\ UNCHANGED prompt

(* read(), which finds the bytes that have arrived.  The handler of a turn *)
(* cancels its timer first.                                                *)
Read ==
    /\ at = "wait" /\ reader # "closed" /\ tty # <<>>
    /\ \E n \in 1..Len(tty) :
        /\ input' = input \o SubSeq(tty, 1, n)
        /\ tty' = SubSeq(tty, n + 1, Len(tty))
    /\ at' = "decode" /\ timer' = FALSE
    /\ UNCHANGED <<pressed, pasting, reader, option, owed, hearing>>
    /\ UNCHANGED prompt

(* Nothing (more) to decode: poll(), or back to the reactor with a timer.  *)
Starve ==
    /\ at = "decode" /\ reader # "closed" /\ Starved
    /\ at' = "wait"
    /\ timer' = (reader \in {"busy", "permission"} /\ EscapePending(input, pasting))
    /\ UNCHANGED <<tty, pressed, input, pasting, reader, option, owed, hearing>>
    /\ UNCHANGED prompt

(* Compares the event taken with the next one the user's keys mean. *)
Compare(event) ==
    /\ owed' = IF owed = <<>> THEN owed ELSE Tail(owed)
    /\ hearing' = IF hearing = "whole" /\ (owed = <<>> \/ Head(owed) # event)
                  THEN "wrong" ELSE hearing

(* The readers ----------------------------------------------------------- *)

(* oi_cli_prompt_state_commit *)
Commit ==
    /\ history' = HistoryAppend(history, editor.text)
    /\ editor' = NoText
    /\ menu' = Refresh(NoText)
    /\ walk' = [stage |-> "none", had |-> <<>>]

(* A walk begins with the first Up out of the draft and is over when Down  *)
(* has gone past the newest entry ("back") or the draft is given up.       *)
Walked(event, then) ==
    CASE walk.stage = "none" /\ event.type = "UP" /\ ~MenuOpen /\ history.entries # <<>> ->
           [stage |-> "first", had |-> editor.text]
      [] /\ walk.stage = "first" /\ event.type = "DOWN" /\ then.history # history
         /\ then.history.index = Len(history.entries) + 1 -> [walk EXCEPT !.stage = "back"]
      [] walk.stage = "first" /\ event.type = "CTRL_C" -> [walk EXCEPT !.stage = "left"]
      [] OTHER -> walk

Applies(event, then) ==
    /\ editor' = then.editor
    /\ menu' = then.menu
    /\ history' = then.history
    /\ walk' = Walked(event, then)

(* apply_event: a submission returns to the loop of the REPL, which begins *)
(* a turn, has the user confirm a command, or prompts again.               *)
AtPrompt(event) ==
    LET then == Apply(event)
    IN /\ reader = "idle"
       /\ CASE then.action = "NONE" ->
                 /\ Applies(event, then)
                 /\ UNCHANGED <<reader, at>>
            [] then.action = "EXIT" ->
                 /\ reader' = "closed" /\ at' = "wait"
                 /\ UNCHANGED <<editor, menu, history, walk>>
            [] then.action = "SUBMIT" ->
                 /\ Commit
                 /\ reader' \in {"idle", "busy", "select"}
                 /\ at' = IF reader' = "busy" THEN "wait" ELSE "decode"
       /\ UNCHANGED <<timer, option, queued>>

(* classify_event and handle_turn_input: a decisive key ends the feeding.  *)
(* What is submitted takes the one slot, or runs at once (a read-only or   *)
(* an unknown command), or is refused and stays the draft.                 *)
(* A literal slash is queued without the slash that marks it.              *)
Meant(text) == IF LiteralSlash(text) THEN Tail(text) ELSE text

DuringTurn(event) ==
    LET then == Apply(event)
    IN /\ reader = "busy"
       /\ \/ /\ then.action = "NONE" /\ event.type # "CTRL_C"
             /\ Applies(event, then)
             /\ UNCHANGED <<at, queued>>
          \/ /\ event.type = "CTRL_C" /\ queued = <<>>
             /\ Applies(event, then)
             /\ at' = "wait"
             /\ UNCHANGED queued
          \/ /\ event.type = "CTRL_C" /\ queued # <<>>   \* discard_pending_on_cancel
             /\ editor' = SetTo(queued) /\ queued' = <<>>
             /\ menu' = then.menu /\ UNCHANGED history
             /\ walk' = Walked(event, then)
             /\ at' = "wait"
          \/ /\ then.action = "EXIT"
             /\ at' = "wait"
             /\ UNCHANGED prompt
          \/ /\ then.action = "SUBMIT" /\ queued = <<>>
             /\ Commit /\ queued' = Meant(editor.text)
             /\ at' = "wait"
          \/ /\ then.action = "SUBMIT"
             /\ editor.text[1] = "/" /\ ~LiteralSlash(editor.text)
             /\ Commit /\ UNCHANGED queued
             /\ at' = "wait"
          \/ /\ then.action = "SUBMIT" /\ queued # <<>>
             /\ at' = "wait"
             /\ UNCHANGED prompt
       /\ timer' = (at' = "wait" /\ EscapePending(input', pasting'))
       /\ UNCHANGED <<reader, option>>

(* permission_selector_key and oi_cli_composer_select *)
InSelector(event) ==
    LET pick == Pick(event)
    IN /\ reader \in {"permission", "select"}
       /\ option' = IF pick.decided THEN 0 ELSE pick.option
       /\ reader' = CASE ~pick.decided -> reader
                      [] pick.decided /\ reader = "permission" -> "busy"
                      [] pick.decided /\ reader = "select" -> "idle"
       /\ at' = IF pick.decided /\ reader = "permission" THEN "wait" ELSE at
       /\ timer' = (at' = "wait" /\ reader = "permission"
                    /\ EscapePending(input', pasting'))
       /\ UNCHANGED prompt

Take(event) == AtPrompt(event) \/ DuringTurn(event) \/ InSelector(event)

Hear ==
    LET d == Decode(input, pasting)
    IN /\ at = "decode" /\ reader # "closed" /\ ~Starved
       /\ input' = SubSeq(input, d.consumed + 1, Len(input))
       /\ pasting' = d.pasting
       /\ Compare(d.event)
       /\ Take(d.event)
       /\ UNCHANGED <<tty, pressed>>

(* The escape timeout, of poll() or of the reactor's timer: the first byte *)
(* is an Escape, whatever follows it.  The bytes of a key take less time.  *)
Timeout ==
    /\ at = "wait" /\ tty = <<>> /\ EscapePending(input, pasting)
    /\ timer \/ reader \in {"idle", "select"}
    /\ input' = Tail(input)
    /\ IF Len(input) > 1
         THEN hearing' = "torn" /\ UNCHANGED owed
         ELSE Compare(Event("ESCAPE"))
    /\ timer' = FALSE
    /\ \/ /\ reader \in {"select", "permission"}     \* cancels the selector
          /\ reader' = IF reader = "select" THEN "idle" ELSE "busy"
          /\ option' = 0
       \/ /\ reader \in {"idle", "busy"}
          /\ UNCHANGED <<reader, option>>
    /\ at' = IF reader \in {"idle", "select"} THEN "decode" ELSE "wait"
    /\ UNCHANGED <<tty, pressed, pasting>>
    /\ UNCHANGED prompt

(* The turn --------------------------------------------------------------- *)

(* A tool call waits for a decision: repl_conversation_event. *)
AskPermission ==
    /\ reader = "busy" /\ at = "wait"
    /\ reader' = "permission" /\ option' = 0
    /\ UNCHANGED <<tty, pressed, input, pasting, at, timer, owed, hearing>>
    /\ UNCHANGED prompt

(* The turn is over (a signal ends it at the selector too): the queued     *)
(* text runs, or the prompt comes back.  The timer is cancelled.           *)
TurnEnds ==
    /\ reader \in {"busy", "permission"} /\ at = "wait"
    /\ queued' = <<>>
    /\ reader' \in IF queued = <<>> THEN {"idle"} ELSE {"idle", "busy", "select"}
    /\ at' = IF reader' = "busy" THEN "wait" ELSE "decode"
    /\ timer' = FALSE /\ option' = 0
    /\ UNCHANGED <<tty, pressed, input, pasting, owed, hearing>>
    /\ UNCHANGED <<editor, menu, history, walk>>

Next ==
    \/ \E k \in Keys : Press(k)
    \/ Read \/ Starve \/ Hear \/ Timeout \/ AskPermission \/ TurnEnds

Spec == Init /\ [][Next]_vars

-----------------------------------------------------------------------------
TypeOK ==
    /\ editor.cursor \in 0..Len(editor.text)
    /\ menu.selection \in 0..Len(menu.matches)
    /\ menu.matches # <<>> => menu.selection < Len(menu.matches)
    /\ history.index \in 1..Len(history.entries) + 1
    /\ Len(history.entries) <= HistoryMax
    /\ \A i \in 2..Len(history.entries) : history.entries[i] # history.entries[i - 1]
    /\ reader \in {"idle", "busy", "permission", "select", "closed"}
    /\ at \in {"decode", "wait"}
    /\ timer => reader \in {"busy", "permission"}
    /\ option \in 0..Options - 1
    /\ hearing \in {"whole", "torn", "wrong"}

(* However the bytes are cut and whoever reads them, the events taken are  *)
(* those the pressed keys mean, in order, none lost and none twice; a      *)
(* paste is text to its last byte.  Excepted is what follows an Escape     *)
(* taken, or pressed, on top of other bytes (cli_input.c 138-203,          *)
(* cli_composer.c 188-216 and 395-415: what stays in the buffer is the     *)
(* next reader's).                                                         *)
KeysArriveWhole ==
    /\ hearing # "wrong"
    /\ hearing = "whole" /\ tty = <<>> /\ input = <<>> => owed = <<>>

(* Walking past the newest entry restores the draft the user had when the  *)
(* walk began, whatever was shown or edited on the way and whichever       *)
(* reader took the keys: for the first walk since the last submission      *)
(* (cli_input_history.c 107-203).                                          *)
DraftComesBack ==
    [][walk.stage = "first" /\ walk'.stage = "back" => editor'.text = walk.had]_vars
=============================================================================
