---------------------------- MODULE MCLlmRequest ----------------------------
(* LlmRequest with replies that are complete, incomplete and malformed.    *)
EXTENDS LlmRequest

B(x)     == [k |-> "body", x |-> x]
Lines(s) == FlattenSeq([i \in 1..Len(s) |-> <<B(s[i]), B("nl")>>])
Good     == [k |-> "status", ok |-> TRUE]
Bad      == [k |-> "status", ok |-> FALSE]
Is(k)    == [k |-> k]
N(k, n)  == [k |-> k, n |-> n]

Sized(s)   == <<Good, N("length", Len(s)), Is("blank")>> \o s
Chunked(s, cut) ==
    <<Good, Is("chunked"), Is("blank"), N("size", cut)>> \o SubSeq(s, 1, cut)
    \o <<Is("crlf"), N("size", Len(s) - cut)>> \o SubSeq(s, cut + 1, Len(s))
    \o <<Is("crlf"), N("size", 0), Is("crlf")>>

MCReplies ==
    {Sized(Lines(<<"both", "args", "done">>)),
     Sized(Lines(<<"text", "note">>) \o <<B("done")>>),   \* no last newline
     Sized(Lines(<<"text">>)),                            \* no [DONE]
     Sized(<<B("both")>>),                                \* nor a newline
     Sized(Lines(<<"head", "done">>)),                    \* call without arguments
     Sized(Lines(<<"done", "text">>)),                    \* more after [DONE]
     Sized(Lines(<<"head", "args", "done", "note">>)),
     Sized(Lines(<<"text", "done">>)) \o Lines(<<"text">>), \* after the body
     Sized(Lines(<<"junk", "done">>)),
     Chunked(Lines(<<"text", "text", "done">>), 3),
     Chunked(Lines(<<"done">>), 1),
     <<Good, Is("chunked"), N("length", 1), Is("blank"), B("done")>>,
     <<Good, N("length", 1), N("length", 2), Is("blank"), B("done")>>,
     <<Good, Is("blank"), B("done")>>,                    \* neither of them
     <<Bad, N("length", 2), Is("blank")>> \o Lines(<<"note">>)}
=============================================================================
