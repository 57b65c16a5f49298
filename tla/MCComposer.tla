----------------------------- MODULE MCComposer -----------------------------
(* Composer with the keys that differ in how they are decoded or applied.  *)
EXTENDS Composer

Plain(c) == Key(<<c>>, <<Text(c)>>)
Sequence(type) == Key(CHOOSE s \in EscapeMappings[type] : TRUE, <<Event(type)>>)
Control(byte)  == Key(<<byte>>, <<Event(Controls[byte])>>)
Paste(chars)   ==
    Key(<<"esc", "[", "2", "0", "0", "~">> \o chars \o <<"esc", "[", "2", "0", "1", "~">>,
        <<Event("PASTE_BEGIN")>>
        \o [i \in 1..Len(chars) |-> IF chars[i] = "nul" THEN Event("INVALID") ELSE Text(chars[i])]
        \o <<Event("PASTE_END")>>)

MCKeys ==
    {Plain("/"), Plain("1"), Key(<<"c3", "a9">>, <<Text("e'")>>),
     Sequence("UP"), Sequence("DOWN"), Sequence("LEFT"), Sequence("DELETE"),
     Control("cr"), Control("etx"), Control("eot"), Control("del"), Control("tab"),
     Key(<<"esc">>, <<Event("ESCAPE")>>),
     Paste(<<"cr", "esc">>),
     Key(<<"/", "/">>, <<Text("/"), Text("/")>>)}         \* a literal slash
MCChars    == UNION {ToSet(k.bytes) : k \in MCKeys} \cup {"a", "b", "c", "e'", "lf", " "}
MCCommands == <<<<"/", "1">>, <<"/", "1", "1">>>>
MCSeeds    == {<<>>, <<<<"a">>, <<"a">>, <<"b">>, <<"c">>>>}
=============================================================================
