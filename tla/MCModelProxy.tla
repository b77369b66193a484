---------------------------- MODULE MCModelProxy ----------------------------
EXTENDS ModelProxy

\* ------------------------------------------------- the requests of the client
Block(type, n) == [type |-> type, id |-> n]
Text(n)        == Block("text", n)
Call(n)        == Block("tool_use", n)
Outcome(n)     == Block("tool_result", n)
Image          == Block("image", 0)
ToolCalls == {Message("assistant", b) : b \in {<<Call(1), Call(2)>>, <<Text(1), Call(1)>>}}
Outcomes  == {Message("user", b) : b \in {<<Outcome(1), Outcome(2)>>, <<Outcome(1), Text(2)>>,
                                         <<Text(2), Image, Outcome(1)>>}}
MCRequests == {[stream |-> FALSE, messages |-> <<Message("user", <<Text(0)>>), c, a>>] :
                c \in ToolCalls, a \in Outcomes}
              \union {[stream |-> TRUE, messages |-> <<Message("system", <<>>)>>]}
=============================================================================
