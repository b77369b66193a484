------------------------- MODULE MCTerminalSession -------------------------
(* TerminalSession with a threshold of two polls and three outputs.        *)
EXTENDS TerminalSession

MCThreshold  == 2
MCMaxOutputs == 3
============================================================================
