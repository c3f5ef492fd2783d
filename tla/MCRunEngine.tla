---------------------------- MODULE MCRunEngine ----------------------------
EXTENDS RunEngine

CONSTANTS check, look

MCCommands == {check, look}
\* Both commands have the word "test" in them.
BothTest == [c \in MCCommands |-> "test"]
=============================================================================
