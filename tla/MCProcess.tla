----------------------------- MODULE MCProcess -----------------------------
EXTENDS Process
CONSTANTS a, b
MCChildren == {a, b}
=============================================================================
