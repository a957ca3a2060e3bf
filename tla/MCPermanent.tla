---------------------------- MODULE MCPermanent ----------------------------
EXTENDS PermanentConnection

\* A first attempt after a delay, then a longer pause.
MCPauses == <<-1, 2>>
\* A first attempt at once, the same pause ever after.
MCOnePause == <<1>>
=============================================================================
