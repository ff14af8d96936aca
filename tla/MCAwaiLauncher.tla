--------------------------- MODULE MCAwaiLauncher ---------------------------
EXTENDS AwaiLauncher

\* The requests of the page by the load they follow, and another visitor's.
MCCaller == (Public \X (1..MaxLoads)) \cup {<<"proof", 0>>}
=============================================================================
