--------------------------- MODULE MCStartupGuard ---------------------------
EXTENDS StartupGuard

CONSTANTS p1, p2, p3

\* The RT bus and the dashboard; crew-lead; the Telegram bridge.
MCServices == {[port |-> TRUE, killStale |-> TRUE],
               [port |-> TRUE, killStale |-> FALSE],
               [port |-> FALSE, killStale |-> FALSE]}
=============================================================================
