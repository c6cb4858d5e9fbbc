--------------------------- MODULE MCHttpLifecycle ---------------------------
EXTENDS HttpLifecycle

\* Three commands, so that a command follows the capabilities, a command
\* read to its end and a command whose reader stopped early.
MCMaxCommands == 3
=============================================================================
