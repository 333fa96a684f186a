---- MODULE MCTeeRegistration ----
EXTENDS TeeRegistration

\* The default of the tool, and the command scripts/post-build.sh gives it.
DocumentedCommands == {{"r", "a", "p"}, {"r", "R", "a", "p"}}
\* Also a single later step, with the id of the check as an argument.
AllCommands == DocumentedCommands \cup {{"p"}, {"a", "p"}}
=============================================================================
