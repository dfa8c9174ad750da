-------------------------- MODULE MCDocumentSession --------------------------
(* Documents of two items for TLC, loaded, edited, saved and restarted.      *)
EXTENDS DocumentSession, MCDocumentSync

\* Every property of DocumentSession promises nothing after a doubt, so that
\* the search need not go on behind one.
NextWithoutDoubt == doubts = {} /\ SessionNext

MCSpec == SessionInit /\ [][NextWithoutDoubt]_sessionVars
==============================================================================
