----------------------- MODULE MCClientDocumentHistory ----------------------
(* Instances of ClientDocumentHistory for TLC.                             *)
EXTENDS ClientDocumentHistory, TLC

CONSTANTS a, b, c

\* Loaded documents: three items in a row, the last one below the second, the
\* second below the first.
LoadedDocuments ==
  LET one == AddAsChild(EmptyTree, Root, a, Nil)
      two == AddAsChild(one, Root, b, a)
      nested == AddAsChild(one, a, b, Nil)
  IN {AddAsChild(two, Root, c, b), AddAsChild(two, b, c, Nil), AddAsChild(nested, Root, c, a)}
=============================================================================
