---------------------------- MODULE EditHistory -----------------------------
(***************************************************************************)
(* What undo and redo promise the user, without pointers: a document is a  *)
(* view, the views before it and the views undone.  Undo goes back to the  *)
(* view the last command found, redo to the view the last undo left.       *)
(***************************************************************************)
EXTENDS Sequences, Naturals

VARIABLES past,     \* the views undo goes back to, the last one first
          present,  \* what the user sees
          future,   \* the views redo goes back to, the last one first
          broken    \* a creation was redone: no promise from then on

vars == <<past, present, future, broken>>

Top(s) == s[Len(s)]
Pop(s) == SubSeq(s, 1, Len(s) - 1)

Init == past = <<>> /\ future = <<>> /\ broken = FALSE

\* A command may leave any view at all.
Command ==
  /\ past' = Append(past, present)
  /\ future' = <<>>
  /\ UNCHANGED broken

Undo ==
  /\ past # <<>>
  /\ past' = Pop(past)
  /\ future' = Append(future, present)
  /\ broken \/ present' = Top(past)
  /\ UNCHANGED broken

Redo ==
  /\ future # <<>>
  /\ past' = Append(past, present)
  /\ future' = Pop(future)
  /\ broken \/ present' = Top(future)
  /\ UNCHANGED broken

\* Redoing a creation makes an empty item of its own: neither the text nor the
\* later position of the item it stands for is brought back with it.
RedoCreation ==
  /\ future # <<>>
  /\ past' = Append(past, present)
  /\ future' = Pop(future)
  /\ broken' = TRUE

Next == Command \/ Undo \/ Redo \/ RedoCreation

Spec == Init /\ [][Next]_vars
=============================================================================
