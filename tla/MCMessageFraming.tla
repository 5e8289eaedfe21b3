------------------------- MODULE MCMessageFraming ---------------------------
(***************************************************************************)
(* A short stream for MessageFraming.                                      *)
(***************************************************************************)
EXTENDS MessageFraming

\* One message that fits between the others' remains, and one longer than the
\* buffer.
FewLens == <<2, 3, 9, 2>>
\* The second message has a zero before its last byte.
OneZero == {<<2, 6>>}

=============================================================================
