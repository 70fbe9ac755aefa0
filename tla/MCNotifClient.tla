---------------------------- MODULE MCNotifClient ----------------------------
(* The stream of a small notification server for TLC: a buffer of four bytes. *)
EXTENDS NotifClient

MCBytes == {"C", "E", "X", "a"}

\* Of each kind: messages of one byte, of a line that fills the buffer, and one that does not fit.
MCMessages == {<<"C">>, <<"E", "a">>, <<"X">>, <<"C", "a", "a">>, <<"C", "a", "a", "a">>}

=============================================================================
