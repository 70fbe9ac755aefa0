-------------------------------- MODULE MCWeb --------------------------------
(* A dazibao of two TLVs, a page and one other program for TLC. *)
EXTENDS Daziweb

A == <<"a">>
B == <<"b">>
C == <<"c">>

MCInitial == <<<<A>>, <<B>>>>
MCOthers  == {<<C>>}
MCPublic  == {<<"style">>}

\* Requests that nothing remembers once they are answered.
Plain ==
  {Call(m, NoPath, <<>>) : m \in {"HEAD", "PUT"}}
    \cup {Call("GET", Path(<<"tlv">>, 1), <<>>), Call("GET", Path(<<"style">>, -1), <<>>)}

\* What the page can do, a file of each kind, and requests of other clients.
MCCalls ==
  Plain \cup {Load, Compact, Del(1), Del(2)}
        \cup {AddText(<<A>>), AddText(<<A, B, C, A>>)}
        \cup {AddTLV(<<C>>), AddTLV(CRLF), AddTLV(<<A, B, C, A>>)}

\* What need not be interleaved: steps of the page and of the other programs, with steps of the server
\* that touch nothing they do; and plain requests, with what comes before them.
Quiet ==
  /\ (at' = at /\ at \in {"parse", "open", "flock", "close", "tell"}) =>
       UNCHANGED calls /\ (leaves' = leaves => UNCHANGED poll)
  /\ (at' = at /\ at \in {"accept", "parse", "close", "tell"}) => UNCHANGED <<lock, there>>
  /\ (asked' # asked /\ asked' \in Plain) => calls = 0

\* bound: calls, and what disturbs them, taken together.
Few == calls' + 2 * changes' + 2 * (shorts' + ends' + leaves') <= 5

=============================================================================
