------------------------------ MODULE MCNotifier ------------------------------
(* A small notification server for TLC. *)
EXTENDS Notifier

CONSTANTS f2, c1, c2, c3

\* One client is on the table already.  Either two more may come, while one dazibao is watched and changes
\* (f2 is never readable); or the one on the table has died, and the next has connected, while two watchers
\* are about to see a change each (c3 has left).
FullInit ==
  /\ socket = [i \in Slots |-> IF i = 1 THEN c1 ELSE None]
  /\ \/ /\ peer = [c \in Clients |-> IF c = c1 THEN "in" ELSE "out"]
        /\ backlog = <<>>
        /\ contents = [f \in Files |-> IF f = f2 THEN Unreadable ELSE 1]
        /\ version = [f \in Files |-> IF f = f2 THEN MaxVersion ELSE 1]
        /\ hash = [f \in Files |-> 0]
     \/ /\ peer = [c \in Clients |-> IF c = c2 THEN "in" ELSE "gone"]
        /\ backlog = <<c2>>
        /\ contents = [f \in Files |-> MaxVersion]
        /\ version = [f \in Files |-> MaxVersion]
        /\ hash = [f \in Files |-> 1]
  /\ mutex = [i \in Slots |-> None]
  /\ pc = [t \in Threads |-> "idle"]
  /\ slot = [t \in Threads |-> 1]
  /\ new = None
  /\ under = None
  /\ unread = [c \in Clients |-> 0]
  /\ told = [c \in Clients |-> [f \in Files |-> 0]]
  /\ owed = [t \in Speakers |-> {}]

FullSpec == FullInit /\ [][Next]_vars /\ Fairness

=============================================================================
