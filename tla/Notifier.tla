------------------------------- MODULE Notifier -------------------------------
(***************************************************************************)
(* The notification server, src/src/notifier/notification-server.c: one    *)
(* thread per watched dazibao, the main thread that accepts clients, and   *)
(* the SIGINT handler, which runs on top of the thread it interrupts.      *)
(* They share the table of clients, c_socket, with one mutex per slot.     *)
(*                                                                         *)
(* A dazibao is abstracted to the version of its contents, which stands    *)
(* for its hash (two contents are assumed not to have the same hash, and   *)
(* none to have hash 0), and a client's socket to the number of messages   *)
(* waiting in it.  The sleeps between two checks are left to fairness.     *)
(***************************************************************************)
EXTENDS Integers, Sequences, FiniteSets

CONSTANTS
  Files,       \* conf.file: the dazibaos watched; also the threads that watch them
  Clients,     \* processes that connect
  Main,        \* the main thread
  Handler,     \* ns_exit
  None,        \* no client, no thread
  ClientMax,   \* conf.client_max
  Capacity,    \* messages a socket holds before write(2) blocks
  Slow,        \* clients that may stop reading
  MaxVersion   \* bound: contents a file has had

ASSUME NotifierAssumption ==
  /\ ClientMax \in Nat \ {0} /\ Capacity \in Nat \ {0} /\ MaxVersion \in Nat \ {0}
  /\ Slow \subseteq Clients
  /\ Main \notin Files \cup {Handler, None} /\ Handler \notin Files \cup {None}
  /\ None \notin Files \cup Clients

VARIABLES
  contents, \* the version of each file, or Unreadable: missing, or empty and so not mapped
  version,  \* how many versions it has had
  hash,     \* old_hash of each watcher, 0 before the first check
  socket,   \* conf.c_socket: the client of each slot
  mutex,    \* conf.c_mtx: the thread that has each
  pc,       \* what each thread is at
  slot,     \* the slot at which it is in a loop over the clients
  new,      \* the client accept_client just accepted
  under,    \* the thread ns_exit interrupted
  backlog,  \* clients that connected and are not yet accepted
  peer,     \* what each client is
  unread,   \* messages in its socket
  told,     \* history: the last version of each file it was told of
  owed      \* history: the clients that had a slot when a broadcast began, and got nothing from it yet

server  == <<hash, socket, mutex, pc, slot, new, under>>
outside == <<contents, version, backlog, peer>>
vars    == <<contents, version, hash, socket, mutex, pc, slot, new, under, backlog, peer,
             unread, told, owed>>

Slots    == 1 .. ClientMax
Threads  == Files \cup {Main, Handler}
Speakers == Files \cup {Handler}      \* the threads that broadcast
Unreadable == 0

PeerStates == {"out", "in", "refused", "gone"}

\* Where a thread has the mutex of its slot.
Holding == {"write", "blocked", "unlock", "take", "release"}
PCs     == Holding \cup {"idle", "lock", "refuse", "unlink", "exited"}

\* The clients of the table, those that have closed their end included.
Served == {socket[i] : i \in Slots} \ {None}

\* Nothing runs once the process has exited; the interrupted thread does not go on before that.
Runs(t) == pc[Handler] # "exited" /\ under # t

-----------------------------------------------------------------------------

Init ==
  /\ contents \in [Files -> {Unreadable, 1}]
  /\ version = [f \in Files |-> 1]
  /\ hash = [f \in Files |-> 0]
  /\ socket = [i \in Slots |-> None]
  /\ mutex = [i \in Slots |-> None]
  /\ pc = [t \in Threads |-> "idle"]
  /\ slot = [t \in Threads |-> 1]
  /\ new = None
  /\ under = None
  /\ backlog = <<>>
  /\ peer = [c \in Clients |-> "out"]
  /\ unread = [c \in Clients |-> 0]
  /\ told = [c \in Clients |-> [f \in Files |-> 0]]
  /\ owed = [t \in Speakers |-> {}]

Goto(t, step) == pc' = [pc EXCEPT ![t] = step]

-----------------------------------------------------------------------------
(* Loops over the clients: broadcast, and the search for a free slot in accept_client. *)

\* pthread_mutex_lock, and what the thread finds in the slot.
Lock_Unchecked(t) ==
  /\ Runs(t) /\ pc[t] = "lock"
  /\ mutex' = [mutex EXCEPT ![slot[t]] = t]
  /\ Goto(t, IF t = Main
             THEN (IF socket[slot[t]] = None THEN "take" ELSE "unlock")
             ELSE (IF socket[slot[t]] = None THEN "unlock" ELSE "write"))
  /\ UNCHANGED <<outside, hash, socket, slot, new, under, unread, told, owed>>

Lock_TakesAny(t) ==
  /\ Runs(t) /\ pc[t] = "lock" /\ mutex[slot[t]] = None
  /\ mutex' = [mutex EXCEPT ![slot[t]] = t]
  /\ Goto(t, IF t = Main THEN "take"
             ELSE (IF socket[slot[t]] = None THEN "unlock" ELSE "write"))
  /\ UNCHANGED <<outside, hash, socket, slot, new, under, unread, told, owed>>

Lock(t) ==
  /\ Runs(t) /\ pc[t] = "lock" /\ mutex[slot[t]] = None
  /\ mutex' = [mutex EXCEPT ![slot[t]] = t]
  /\ Goto(t, IF t = Main
             THEN (IF socket[slot[t]] = None THEN "take" ELSE "unlock")
             ELSE (IF socket[slot[t]] = None THEN "unlock" ELSE "write"))
  /\ UNCHANGED <<outside, hash, socket, slot, new, under, unread, told, owed>>

\* Where a loop goes on after the last slot.
AfterLoop(t) ==
  CASE t = Main    -> "refuse"
    [] t = Handler -> "unlink"
    [] OTHER       -> "idle"

\* pthread_mutex_unlock, and the next slot.
Unlock_PastEnd(t) ==
  /\ Runs(t) /\ pc[t] = "unlock"
  /\ mutex' = [mutex EXCEPT ![slot[t]] = None]
  /\ slot' = [slot EXCEPT ![t] = IF @ > ClientMax THEN 1 ELSE @ + 1]
  /\ Goto(t, IF slot[t] > ClientMax THEN AfterLoop(t) ELSE "lock")
  /\ UNCHANGED <<outside, hash, socket, new, under, unread, told, owed>>

Unlock(t) ==
  /\ Runs(t) /\ pc[t] = "unlock"
  /\ mutex' = [mutex EXCEPT ![slot[t]] = None]
  /\ slot' = [slot EXCEPT ![t] = IF @ = ClientMax THEN 1 ELSE @ + 1]
  /\ Goto(t, IF slot[t] = ClientMax THEN AfterLoop(t) ELSE "lock")
  /\ UNCHANGED <<outside, hash, socket, new, under, unread, told, owed>>

-----------------------------------------------------------------------------
(* send_message *)

\* The client gets the message.
Deliver(t, c) ==
  /\ unread[c] < Capacity
  /\ unread' = [unread EXCEPT ![c] = @ + 1]
  /\ told' = IF t = Handler THEN told ELSE [told EXCEPT ![c][t] = hash[t]]
  /\ owed' = [owed EXCEPT ![t] = @ \ {c}]
  /\ Goto(t, "unlock")
  /\ UNCHANGED <<outside, hash, socket, mutex, slot, new, under>>

Write(t) ==
  /\ Runs(t) /\ pc[t] = "write"
  /\ peer[socket[slot[t]]] # "gone"
  /\ Deliver(t, socket[slot[t]])

\* EPIPE: the client is taken off the table.
WriteFails_Abandons(t) ==
  /\ Runs(t) /\ pc[t] = "write"
  /\ peer[socket[slot[t]]] = "gone"
  /\ socket' = [socket EXCEPT ![slot[t]] = None]
  /\ mutex' = [mutex EXCEPT ![slot[t]] = None]
  /\ slot' = [slot EXCEPT ![t] = 1]
  /\ Goto(t, AfterLoop(t))
  /\ UNCHANGED <<outside, hash, new, under, unread, told, owed>>

WriteFails(t) ==
  /\ Runs(t) /\ pc[t] = "write"
  /\ peer[socket[slot[t]]] = "gone"
  /\ socket' = [socket EXCEPT ![slot[t]] = None]
  /\ Goto(t, "unlock")
  /\ UNCHANGED <<outside, hash, mutex, slot, new, under, unread, told, owed>>

\* The client's socket is full: the thread waits in write(2), with the mutex.
WriteBlocks(t) ==
  /\ Runs(t) /\ pc[t] = "write"
  /\ peer[socket[slot[t]]] # "gone" /\ unread[socket[slot[t]]] = Capacity
  /\ Goto(t, "blocked")
  /\ UNCHANGED <<outside, hash, socket, mutex, slot, new, under, unread, told, owed>>

Unblock(t) ==
  /\ Runs(t) /\ pc[t] = "blocked"
  /\ peer[socket[slot[t]]] # "gone"
  /\ Deliver(t, socket[slot[t]])

\* The client closed its end with messages unread: ECONNRESET, and the slot is kept until the next
\* message fails.
UnblockFails(t) ==
  /\ Runs(t) /\ pc[t] = "blocked"
  /\ peer[socket[slot[t]]] = "gone"
  /\ Goto(t, "unlock")
  /\ UNCHANGED <<outside, hash, socket, mutex, slot, new, under, unread, told, owed>>

\* What broadcast begins with.
Broadcast(t) ==
  /\ Goto(t, "lock")
  /\ owed' = [owed EXCEPT ![t] = Served]

-----------------------------------------------------------------------------
(* watch_file, with reliable_watch: a file that cannot be opened, or mapped because it is empty, or
   that has the hash seen before, is looked at again. *)

\* The first hash a watcher sees is taken as it is.
FirstCheck(f) ==
  /\ Runs(f) /\ pc[f] = "idle"
  /\ contents[f] # Unreadable /\ hash[f] = 0
  /\ hash' = [hash EXCEPT ![f] = contents[f]]
  /\ UNCHANGED <<outside, socket, mutex, pc, slot, new, under, unread, told, owed>>

SeeChange_Forgets(f) ==
  /\ Runs(f) /\ pc[f] = "idle"
  /\ contents[f] # Unreadable /\ hash[f] \notin {0, contents[f]}
  /\ Broadcast(f)
  /\ UNCHANGED <<outside, hash, socket, mutex, slot, new, under, unread, told>>

SeeChange(f) ==
  /\ Runs(f) /\ pc[f] = "idle"
  /\ contents[f] # Unreadable /\ hash[f] \notin {0, contents[f]}
  /\ hash' = [hash EXCEPT ![f] = contents[f]]
  /\ Broadcast(f)
  /\ UNCHANGED <<outside, socket, mutex, slot, new, under, unread, told>>

-----------------------------------------------------------------------------
(* accept_client *)

Accept ==
  /\ Runs(Main) /\ pc[Main] = "idle" /\ backlog # <<>>
  /\ new' = Head(backlog)
  /\ backlog' = Tail(backlog)
  /\ Goto(Main, "lock")
  /\ UNCHANGED <<contents, version, peer, hash, socket, mutex, slot, under, unread, told, owed>>

Take ==
  /\ Runs(Main) /\ pc[Main] = "take"
  /\ socket' = [socket EXCEPT ![slot[Main]] = new]
  /\ Goto(Main, "release")
  /\ UNCHANGED <<outside, hash, mutex, slot, new, under, unread, told, owed>>

Release_KeepsMutex ==
  /\ Runs(Main) /\ pc[Main] = "release"
  /\ slot' = [slot EXCEPT ![Main] = 1]
  /\ new' = None
  /\ Goto(Main, "idle")
  /\ UNCHANGED <<outside, hash, socket, mutex, under, unread, told, owed>>

Release ==
  /\ Runs(Main) /\ pc[Main] = "release"
  /\ mutex' = [mutex EXCEPT ![slot[Main]] = None]
  /\ slot' = [slot EXCEPT ![Main] = 1]
  /\ new' = None
  /\ Goto(Main, "idle")
  /\ UNCHANGED <<outside, hash, socket, under, unread, told, owed>>

\* The server is full: the client is told so and closed.
Refuse ==
  /\ Runs(Main) /\ pc[Main] = "refuse"
  /\ peer' = [peer EXCEPT ![new] = IF @ = "gone" THEN "gone" ELSE "refused"]
  /\ new' = None
  /\ Goto(Main, "idle")
  /\ UNCHANGED <<contents, version, backlog, hash, socket, mutex, slot, under, unread, told, owed>>

-----------------------------------------------------------------------------
(* ns_exit *)

\* SIGINT, handled on the thread it is delivered to.
Interrupt(t) ==
  /\ under = None
  /\ under' = t
  /\ Broadcast(Handler)
  /\ UNCHANGED <<outside, hash, socket, mutex, slot, new, unread, told>>

\* unlink, and exit.
Exit ==
  /\ pc[Handler] = "unlink"
  /\ Goto(Handler, "exited")
  /\ UNCHANGED <<outside, hash, socket, mutex, slot, new, under, unread, told, owed>>

-----------------------------------------------------------------------------
(* The dazibaos and the clients *)

\* A dazibao gets new contents, or is removed, or emptied by whoever writes it.
Change(f) ==
  /\ version[f] < MaxVersion
  /\ version' = [version EXCEPT ![f] = @ + 1]
  /\ \E now \in {Unreadable, version[f] + 1} : contents' = [contents EXCEPT ![f] = now]
  /\ UNCHANGED <<server, backlog, peer, unread, told, owed>>

Connect(c) ==
  /\ pc[Handler] # "exited" /\ peer[c] = "out"
  /\ peer' = [peer EXCEPT ![c] = "in"]
  /\ backlog' = Append(backlog, c)
  /\ UNCHANGED <<server, contents, version, unread, told, owed>>

Receive(c) ==
  /\ peer[c] = "in" /\ unread[c] > 0
  /\ unread' = [unread EXCEPT ![c] = 0]
  /\ UNCHANGED <<server, outside, told, owed>>

Leave(c) ==
  /\ peer[c] = "in"
  /\ peer' = [peer EXCEPT ![c] = "gone"]
  /\ unread' = [unread EXCEPT ![c] = 0]
  /\ UNCHANGED <<server, contents, version, backlog, told, owed>>

-----------------------------------------------------------------------------

Speak(t) == Lock(t) \/ Write(t) \/ WriteFails(t) \/ WriteBlocks(t) \/ Unblock(t)
              \/ UnblockFails(t) \/ Unlock(t)
Watch(f) == FirstCheck(f) \/ SeeChange(f) \/ Speak(f)
Serve    == Accept \/ Lock(Main) \/ Take \/ Release \/ Unlock(Main) \/ Refuse
Die      == Speak(Handler) \/ Exit

Next ==
  \/ \E f \in Files : Watch(f) \/ Change(f)
  \/ Serve
  \/ Die
  \/ \E t \in Files \cup {Main} : Interrupt(t)
  \/ \E c \in Clients : Connect(c) \/ Receive(c) \/ Leave(c)

\* Threads that can run do, and clients that are not slow read what they are sent.  No file has to
\* change, no client to come or go, no one to press Ctrl-C; no mutex has to be fair.
Fairness ==
  /\ \A f \in Files : WF_vars(Watch(f))
  /\ WF_vars(Serve)
  /\ WF_vars(Die)
  /\ \A c \in Clients \ Slow : WF_vars(Receive(c))

Spec == Init /\ [][Next]_vars /\ Fairness

-----------------------------------------------------------------------------

TypeOK ==
  /\ contents \in [Files -> Nat]
  /\ version \in [Files -> 1 .. MaxVersion]
  /\ hash \in [Files -> Nat]
  /\ socket \in [Slots -> Clients \cup {None}]
  /\ mutex \in [Slots -> Threads \cup {None}]
  /\ pc \in [Threads -> PCs]
  /\ slot \in [Threads -> Slots]
  /\ new \in Clients \cup {None}
  /\ under \in Files \cup {Main, None}
  /\ backlog \in Seq(Clients)
  /\ peer \in [Clients -> PeerStates]
  /\ unread \in [Clients -> 0 .. Capacity]
  /\ told \in [Clients -> [Files -> Nat]]
  /\ owed \in [Speakers -> SUBSET Clients]

\* Two threads never write to the same client at once, so that messages reach it whole, nor does
\* one write while another gives the slot to a new client.
OneWriter ==
  \A t, u \in Threads :
    pc[t] \in Holding /\ pc[u] \in Holding /\ t # u => slot[t] # slot[u]

\* A thread that writes to a slot has a client there: it never writes to descriptor -1.
WritesToClient ==
  \A t \in Speakers : pc[t] \in {"write", "blocked"} => socket[slot[t]] # None

\* A client the server accepted keeps one slot, until it leaves: it is never overwritten by another
\* client, or taken off the table in its place.
SlotKept ==
  \A c \in Clients :
    peer[c] = "in" /\ c # new /\ (\A i \in DOMAIN backlog : backlog[i] # c) =>
      Cardinality({i \in Slots : socket[i] = c}) = 1

\* Every client that was there when a broadcast began has got the message when it ends, unless it
\* left: a client that dies meanwhile costs the others nothing.
NoneForgotten ==
  \A t \in Speakers : pc[t] \in {"idle", "unlink", "exited"} =>
    \A c \in owed[t] : peer[c] = "gone"

\* A client is told of a file only when it has contents it was not told of.
NoFalseAlarm ==
  [][\A f \in Files : (Write(f) \/ Unblock(f)) =>
       \E c \in Clients : told'[c][f] > told[c][f]]_vars

\* The server is not what it was: someone interrupted it, or a thread waits for a slow client.
Stuck ==
  \/ under # None
  \/ \E t \in Files : pc[t] = "blocked" /\ socket[slot[t]] \in Slow

\* Every client that connects is accepted or refused, unless the server is stuck.
Answered ==
  \A c \in Clients :
    (\E i \in DOMAIN backlog : backlog[i] = c)
      ~> (c \in Served \/ peer[c] \in {"refused", "gone"} \/ Stuck)

\* Every client on the table is told of new contents, or of newer ones, unless it leaves, or they
\* are gone before the watcher looks, or the server is stuck.
Announced ==
  \A c \in Clients, f \in Files : \A v \in 2 .. MaxVersion :
    (c \in Served /\ peer[c] = "in" /\ hash[f] > 0 /\ contents[f] = v /\ hash[f] # v)
      ~> (told[c][f] >= v \/ peer[c] = "gone" \/ contents[f] = Unreadable \/ Stuck)

\* report.md:191: SIGINT is caught to free resources before exiting.
Exits == under # None ~> pc[Handler] = "exited"

\* It does, but when it interrupts a thread that has a mutex, or a client does not read.
ExitsOrWaits ==
  under # None ~>
    \/ pc[Handler] = "exited"
    \/ \E t \in Files \cup {Main} : t = under /\ pc[t] \in Holding
    \/ \E t \in Speakers : pc[t] = "blocked" /\ socket[slot[t]] \in Slow

=============================================================================
