--------------------------- MODULE Notifier_proofs ---------------------------
(***************************************************************************)
(* For any number of files, clients and slots: a thread at work on a slot  *)
(* has its mutex, so the table of clients changes only under the thread    *)
(* that looks at it, and a broadcast passes over no client that was there  *)
(* when it began.  A client is in one place at a time, from connect(2) to  *)
(* its slot, so that the table never has it twice nor loses it; and no     *)
(* broadcast tells it what it knows already.                               *)
(***************************************************************************)
EXTENDS Notifier, FiniteSetTheorems, TLAPS

\* What a thread is at: the steps of its own kind.
StepsInv ==
  /\ \A f \in Files : pc[f] \in {"idle", "lock", "write", "blocked", "unlock"}
  /\ pc[Handler] \in {"idle", "lock", "write", "blocked", "unlock", "unlink", "exited"}
  /\ pc[Main] \in {"idle", "lock", "take", "release", "unlock", "refuse"}
  /\ under = None => pc[Handler] = "idle"

MutexInv == \A t \in Threads : pc[t] \in Holding => mutex[slot[t]] = t

\* A loop over the clients begins with the first slot.
LoopInv ==
  \A t \in Threads : pc[t] \in {"idle", "refuse", "unlink", "exited"} => slot[t] = 1

\* accept_client has a client to place, and a free slot to place it in.
TakeInv ==
  /\ pc[Main] # "idle" => new # None
  /\ pc[Main] = "take" => socket[slot[Main]] = None

\* The slots a broadcast has yet to write to.
Ahead(t) ==
  {i \in Slots : i > slot[t] \/ (i = slot[t] /\ pc[t] # "unlock")}

OwedInv ==
  \A t \in Speakers : pc[t] \in {"lock", "write", "blocked", "unlock"} =>
    \A c \in owed[t] : peer[c] = "gone" \/ \E i \in Ahead(t) : socket[i] = c

IInv ==
  /\ TypeOK
  /\ StepsInv
  /\ MutexInv
  /\ LoopInv
  /\ TakeInv
  /\ WritesToClient
  /\ OwedInv
  /\ NoneForgotten

-----------------------------------------------------------------------------

\* The variables keep their types: no loop over the clients runs past the last slot.
LEMMA TypeStep == IInv /\ [Next]_vars => TypeOK'
  <1> SUFFICES ASSUME IInv, [Next]_vars PROVE TypeOK'
    OBVIOUS
  <1> USE NotifierAssumption DEF TypeOK, StepsInv, LoopInv, TakeInv, WritesToClient, IInv,
      Slots, Served, PCs, Holding, PeerStates, Unreadable, Threads, Speakers, Goto, Broadcast,
      AfterLoop, Deliver, outside, server
  <1>1. ASSUME NEW t \in Threads, Lock(t) PROVE TypeOK'
    BY <1>1 DEF Lock
  <1>2. ASSUME NEW t \in Threads, Unlock(t) PROVE TypeOK'
    BY <1>2, SMTT(30) DEF Unlock
  <1>3. ASSUME NEW t \in Speakers, Write(t) PROVE TypeOK'
    BY <1>3, SMTT(30) DEF Write
  <1>4. ASSUME NEW t \in Speakers, WriteFails(t) PROVE TypeOK'
    BY <1>4 DEF WriteFails
  <1>5. ASSUME NEW t \in Speakers, WriteBlocks(t) PROVE TypeOK'
    BY <1>5 DEF WriteBlocks
  <1>6. ASSUME NEW t \in Speakers, Unblock(t) PROVE TypeOK'
    <2>1. socket[slot[t]] \in Clients
      BY <1>6 DEF Unblock
    <2>2. unread' \in [Clients -> 0 .. Capacity] /\ told' \in [Clients -> [Files -> Nat]]
      BY <2>1, <1>6, SMTT(30) DEF Unblock
    <2>3. owed' \in [Speakers -> SUBSET Clients] /\ pc' \in [Threads -> PCs]
      BY <2>1, <1>6 DEF Unblock
    <2>4. QED
      BY <2>2, <2>3, <1>6 DEF Unblock
  <1>7. ASSUME NEW t \in Speakers, UnblockFails(t) PROVE TypeOK'
    BY <1>7 DEF UnblockFails
  <1>8. ASSUME NEW f \in Files, FirstCheck(f) PROVE TypeOK'
    BY <1>8 DEF FirstCheck
  <1>9. ASSUME NEW f \in Files, SeeChange(f) PROVE TypeOK'
    <2>1. Served \subseteq Clients
      BY DEF Served
    <2>2. owed' \in [Speakers -> SUBSET Clients]
      BY <2>1, <1>9 DEF SeeChange
    <2>3. pc' \in [Threads -> PCs] /\ hash' \in [Files -> Nat]
      BY <1>9 DEF SeeChange
    <2>4. QED
      BY <2>2, <2>3, <1>9 DEF SeeChange
  <1>10. ASSUME Accept PROVE TypeOK'
    <2>1. Head(backlog) \in Clients /\ Tail(backlog) \in Seq(Clients)
      BY <1>10 DEF Accept
    <2>2. QED
      BY <2>1, <1>10 DEF Accept
  <1>11. ASSUME Take PROVE TypeOK'
    BY <1>11 DEF Take
  <1>12. ASSUME Release PROVE TypeOK'
    BY <1>12 DEF Release
  <1>13. ASSUME Refuse PROVE TypeOK'
    BY <1>13 DEF Refuse
  <1>14. ASSUME NEW t \in Files \cup {Main}, Interrupt(t) PROVE TypeOK'
    BY <1>14 DEF Interrupt
  <1>15. ASSUME Exit PROVE TypeOK'
    BY <1>15 DEF Exit
  <1>16. ASSUME NEW f \in Files, Change(f) PROVE TypeOK'
    <2>1. version[f] + 1 \in 1 .. MaxVersion
      BY <1>16 DEF Change
    <2>2. version' \in [Files -> 1 .. MaxVersion]
      BY <2>1, <1>16 DEF Change
    <2>3. contents' \in [Files -> Nat]
      BY <2>1, <1>16 DEF Change
    <2>4. QED
      BY <2>2, <2>3, <1>16 DEF Change
  <1>17. ASSUME NEW c \in Clients, Connect(c) PROVE TypeOK'
    BY <1>17 DEF Connect
  <1>18. ASSUME NEW c \in Clients, Receive(c) PROVE TypeOK'
    BY <1>18 DEF Receive
  <1>19. ASSUME NEW c \in Clients, Leave(c) PROVE TypeOK'
    BY <1>19 DEF Leave
  <1>20. CASE UNCHANGED vars
    BY <1>20 DEF vars
  <1>21. QED
    BY <1>1, <1>2, <1>3, <1>4, <1>5, <1>6, <1>7, <1>8, <1>9, <1>10, <1>11, <1>12, <1>13,
       <1>14, <1>15, <1>16, <1>17, <1>18, <1>19, <1>20 DEF Next, Watch, Speak, Serve, Die

\* A step of a thread leads to a step of the same kind of thread.
LEMMA StepsStep == IInv /\ [Next]_vars => StepsInv'
  <1> SUFFICES ASSUME IInv, [Next]_vars PROVE StepsInv'
    OBVIOUS
  <1> USE NotifierAssumption DEF TypeOK, StepsInv, IInv, Threads, Speakers, Goto, Broadcast,
      AfterLoop, Deliver, outside, server
  <1>1. ASSUME NEW t \in Threads, Lock(t) PROVE StepsInv'
    BY <1>1 DEF Lock
  <1>2. ASSUME NEW t \in Threads, Unlock(t) PROVE StepsInv'
    BY <1>2 DEF Unlock
  <1>3. ASSUME NEW t \in Speakers, Write(t) PROVE StepsInv'
    BY <1>3 DEF Write
  <1>4. ASSUME NEW t \in Speakers, WriteFails(t) PROVE StepsInv'
    BY <1>4 DEF WriteFails
  <1>5. ASSUME NEW t \in Speakers, WriteBlocks(t) PROVE StepsInv'
    BY <1>5 DEF WriteBlocks
  <1>6. ASSUME NEW t \in Speakers, Unblock(t) PROVE StepsInv'
    BY <1>6 DEF Unblock
  <1>7. ASSUME NEW t \in Speakers, UnblockFails(t) PROVE StepsInv'
    BY <1>7 DEF UnblockFails
  <1>8. ASSUME NEW f \in Files, FirstCheck(f) PROVE StepsInv'
    BY <1>8 DEF FirstCheck
  <1>9. ASSUME NEW f \in Files, SeeChange(f) PROVE StepsInv'
    BY <1>9 DEF SeeChange
  <1>10. ASSUME Accept PROVE StepsInv'
    BY <1>10 DEF Accept
  <1>11. ASSUME Take PROVE StepsInv'
    BY <1>11 DEF Take
  <1>12. ASSUME Release PROVE StepsInv'
    BY <1>12 DEF Release
  <1>13. ASSUME Refuse PROVE StepsInv'
    BY <1>13 DEF Refuse
  <1>14. ASSUME NEW t \in Files \cup {Main}, Interrupt(t) PROVE StepsInv'
    BY <1>14 DEF Interrupt
  <1>15. ASSUME Exit PROVE StepsInv'
    BY <1>15 DEF Exit
  <1>16. ASSUME NEW f \in Files, Change(f) PROVE StepsInv'
    BY <1>16 DEF Change
  <1>17. ASSUME NEW c \in Clients, Connect(c) PROVE StepsInv'
    BY <1>17 DEF Connect
  <1>18. ASSUME NEW c \in Clients, Receive(c) PROVE StepsInv'
    BY <1>18 DEF Receive
  <1>19. ASSUME NEW c \in Clients, Leave(c) PROVE StepsInv'
    BY <1>19 DEF Leave
  <1>20. CASE UNCHANGED vars
    BY <1>20 DEF vars
  <1>21. QED
    BY <1>1, <1>2, <1>3, <1>4, <1>5, <1>6, <1>7, <1>8, <1>9, <1>10, <1>11, <1>12, <1>13,
       <1>14, <1>15, <1>16, <1>17, <1>18, <1>19, <1>20 DEF Next, Watch, Speak, Serve, Die

\* A mutex is taken when it is free, and given back by the thread that has it.
LEMMA MutexStep == IInv /\ [Next]_vars => MutexInv'
  <1> SUFFICES ASSUME IInv, [Next]_vars PROVE MutexInv'
    OBVIOUS
  <1> USE NotifierAssumption DEF TypeOK, StepsInv, MutexInv, IInv, Slots, Holding, Threads,
      Speakers, Goto, Broadcast, AfterLoop, Deliver, outside, server
  <1>1. ASSUME NEW t \in Threads, Lock(t) PROVE MutexInv'
    BY <1>1 DEF Lock
  <1>2. ASSUME NEW t \in Threads, Unlock(t) PROVE MutexInv'
    BY <1>2 DEF Unlock
  <1>3. ASSUME NEW t \in Speakers, Write(t) PROVE MutexInv'
    BY <1>3 DEF Write
  <1>4. ASSUME NEW t \in Speakers, WriteFails(t) PROVE MutexInv'
    BY <1>4 DEF WriteFails
  <1>5. ASSUME NEW t \in Speakers, WriteBlocks(t) PROVE MutexInv'
    BY <1>5 DEF WriteBlocks
  <1>6. ASSUME NEW t \in Speakers, Unblock(t) PROVE MutexInv'
    BY <1>6 DEF Unblock
  <1>7. ASSUME NEW t \in Speakers, UnblockFails(t) PROVE MutexInv'
    BY <1>7 DEF UnblockFails
  <1>8. ASSUME NEW f \in Files, FirstCheck(f) PROVE MutexInv'
    BY <1>8 DEF FirstCheck
  <1>9. ASSUME NEW f \in Files, SeeChange(f) PROVE MutexInv'
    BY <1>9 DEF SeeChange
  <1>10. ASSUME Accept PROVE MutexInv'
    BY <1>10 DEF Accept
  <1>11. ASSUME Take PROVE MutexInv'
    BY <1>11 DEF Take
  <1>12. ASSUME Release PROVE MutexInv'
    BY <1>12 DEF Release
  <1>13. ASSUME Refuse PROVE MutexInv'
    BY <1>13 DEF Refuse
  <1>14. ASSUME NEW t \in Files \cup {Main}, Interrupt(t) PROVE MutexInv'
    BY <1>14 DEF Interrupt
  <1>15. ASSUME Exit PROVE MutexInv'
    BY <1>15 DEF Exit
  <1>16. ASSUME NEW f \in Files, Change(f) PROVE MutexInv'
    BY <1>16 DEF Change
  <1>17. ASSUME NEW c \in Clients, Connect(c) PROVE MutexInv'
    BY <1>17 DEF Connect
  <1>18. ASSUME NEW c \in Clients, Receive(c) PROVE MutexInv'
    BY <1>18 DEF Receive
  <1>19. ASSUME NEW c \in Clients, Leave(c) PROVE MutexInv'
    BY <1>19 DEF Leave
  <1>20. CASE UNCHANGED vars
    BY <1>20 DEF vars
  <1>21. QED
    BY <1>1, <1>2, <1>3, <1>4, <1>5, <1>6, <1>7, <1>8, <1>9, <1>10, <1>11, <1>12, <1>13,
       <1>14, <1>15, <1>16, <1>17, <1>18, <1>19, <1>20 DEF Next, Watch, Speak, Serve, Die

\* A loop that ends starts again from the first slot.
LEMMA LoopStep == IInv /\ [Next]_vars => LoopInv'
  <1> SUFFICES ASSUME IInv, [Next]_vars PROVE LoopInv'
    OBVIOUS
  <1> USE NotifierAssumption DEF TypeOK, StepsInv, LoopInv, IInv, Slots, Threads, Speakers,
      Goto, Broadcast, AfterLoop, Deliver, outside, server
  <1>1. ASSUME NEW t \in Threads, Lock(t) PROVE LoopInv'
    BY <1>1 DEF Lock
  <1>2. ASSUME NEW t \in Threads, Unlock(t) PROVE LoopInv'
    BY <1>2 DEF Unlock
  <1>3. ASSUME NEW t \in Speakers, Write(t) PROVE LoopInv'
    BY <1>3 DEF Write
  <1>4. ASSUME NEW t \in Speakers, WriteFails(t) PROVE LoopInv'
    BY <1>4 DEF WriteFails
  <1>5. ASSUME NEW t \in Speakers, WriteBlocks(t) PROVE LoopInv'
    BY <1>5 DEF WriteBlocks
  <1>6. ASSUME NEW t \in Speakers, Unblock(t) PROVE LoopInv'
    BY <1>6 DEF Unblock
  <1>7. ASSUME NEW t \in Speakers, UnblockFails(t) PROVE LoopInv'
    BY <1>7 DEF UnblockFails
  <1>8. ASSUME NEW f \in Files, FirstCheck(f) PROVE LoopInv'
    BY <1>8 DEF FirstCheck
  <1>9. ASSUME NEW f \in Files, SeeChange(f) PROVE LoopInv'
    BY <1>9 DEF SeeChange
  <1>10. ASSUME Accept PROVE LoopInv'
    BY <1>10 DEF Accept
  <1>11. ASSUME Take PROVE LoopInv'
    BY <1>11 DEF Take
  <1>12. ASSUME Release PROVE LoopInv'
    BY <1>12 DEF Release
  <1>13. ASSUME Refuse PROVE LoopInv'
    BY <1>13 DEF Refuse
  <1>14. ASSUME NEW t \in Files \cup {Main}, Interrupt(t) PROVE LoopInv'
    BY <1>14 DEF Interrupt
  <1>15. ASSUME Exit PROVE LoopInv'
    BY <1>15 DEF Exit
  <1>16. ASSUME NEW f \in Files, Change(f) PROVE LoopInv'
    BY <1>16 DEF Change
  <1>17. ASSUME NEW c \in Clients, Connect(c) PROVE LoopInv'
    BY <1>17 DEF Connect
  <1>18. ASSUME NEW c \in Clients, Receive(c) PROVE LoopInv'
    BY <1>18 DEF Receive
  <1>19. ASSUME NEW c \in Clients, Leave(c) PROVE LoopInv'
    BY <1>19 DEF Leave
  <1>20. CASE UNCHANGED vars
    BY <1>20 DEF vars
  <1>21. QED
    BY <1>1, <1>2, <1>3, <1>4, <1>5, <1>6, <1>7, <1>8, <1>9, <1>10, <1>11, <1>12, <1>13,
       <1>14, <1>15, <1>16, <1>17, <1>18, <1>19, <1>20 DEF Next, Watch, Speak, Serve, Die

\* A slot accept_client saw free stays so: no other thread has its mutex.
LEMMA TakeStep == IInv /\ [Next]_vars => TakeInv'
  <1> SUFFICES ASSUME IInv, [Next]_vars PROVE TakeInv'
    OBVIOUS
  <1> USE NotifierAssumption DEF TypeOK, StepsInv, MutexInv, TakeInv, Holding, IInv, Slots,
      Threads, Speakers, Goto, Broadcast, AfterLoop, Deliver, outside, server
  <1>1. ASSUME NEW t \in Threads, Lock(t) PROVE TakeInv'
    BY <1>1 DEF Lock
  <1>2. ASSUME NEW t \in Threads, Unlock(t) PROVE TakeInv'
    BY <1>2 DEF Unlock
  <1>3. ASSUME NEW t \in Speakers, Write(t) PROVE TakeInv'
    BY <1>3 DEF Write
  <1>4. ASSUME NEW t \in Speakers, WriteFails(t) PROVE TakeInv'
    BY <1>4 DEF WriteFails
  <1>5. ASSUME NEW t \in Speakers, WriteBlocks(t) PROVE TakeInv'
    BY <1>5 DEF WriteBlocks
  <1>6. ASSUME NEW t \in Speakers, Unblock(t) PROVE TakeInv'
    BY <1>6 DEF Unblock
  <1>7. ASSUME NEW t \in Speakers, UnblockFails(t) PROVE TakeInv'
    BY <1>7 DEF UnblockFails
  <1>8. ASSUME NEW f \in Files, FirstCheck(f) PROVE TakeInv'
    BY <1>8 DEF FirstCheck
  <1>9. ASSUME NEW f \in Files, SeeChange(f) PROVE TakeInv'
    BY <1>9 DEF SeeChange
  <1>10. ASSUME Accept PROVE TakeInv'
    BY <1>10 DEF Accept
  <1>11. ASSUME Take PROVE TakeInv'
    BY <1>11 DEF Take
  <1>12. ASSUME Release PROVE TakeInv'
    BY <1>12 DEF Release
  <1>13. ASSUME Refuse PROVE TakeInv'
    BY <1>13 DEF Refuse
  <1>14. ASSUME NEW t \in Files \cup {Main}, Interrupt(t) PROVE TakeInv'
    BY <1>14 DEF Interrupt
  <1>15. ASSUME Exit PROVE TakeInv'
    BY <1>15 DEF Exit
  <1>16. ASSUME NEW f \in Files, Change(f) PROVE TakeInv'
    BY <1>16 DEF Change
  <1>17. ASSUME NEW c \in Clients, Connect(c) PROVE TakeInv'
    BY <1>17 DEF Connect
  <1>18. ASSUME NEW c \in Clients, Receive(c) PROVE TakeInv'
    BY <1>18 DEF Receive
  <1>19. ASSUME NEW c \in Clients, Leave(c) PROVE TakeInv'
    BY <1>19 DEF Leave
  <1>20. CASE UNCHANGED vars
    BY <1>20 DEF vars
  <1>21. QED
    BY <1>1, <1>2, <1>3, <1>4, <1>5, <1>6, <1>7, <1>8, <1>9, <1>10, <1>11, <1>12, <1>13,
       <1>14, <1>15, <1>16, <1>17, <1>18, <1>19, <1>20 DEF Next, Watch, Speak, Serve, Die

\* A slot that is written to is emptied by the thread that writes to it, which then leaves it.
LEMMA WritesStep == IInv /\ [Next]_vars => WritesToClient'
  <1> SUFFICES ASSUME IInv, [Next]_vars PROVE WritesToClient'
    OBVIOUS
  <1> USE NotifierAssumption DEF TypeOK, StepsInv, MutexInv, TakeInv, WritesToClient, Holding,
      IInv, Slots, Threads, Speakers, Goto, Broadcast, AfterLoop, Deliver, outside, server
  <1>1. ASSUME NEW t \in Threads, Lock(t) PROVE WritesToClient'
    BY <1>1 DEF Lock
  <1>2. ASSUME NEW t \in Threads, Unlock(t) PROVE WritesToClient'
    BY <1>2 DEF Unlock
  <1>3. ASSUME NEW t \in Speakers, Write(t) PROVE WritesToClient'
    BY <1>3 DEF Write
  <1>4. ASSUME NEW t \in Speakers, WriteFails(t) PROVE WritesToClient'
    BY <1>4 DEF WriteFails
  <1>5. ASSUME NEW t \in Speakers, WriteBlocks(t) PROVE WritesToClient'
    BY <1>5 DEF WriteBlocks
  <1>6. ASSUME NEW t \in Speakers, Unblock(t) PROVE WritesToClient'
    BY <1>6 DEF Unblock
  <1>7. ASSUME NEW t \in Speakers, UnblockFails(t) PROVE WritesToClient'
    BY <1>7 DEF UnblockFails
  <1>8. ASSUME NEW f \in Files, FirstCheck(f) PROVE WritesToClient'
    BY <1>8 DEF FirstCheck
  <1>9. ASSUME NEW f \in Files, SeeChange(f) PROVE WritesToClient'
    BY <1>9 DEF SeeChange
  <1>10. ASSUME Accept PROVE WritesToClient'
    BY <1>10 DEF Accept
  <1>11. ASSUME Take PROVE WritesToClient'
    BY <1>11 DEF Take
  <1>12. ASSUME Release PROVE WritesToClient'
    BY <1>12 DEF Release
  <1>13. ASSUME Refuse PROVE WritesToClient'
    BY <1>13 DEF Refuse
  <1>14. ASSUME NEW t \in Files \cup {Main}, Interrupt(t) PROVE WritesToClient'
    BY <1>14 DEF Interrupt
  <1>15. ASSUME Exit PROVE WritesToClient'
    BY <1>15 DEF Exit
  <1>16. ASSUME NEW f \in Files, Change(f) PROVE WritesToClient'
    BY <1>16 DEF Change
  <1>17. ASSUME NEW c \in Clients, Connect(c) PROVE WritesToClient'
    BY <1>17 DEF Connect
  <1>18. ASSUME NEW c \in Clients, Receive(c) PROVE WritesToClient'
    BY <1>18 DEF Receive
  <1>19. ASSUME NEW c \in Clients, Leave(c) PROVE WritesToClient'
    BY <1>19 DEF Leave
  <1>20. CASE UNCHANGED vars
    BY <1>20 DEF vars
  <1>21. QED
    BY <1>1, <1>2, <1>3, <1>4, <1>5, <1>6, <1>7, <1>8, <1>9, <1>10, <1>11, <1>12, <1>13,
       <1>14, <1>15, <1>16, <1>17, <1>18, <1>19, <1>20 DEF Next, Watch, Speak, Serve, Die

\* A slot a broadcast has yet to come to changes only when its client is gone, or when it is free;
\* and the broadcast leaves a slot behind only when it has written to it.
LEMMA OwedStep == IInv /\ [Next]_vars => OwedInv'
  <1> SUFFICES ASSUME IInv, [Next]_vars PROVE OwedInv'
    OBVIOUS
  <1> USE NotifierAssumption DEF TypeOK, StepsInv, MutexInv, LoopInv, TakeInv, WritesToClient,
      OwedInv, Ahead, Served, Holding, IInv, Slots, Threads, Speakers, Goto, Broadcast,
      AfterLoop, Deliver, outside, server
  <1>1. ASSUME NEW t \in Threads, Lock(t) PROVE OwedInv'
    BY <1>1 DEF Lock
  <1>2. ASSUME NEW t \in Threads, Unlock(t) PROVE OwedInv'
    BY <1>2 DEF Unlock
  <1>3. ASSUME NEW t \in Speakers, Write(t) PROVE OwedInv'
    BY <1>3 DEF Write
  <1>4. ASSUME NEW t \in Speakers, WriteFails(t) PROVE OwedInv'
    <2>1. socket[slot[t]] # None /\ peer[socket[slot[t]]] = "gone" /\ slot[t] \in Slots
      BY <1>4 DEF WriteFails
    <2>2. /\ socket' = [socket EXCEPT ![slot[t]] = None]
          /\ pc' = [pc EXCEPT ![t] = "unlock"]
          /\ slot' = slot /\ owed' = owed /\ peer' = peer
      BY <1>4 DEF WriteFails
    <2>3. ASSUME NEW u \in Speakers, pc'[u] \in {"lock", "write", "blocked", "unlock"},
                 NEW c \in owed'[u], peer'[c] # "gone"
          PROVE  \E i \in Ahead(u)' : socket'[i] = c
      <3>1. PICK i \in Ahead(u) : socket[i] = c
        BY <2>2, <2>3, <1>4 DEF WriteFails
      <3>2. i # slot[t] /\ i \in Slots
        BY <2>1, <2>2, <2>3, <3>1
      <3>3. i \in Ahead(u)'
        BY <2>2, <3>1, <3>2
      <3>4. QED
        BY <2>2, <3>1, <3>2, <3>3
    <2>4. QED
      BY <2>3
  <1>5. ASSUME NEW t \in Speakers, WriteBlocks(t) PROVE OwedInv'
    BY <1>5 DEF WriteBlocks
  <1>6. ASSUME NEW t \in Speakers, Unblock(t) PROVE OwedInv'
    BY <1>6 DEF Unblock
  <1>7. ASSUME NEW t \in Speakers, UnblockFails(t) PROVE OwedInv'
    BY <1>7 DEF UnblockFails
  <1>8. ASSUME NEW f \in Files, FirstCheck(f) PROVE OwedInv'
    BY <1>8 DEF FirstCheck
  <1>9. ASSUME NEW f \in Files, SeeChange(f) PROVE OwedInv'
    BY <1>9 DEF SeeChange
  <1>10. ASSUME Accept PROVE OwedInv'
    BY <1>10 DEF Accept
  <1>11. ASSUME Take PROVE OwedInv'
    <2>1. socket[slot[Main]] = None /\ slot[Main] \in Slots
      BY <1>11 DEF Take
    <2>2. /\ socket' = [socket EXCEPT ![slot[Main]] = new]
          /\ pc' = [pc EXCEPT ![Main] = "release"]
          /\ slot' = slot /\ owed' = owed /\ peer' = peer
      BY <1>11 DEF Take
    <2>3. ASSUME NEW u \in Speakers, pc'[u] \in {"lock", "write", "blocked", "unlock"},
                 NEW c \in owed'[u], peer'[c] # "gone"
          PROVE  \E i \in Ahead(u)' : socket'[i] = c
      <3>1. u # Main /\ pc'[u] = pc[u] /\ c \in Clients
        BY <2>2, <2>3
      <3>2. PICK i \in Ahead(u) : socket[i] = c
        BY <2>2, <2>3, <3>1
      <3>3. i # slot[Main] /\ i \in Slots /\ i \in Ahead(u)'
        BY <2>1, <2>2, <3>1, <3>2
      <3>4. QED
        BY <2>2, <3>2, <3>3
    <2>4. QED
      BY <2>3
  <1>12. ASSUME Release PROVE OwedInv'
    BY <1>12 DEF Release
  <1>13. ASSUME Refuse PROVE OwedInv'
    BY <1>13 DEF Refuse
  <1>14. ASSUME NEW t \in Files \cup {Main}, Interrupt(t) PROVE OwedInv'
    BY <1>14 DEF Interrupt
  <1>15. ASSUME Exit PROVE OwedInv'
    BY <1>15 DEF Exit
  <1>16. ASSUME NEW f \in Files, Change(f) PROVE OwedInv'
    BY <1>16 DEF Change
  <1>17. ASSUME NEW c \in Clients, Connect(c) PROVE OwedInv'
    BY <1>17 DEF Connect
  <1>18. ASSUME NEW c \in Clients, Receive(c) PROVE OwedInv'
    BY <1>18 DEF Receive
  <1>19. ASSUME NEW c \in Clients, Leave(c) PROVE OwedInv'
    BY <1>19 DEF Leave
  <1>20. CASE UNCHANGED vars
    BY <1>20 DEF vars
  <1>21. QED
    BY <1>1, <1>2, <1>3, <1>4, <1>5, <1>6, <1>7, <1>8, <1>9, <1>10, <1>11, <1>12, <1>13,
       <1>14, <1>15, <1>16, <1>17, <1>18, <1>19, <1>20 DEF Next, Watch, Speak, Serve, Die

\* At the last slot nobody is ahead.
LEMMA ForgottenStep == IInv /\ [Next]_vars => NoneForgotten'
  <1> SUFFICES ASSUME IInv, [Next]_vars PROVE NoneForgotten'
    OBVIOUS
  <1> USE NotifierAssumption DEF TypeOK, StepsInv, OwedInv, Ahead, NoneForgotten, IInv, Slots,
      Threads, Speakers, Goto, Broadcast, AfterLoop, Deliver, outside, server
  <1>1. ASSUME NEW t \in Threads, Lock(t) PROVE NoneForgotten'
    BY <1>1 DEF Lock
  <1>2. ASSUME NEW t \in Threads, Unlock(t) PROVE NoneForgotten'
    BY <1>2 DEF Unlock
  <1>3. ASSUME NEW t \in Speakers, Write(t) PROVE NoneForgotten'
    BY <1>3 DEF Write
  <1>4. ASSUME NEW t \in Speakers, WriteFails(t) PROVE NoneForgotten'
    BY <1>4 DEF WriteFails
  <1>5. ASSUME NEW t \in Speakers, WriteBlocks(t) PROVE NoneForgotten'
    BY <1>5 DEF WriteBlocks
  <1>6. ASSUME NEW t \in Speakers, Unblock(t) PROVE NoneForgotten'
    BY <1>6 DEF Unblock
  <1>7. ASSUME NEW t \in Speakers, UnblockFails(t) PROVE NoneForgotten'
    BY <1>7 DEF UnblockFails
  <1>8. ASSUME NEW f \in Files, FirstCheck(f) PROVE NoneForgotten'
    BY <1>8 DEF FirstCheck
  <1>9. ASSUME NEW f \in Files, SeeChange(f) PROVE NoneForgotten'
    BY <1>9 DEF SeeChange
  <1>10. ASSUME Accept PROVE NoneForgotten'
    BY <1>10 DEF Accept
  <1>11. ASSUME Take PROVE NoneForgotten'
    BY <1>11 DEF Take
  <1>12. ASSUME Release PROVE NoneForgotten'
    BY <1>12 DEF Release
  <1>13. ASSUME Refuse PROVE NoneForgotten'
    BY <1>13 DEF Refuse
  <1>14. ASSUME NEW t \in Files \cup {Main}, Interrupt(t) PROVE NoneForgotten'
    BY <1>14 DEF Interrupt
  <1>15. ASSUME Exit PROVE NoneForgotten'
    BY <1>15 DEF Exit
  <1>16. ASSUME NEW f \in Files, Change(f) PROVE NoneForgotten'
    BY <1>16 DEF Change
  <1>17. ASSUME NEW c \in Clients, Connect(c) PROVE NoneForgotten'
    BY <1>17 DEF Connect
  <1>18. ASSUME NEW c \in Clients, Receive(c) PROVE NoneForgotten'
    BY <1>18 DEF Receive
  <1>19. ASSUME NEW c \in Clients, Leave(c) PROVE NoneForgotten'
    BY <1>19 DEF Leave
  <1>20. CASE UNCHANGED vars
    BY <1>20 DEF vars
  <1>21. QED
    BY <1>1, <1>2, <1>3, <1>4, <1>5, <1>6, <1>7, <1>8, <1>9, <1>10, <1>11, <1>12, <1>13,
       <1>14, <1>15, <1>16, <1>17, <1>18, <1>19, <1>20 DEF Next, Watch, Speak, Serve, Die

-----------------------------------------------------------------------------

\* The invariant holds at the start: nothing is locked and nobody waits.
LEMMA InitIInv == Init => IInv
  <1> SUFFICES ASSUME Init PROVE IInv
    OBVIOUS
  <1> USE NotifierAssumption DEF Init, Slots, Threads, Speakers
  <1>1. TypeOK
    BY DEF TypeOK, PCs, Holding, PeerStates, Unreadable
  <1>2. StepsInv /\ MutexInv /\ LoopInv /\ TakeInv
    BY DEF StepsInv, MutexInv, LoopInv, TakeInv, Holding
  <1>3. WritesToClient /\ OwedInv /\ NoneForgotten
    BY DEF WritesToClient, OwedInv, NoneForgotten
  <1>4. QED
    BY <1>1, <1>2, <1>3 DEF IInv

\* Every step keeps it.
LEMMA StepIInv == IInv /\ [Next]_vars => IInv'
  BY TypeStep, StepsStep, MutexStep, LoopStep, TakeStep, WritesStep, OwedStep, ForgottenStep
     DEF IInv

\* The inductive invariant holds in every reachable state.
THEOREM Invariance == Spec => []IInv
  BY InitIInv, StepIInv, PTL DEF Spec

\* The variables keep their types.
THEOREM TypeCorrect == Spec => []TypeOK
  <1>1. IInv => TypeOK
    BY DEF IInv
  <1>2. QED
    BY <1>1, Invariance, PTL

\* Two threads are never at work on one slot, whatever the handler interrupts.
THEOREM Exclusion == Spec => []OneWriter
  <1>1. IInv => OneWriter
    BY NotifierAssumption DEF IInv, TypeOK, MutexInv, OneWriter
  <1>2. QED
    BY <1>1, Invariance, PTL

\* No thread writes to a slot without a client.
THEOREM WritesReachClients == Spec => []WritesToClient
  <1>1. IInv => WritesToClient
    BY DEF IInv
  <1>2. QED
    BY <1>1, Invariance, PTL

\* A broadcast passes over no client that was there when it began, and has not left.
THEOREM BroadcastsReachAll == Spec => []NoneForgotten
  <1>1. IInv => NoneForgotten
    BY DEF IInv
  <1>2. QED
    BY <1>1, Invariance, PTL

-----------------------------------------------------------------------------
(* The table of clients, and what they are told. *)

Elements(s) == {s[i] : i \in DOMAIN s}
Distinct(s) == \A i, j \in DOMAIN s : s[i] = s[j] => i = j

\* The clients that wait to be accepted, and the one accept_client has yet to place.
Waiting == Elements(backlog)
InHand  == IF pc[Main] = "release" THEN {} ELSE {new} \ {None}

\* No client is twice in the backlog, or twice on the table.
OnceInv ==
  /\ Distinct(backlog)
  /\ \A i, j \in Slots : socket[i] # None /\ socket[i] = socket[j] => i = j

\* A client is in the backlog, in the hand of accept_client, or on the table, and in no two.
PlaceInv ==
  /\ pc[Main] = "idle" => new = None
  /\ pc[Main] = "release" => socket[slot[Main]] = new
  /\ InHand \cap Waiting = {}
  /\ Served \cap (Waiting \cup InHand) = {}
  /\ \A c \in Clients : peer[c] \in {"out", "refused"} => c \notin Served \cup Waiting \cup InHand
  /\ \A c \in Clients : peer[c] = "in" => c \in Served \cup Waiting \cup InHand

\* A watcher has the hash of contents its file has or had, and begins to broadcast with one.
HashInv ==
  \A f \in Files :
    /\ contents[f] \in {Unreadable, version[f]}
    /\ hash[f] <= version[f]
    /\ pc[f] # "idle" => hash[f] > 0

\* Nobody is told before it has a slot, or of more than the watcher saw.
ToldInv ==
  \A c \in Clients, f \in Files :
    /\ peer[c] = "out" \/ c \in Waiting \cup InHand => told[c][f] = 0
    /\ told[c][f] <= hash[f]

\* Those a broadcast has yet to come to were not told of what it announces.
NewsInv ==
  \A f \in Files : pc[f] # "idle" =>
    \A i \in Ahead(f) : socket[i] # None => told[socket[i]][f] < hash[f]

TableInv ==
  /\ IInv
  /\ OnceInv
  /\ PlaceInv
  /\ HashInv
  /\ ToldInv
  /\ NewsInv

-----------------------------------------------------------------------------
(* The backlog is a queue. *)

\* The head of a queue of distinct elements is not in its tail.
LEMMA TailOf ==
  ASSUME NEW S, NEW s \in Seq(S), s # <<>>, Distinct(s)
  PROVE  /\ Head(s) \in S /\ Tail(s) \in Seq(S)
         /\ Distinct(Tail(s))
         /\ Elements(s) = {Head(s)} \cup Elements(Tail(s))
         /\ Head(s) \notin Elements(Tail(s))
  <1> DEFINE n == Len(s)
  <1>1. n \in Nat \ {0} /\ DOMAIN s = 1 .. n /\ \A i \in 1 .. n : s[i] \in S
    OBVIOUS
  <1>2. /\ Head(s) = s[1] /\ Tail(s) \in Seq(S) /\ DOMAIN Tail(s) = 1 .. n - 1
        /\ \A i \in 1 .. n - 1 : Tail(s)[i] = s[i + 1]
    BY <1>1
  <1>3. Distinct(Tail(s))
    BY <1>1, <1>2 DEF Distinct
  <1>4. Elements(s) \subseteq {Head(s)} \cup Elements(Tail(s))
    <2> SUFFICES ASSUME NEW i \in 1 .. n, i # 1 PROVE s[i] \in Elements(Tail(s))
      BY <1>1, <1>2 DEF Elements
    <2>1. i - 1 \in 1 .. n - 1 /\ Tail(s)[i - 1] = s[i]
      BY <1>1, <1>2
    <2>2. QED
      BY <1>2, <2>1 DEF Elements
  <1>5. {Head(s)} \cup Elements(Tail(s)) \subseteq Elements(s)
    <2> SUFFICES ASSUME NEW i \in 1 .. n - 1 PROVE s[i + 1] \in Elements(s)
      BY <1>1, <1>2 DEF Elements
    <2>1. QED
      BY <1>1 DEF Elements
  <1>6. Head(s) \notin Elements(Tail(s))
    BY <1>1, <1>2 DEF Distinct, Elements
  <1>7. QED
    BY <1>1, <1>2, <1>3, <1>4, <1>5, <1>6

\* A new element joins the queue.
LEMMA AppendOf ==
  ASSUME NEW S, NEW s \in Seq(S), NEW e \in S, Distinct(s), e \notin Elements(s)
  PROVE  /\ Distinct(Append(s, e))
         /\ Elements(Append(s, e)) = Elements(s) \cup {e}
  <1> DEFINE n == Len(s)
  <1> DEFINE a == Append(s, e)
  <1>1. n \in Nat /\ DOMAIN s = 1 .. n /\ \A i \in 1 .. n : s[i] \in S
    OBVIOUS
  <1>2. DOMAIN a = 1 .. n + 1 /\ a[n + 1] = e /\ \A i \in 1 .. n : a[i] = s[i]
    BY <1>1
  <1>3. \A i \in 1 .. n : a[i] # e
    BY <1>1, <1>2 DEF Elements
  <1> HIDE DEF n, a
  <1>4. Distinct(a)
    BY <1>1, <1>2, <1>3 DEF Distinct
  <1>5. Elements(a) \subseteq Elements(s) \cup {e}
    BY <1>1, <1>2 DEF Elements
  <1>6. Elements(s) \cup {e} \subseteq Elements(a)
    <2>1. n + 1 \in DOMAIN a /\ \A i \in DOMAIN s : i \in DOMAIN a
      BY <1>1, <1>2
    <2>2. QED
      BY <1>1, <1>2, <2>1 DEF Elements
  <1>7. QED
    BY <1>4, <1>5, <1>6 DEF a

-----------------------------------------------------------------------------
(* Steps that leave the places of the clients as they are. *)

\* accept_client keeps what it has in hand, and the clients their places.
Unmoved ==
  /\ UNCHANGED <<socket, backlog, new, peer>>
  /\ pc'[Main] \in {"idle", "release"} \/ pc[Main] \in {"idle", "release"} =>
       pc'[Main] = pc[Main] /\ slot'[Main] = slot[Main]

\* Clients move in seven steps only.
LEMMA Moves ==
  ASSUME IInv, [Next]_vars
  PROVE  \/ Unmoved
         \/ \E t \in Speakers : WriteFails(t)
         \/ Accept \/ Take \/ Release \/ Refuse
         \/ \E c \in Clients : Connect(c) \/ Leave(c)
  <1> USE NotifierAssumption DEF IInv, TypeOK, StepsInv, Unmoved, Threads, Speakers, Goto,
      Broadcast, AfterLoop, Deliver, outside, server
  <1>1. ASSUME NEW t \in Threads, Lock(t) PROVE Unmoved
    BY <1>1 DEF Lock
  <1>2. ASSUME NEW t \in Threads, Unlock(t) PROVE Unmoved
    BY <1>2 DEF Unlock
  <1>3. ASSUME NEW t \in Speakers, Write(t) PROVE Unmoved
    BY <1>3 DEF Write
  <1>4. ASSUME NEW t \in Speakers, WriteBlocks(t) PROVE Unmoved
    BY <1>4 DEF WriteBlocks
  <1>5. ASSUME NEW t \in Speakers, Unblock(t) PROVE Unmoved
    BY <1>5 DEF Unblock
  <1>6. ASSUME NEW t \in Speakers, UnblockFails(t) PROVE Unmoved
    BY <1>6 DEF UnblockFails
  <1>7. ASSUME NEW f \in Files, FirstCheck(f) \/ SeeChange(f) PROVE Unmoved
    BY <1>7 DEF FirstCheck, SeeChange
  <1>8. ASSUME NEW t \in Files \cup {Main}, Interrupt(t) PROVE Unmoved
    BY <1>8 DEF Interrupt
  <1>9. ASSUME Exit PROVE Unmoved
    BY <1>9 DEF Exit
  <1>10. ASSUME NEW f \in Files, Change(f) PROVE Unmoved
    BY <1>10 DEF Change
  <1>11. ASSUME NEW c \in Clients, Receive(c) PROVE Unmoved
    BY <1>11 DEF Receive
  <1>12. CASE UNCHANGED vars
    BY <1>12 DEF vars
  <1>13. QED
    BY <1>1, <1>2, <1>3, <1>4, <1>5, <1>6, <1>7, <1>8, <1>9, <1>10, <1>11, <1>12
       DEF Next, Watch, Speak, Serve, Die

-----------------------------------------------------------------------------
(* One place for a client. *)

\* Whoever leaves the backlog is in no other place, and takes a free slot.
LEMMA OnceStep == IInv /\ OnceInv /\ PlaceInv /\ [Next]_vars => OnceInv'
  <1> SUFFICES ASSUME IInv, OnceInv, PlaceInv, [Next]_vars PROVE OnceInv'
    OBVIOUS
  <1> USE NotifierAssumption DEF IInv, TypeOK, StepsInv, OnceInv, PlaceInv, Slots, Threads,
      Speakers, Served, InHand, Waiting, Goto, outside, server
  <1>1. CASE Unmoved
    BY <1>1 DEF Unmoved
  <1>2. ASSUME NEW t \in Speakers, WriteFails(t) PROVE OnceInv'
    BY <1>2 DEF WriteFails
  <1>3. ASSUME Accept PROVE OnceInv'
    BY <1>3, TailOf DEF Accept
  <1>4. ASSUME Take PROVE OnceInv'
    BY <1>4 DEF Take
  <1>5. ASSUME Release \/ Refuse PROVE OnceInv'
    BY <1>5 DEF Release, Refuse
  <1>6. ASSUME NEW c \in Clients, Connect(c) PROVE OnceInv'
    BY <1>6, AppendOf DEF Connect
  <1>7. ASSUME NEW c \in Clients, Leave(c) PROVE OnceInv'
    BY <1>7 DEF Leave
  <1>8. QED
    BY <1>1, <1>2, <1>3, <1>4, <1>5, <1>6, <1>7, Moves

\* A client goes from the backlog to the hand of accept_client, and from there to a slot, or it is
\* refused; it leaves its slot when it is gone.
LEMMA PlaceStep == IInv /\ OnceInv /\ PlaceInv /\ [Next]_vars => PlaceInv'
  <1> SUFFICES ASSUME IInv, OnceInv, PlaceInv, [Next]_vars PROVE PlaceInv'
    OBVIOUS
  <1> USE NotifierAssumption DEF IInv, TypeOK, StepsInv, TakeInv, OnceInv, PlaceInv, Slots,
      Threads, Speakers, Served, InHand, Waiting, Goto, outside, server
  <1>1. CASE Unmoved
    BY <1>1, SMTT(30) DEF Unmoved
  <1>2. ASSUME NEW t \in Speakers, WriteFails(t) PROVE PlaceInv'
    BY <1>2 DEF WriteFails, MutexInv, Holding
  <1>3. ASSUME Accept PROVE PlaceInv'
    BY <1>3, TailOf, SMTT(30) DEF Accept
  <1>4. ASSUME Take PROVE PlaceInv'
    BY <1>4 DEF Take
  <1>5. ASSUME Release PROVE PlaceInv'
    BY <1>5 DEF Release
  <1>6. ASSUME Refuse PROVE PlaceInv'
    BY <1>6 DEF Refuse
  <1>7. ASSUME NEW c \in Clients, Connect(c) PROVE PlaceInv'
    <2>1. c \notin Served \cup Waiting \cup InHand
      BY <1>7 DEF Connect
    <2>2. Waiting' = Waiting \cup {c}
      BY <2>1, <1>7, AppendOf DEF Connect
    <2>3. Served' = Served /\ InHand' = InHand /\ peer' = [peer EXCEPT ![c] = "in"]
      BY <1>7 DEF Connect
    <2> HIDE DEF Waiting, InHand, Served
    <2>4. QED
      BY <2>1, <2>2, <2>3, <1>7 DEF Connect
  <1>8. ASSUME NEW c \in Clients, Leave(c) PROVE PlaceInv'
    BY <1>8 DEF Leave, PeerStates
  <1>9. QED
    BY <1>1, <1>2, <1>3, <1>4, <1>5, <1>6, <1>7, <1>8, Moves

-----------------------------------------------------------------------------
(* What is new to a client. *)

\* A watcher takes its hash from the file before it broadcasts, and versions only grow.
LEMMA HashStep == IInv /\ HashInv /\ [Next]_vars => HashInv'
  <1> SUFFICES ASSUME IInv, HashInv, [Next]_vars PROVE HashInv'
    OBVIOUS
  <1> USE NotifierAssumption DEF IInv, TypeOK, StepsInv, HashInv, Threads, Speakers, Goto,
      Broadcast, AfterLoop, Deliver, Unreadable, outside, server
  <1>1. ASSUME NEW t \in Threads, Lock(t) \/ Unlock(t) PROVE HashInv'
    BY <1>1 DEF Lock, Unlock
  <1>2. ASSUME NEW t \in Speakers, Write(t) \/ WriteFails(t) \/ WriteBlocks(t) PROVE HashInv'
    BY <1>2 DEF Write, WriteFails, WriteBlocks
  <1>3. ASSUME NEW t \in Speakers, Unblock(t) \/ UnblockFails(t) PROVE HashInv'
    BY <1>3 DEF Unblock, UnblockFails
  <1>4. ASSUME NEW f \in Files, FirstCheck(f) PROVE HashInv'
    BY <1>4 DEF FirstCheck
  <1>5. ASSUME NEW f \in Files, SeeChange(f) PROVE HashInv'
    BY <1>5 DEF SeeChange
  <1>6. ASSUME Accept \/ Take \/ Release \/ Refuse \/ Exit PROVE HashInv'
    BY <1>6 DEF Accept, Take, Release, Refuse, Exit
  <1>7. ASSUME NEW t \in Files \cup {Main}, Interrupt(t) PROVE HashInv'
    BY <1>7 DEF Interrupt
  <1>8. ASSUME NEW f \in Files, Change(f) PROVE HashInv'
    BY <1>8 DEF Change
  <1>9. ASSUME NEW c \in Clients, Connect(c) \/ Receive(c) \/ Leave(c) PROVE HashInv'
    BY <1>9 DEF Connect, Receive, Leave
  <1>10. CASE UNCHANGED vars
    BY <1>10 DEF vars
  <1>11. QED
    BY <1>1, <1>2, <1>3, <1>4, <1>5, <1>6, <1>7, <1>8, <1>9, <1>10
       DEF Next, Watch, Speak, Serve, Die

\* Only who has a slot is told, and of the hash of the watcher, which does not go back.
LEMMA ToldStep ==
  IInv /\ OnceInv /\ PlaceInv /\ HashInv /\ ToldInv /\ [Next]_vars => ToldInv'
  <1> SUFFICES ASSUME IInv, OnceInv, PlaceInv, HashInv, ToldInv, [Next]_vars PROVE ToldInv'
    OBVIOUS
  <1>1. ASSUME NEW t \in Speakers, Write(t) \/ Unblock(t) PROVE ToldInv'
    <2> DEFINE c == socket[slot[t]]
    <2>1. c \in Served /\ c \in Clients
      BY <1>1, NotifierAssumption
         DEF IInv, TypeOK, WritesToClient, Served, Threads, Speakers, Write, Unblock
    <2>2. c \notin Waiting \cup InHand /\ peer[c] # "out"
      BY <2>1 DEF PlaceInv
    <2>3. /\ UNCHANGED <<peer, hash, backlog, new>>
          /\ told' = IF t = Handler THEN told ELSE [told EXCEPT ![c][t] = hash[t]]
          /\ Waiting' = Waiting /\ InHand' = InHand
      BY <1>1, NotifierAssumption DEF IInv, TypeOK, Threads, Speakers, Write, Unblock, Deliver,
         Goto, outside, Waiting, InHand
    <2> HIDE DEF c
    <2>4. QED
      BY <2>1, <2>2, <2>3, NotifierAssumption DEF IInv, TypeOK, Speakers, ToldInv
  <1>2. ASSUME NEW f \in Files, FirstCheck(f) \/ SeeChange(f) PROVE ToldInv'
    <2>1. hash[f] <= contents[f]
      BY <1>2 DEF FirstCheck, SeeChange, HashInv, Unreadable
    <2>2. /\ UNCHANGED <<peer, told>> /\ Waiting' = Waiting /\ InHand' = InHand
          /\ hash' = [hash EXCEPT ![f] = contents[f]]
      BY <1>2, NotifierAssumption DEF IInv, TypeOK, Threads, Speakers, FirstCheck, SeeChange,
         Broadcast, Goto, outside, Waiting, InHand
    <2>3. QED
      BY <2>1, <2>2 DEF IInv, TypeOK, ToldInv
  <1>3. ASSUME UNCHANGED <<told, hash>>,
               \A c \in Clients : peer'[c] = "out" \/ c \in Waiting' \cup InHand' =>
                                   peer[c] = "out" \/ c \in Waiting \cup InHand
        PROVE  ToldInv'
    BY <1>3 DEF ToldInv
  <1>4. CASE Unmoved /\ UNCHANGED <<told, hash>>
    BY <1>3, <1>4 DEF Unmoved, Waiting, InHand
  <1>5. ASSUME NEW t \in Speakers, WriteFails(t) PROVE ToldInv'
    BY <1>3, <1>5, NotifierAssumption DEF IInv, TypeOK, Threads, Speakers, WriteFails, Goto,
       outside, Waiting, InHand
  <1>6. ASSUME Accept PROVE ToldInv'
    <2>1. Elements(backlog) = {Head(backlog)} \cup Elements(Tail(backlog))
      BY <1>6, TailOf DEF Accept, IInv, TypeOK, OnceInv
    <2>2. QED
      BY <1>3, <1>6, <2>1 DEF Accept, Waiting, InHand
  <1>7. ASSUME Take \/ Release \/ Refuse PROVE ToldInv'
    BY <1>3, <1>7, NotifierAssumption DEF IInv, TypeOK, Threads, Take, Release, Refuse, Goto,
       outside, Waiting, InHand
  <1>8. ASSUME NEW c \in Clients, Connect(c) PROVE ToldInv'
    <2>1. Waiting' = Waiting \cup {c}
      BY <1>8, AppendOf DEF Connect, PlaceInv, Waiting, IInv, TypeOK, OnceInv
    <2>2. QED
      BY <1>3, <1>8, <2>1 DEF Connect, IInv, TypeOK, server, InHand
  <1>9. ASSUME NEW c \in Clients, Leave(c) PROVE ToldInv'
    BY <1>3, <1>9 DEF Leave, IInv, TypeOK, server, Waiting, InHand
  <1>10. QED
    <2>1. \/ \E t \in Speakers : Write(t) \/ Unblock(t)
          \/ \E f \in Files : FirstCheck(f) \/ SeeChange(f)
          \/ UNCHANGED <<told, hash>>
      BY DEF Next, Watch, Speak, Serve, Die, Speakers, Lock, Unlock, WriteFails, WriteBlocks,
         UnblockFails, Accept, Take, Release, Refuse, Exit, Interrupt, Change, Connect, Receive,
         Leave, server, vars
    <2>2. QED
      BY <2>1, <1>1, <1>2, <1>4, <1>5, <1>6, <1>7, <1>8, <1>9, Moves

\* A broadcast begins with news for everybody; who gets a slot meanwhile was told of nothing, and
\* who is told has one slot, which the broadcast leaves behind.
LEMMA NewsStep ==
  IInv /\ OnceInv /\ PlaceInv /\ HashInv /\ ToldInv /\ NewsInv /\ [Next]_vars => NewsInv'
  <1> SUFFICES ASSUME IInv, OnceInv, PlaceInv, HashInv, ToldInv, NewsInv, [Next]_vars
               PROVE  NewsInv'
    OBVIOUS
  <1> USE NotifierAssumption DEF IInv, TypeOK, StepsInv, NewsInv, Ahead, Slots, Threads, Speakers,
      Goto, outside, server
  <1>1. ASSUME NEW t \in Threads, Lock(t) PROVE NewsInv'
    BY <1>1 DEF Lock
  <1>2. ASSUME NEW t \in Threads, Unlock(t) PROVE NewsInv'
    BY <1>2 DEF Unlock, AfterLoop
  <1>3. ASSUME NEW t \in Speakers, Write(t) \/ Unblock(t) PROVE NewsInv'
    <2> DEFINE c == socket[slot[t]]
    <2>1. c \in Clients /\ slot[t] \in Slots
      BY <1>3 DEF WritesToClient, Write, Unblock
    <2>2. /\ UNCHANGED <<hash, socket, slot>>
          /\ told' = IF t = Handler THEN told ELSE [told EXCEPT ![c][t] = hash[t]]
          /\ pc' = [pc EXCEPT ![t] = "unlock"]
          /\ pc[t] \in {"write", "blocked"}
      BY <1>3 DEF Write, Unblock, Deliver
    <2>3. \A i \in Slots : i # slot[t] => socket[i] # c
      BY <2>1 DEF OnceInv
    <2> SUFFICES ASSUME NEW f \in Files, pc'[f] # "idle", NEW i \in Slots, i \in Ahead(f)',
                        socket[i] # None
                 PROVE  told'[socket[i]][f] < hash[f]
      BY <2>2
    <2>4. i \in Ahead(f) /\ told[socket[i]][f] < hash[f]
      BY <2>2
    <2>5. CASE f = t
      <3>1. i # slot[t] /\ socket[i] \in Clients /\ socket[i] # c
        BY <2>2, <2>3, <2>5
      <3>2. QED
        BY <2>1, <2>2, <2>4, <3>1
    <2>6. CASE f # t
      <3>1. told'[socket[i]][f] = told[socket[i]][f]
        BY <2>1, <2>2, <2>6
      <3>2. QED
        BY <2>4, <3>1
    <2>7. QED
      BY <2>5, <2>6
  <1>4. ASSUME NEW t \in Speakers, WriteFails(t) PROVE NewsInv'
    BY <1>4 DEF WriteFails
  <1>5. ASSUME NEW t \in Speakers, WriteBlocks(t) \/ UnblockFails(t) PROVE NewsInv'
    BY <1>5 DEF WriteBlocks, UnblockFails
  <1>6. ASSUME NEW f \in Files, FirstCheck(f) PROVE NewsInv'
    BY <1>6 DEF FirstCheck
  <1>7. ASSUME NEW f \in Files, SeeChange(f) PROVE NewsInv'
    <2>1. hash[f] < contents[f] /\ \A c \in Clients : told[c][f] < contents[f]
      BY <1>7 DEF SeeChange, HashInv, ToldInv, Unreadable
    <2>2. /\ UNCHANGED <<socket, slot, told>> /\ hash' = [hash EXCEPT ![f] = contents[f]]
          /\ pc' = [pc EXCEPT ![f] = "lock"]
      BY <1>7 DEF SeeChange, Broadcast
    <2>3. QED
      BY <2>1, <2>2
  <1>8. ASSUME Take PROVE NewsInv'
    <2>1. new \in Clients /\ \A f \in Files : told[new][f] = 0
      BY <1>8 DEF Take, TakeInv, InHand, ToldInv
    <2>2. QED
      BY <1>8, <2>1 DEF Take, HashInv
  <1>9. ASSUME Accept \/ Release \/ Refuse \/ Exit PROVE NewsInv'
    BY <1>9 DEF Accept, Release, Refuse, Exit
  <1>10. ASSUME NEW t \in Files \cup {Main}, Interrupt(t) PROVE NewsInv'
    BY <1>10 DEF Interrupt, Broadcast
  <1>11. ASSUME NEW f \in Files, Change(f) PROVE NewsInv'
    BY <1>11 DEF Change
  <1>12. ASSUME NEW c \in Clients, Connect(c) \/ Receive(c) \/ Leave(c) PROVE NewsInv'
    BY <1>12 DEF Connect, Receive, Leave
  <1>13. CASE UNCHANGED vars
    BY <1>13 DEF vars
  <1>14. QED
    BY <1>1, <1>2, <1>3, <1>4, <1>5, <1>6, <1>7, <1>8, <1>9, <1>10, <1>11, <1>12, <1>13
       DEF Next, Watch, Speak, Serve, Die

-----------------------------------------------------------------------------

\* It all holds at the start: nobody has connected and no file was looked at.
LEMMA InitTableInv == Init => TableInv
  <1> SUFFICES ASSUME Init PROVE TableInv
    OBVIOUS
  <1> USE NotifierAssumption DEF Init, Slots, Threads, Speakers
  <1>1. OnceInv /\ PlaceInv
    BY DEF OnceInv, Distinct, PlaceInv, InHand, Waiting, Elements, Served
  <1>2. HashInv /\ ToldInv /\ NewsInv
    BY DEF HashInv, ToldInv, NewsInv, Unreadable
  <1>3. QED
    BY <1>1, <1>2, InitIInv DEF TableInv

\* Every step keeps it.
LEMMA StepTableInv == TableInv /\ [Next]_vars => TableInv'
  BY StepIInv, OnceStep, PlaceStep, HashStep, ToldStep, NewsStep DEF TableInv

\* The places of the clients and what they were told, in every reachable state.
THEOREM TableInvariance == Spec => []TableInv
  BY InitTableInv, StepTableInv, PTL DEF Spec

\* A client the server accepted has one slot, until it leaves.
THEOREM SlotsKept == Spec => []SlotKept
  <1>1. TableInv => SlotKept
    <2> SUFFICES ASSUME TableInv, NEW c \in Clients, peer[c] = "in", c # new,
                        \A i \in DOMAIN backlog : backlog[i] # c
                 PROVE  Cardinality({i \in Slots : socket[i] = c}) = 1
      BY DEF SlotKept
    <2>1. c \in Served
      BY DEF TableInv, PlaceInv, Waiting, Elements, InHand
    <2>2. PICK k \in Slots : socket[k] = c /\ c # None
      BY <2>1 DEF Served
    <2>3. {i \in Slots : socket[i] = c} = {k}
      BY <2>2 DEF TableInv, OnceInv
    <2>4. QED
      BY <2>3, FS_Singleton
  <1>2. QED
    BY <1>1, TableInvariance, PTL

\* A broadcast tells no client what it was told before, whatever becomes of the file meanwhile.
THEOREM OnlyNews == Spec => NoFalseAlarm
  <1>1. TableInv /\ [Next]_vars =>
          [\A f \in Files : (Write(f) \/ Unblock(f)) =>
             \E c \in Clients : told'[c][f] > told[c][f]]_vars
    <2> SUFFICES ASSUME TableInv, NEW f \in Files, Write(f) \/ Unblock(f)
                 PROVE  \E c \in Clients : told'[c][f] > told[c][f]
      OBVIOUS
    <2> DEFINE c == socket[slot[f]]
    <2>1. slot[f] \in Slots /\ slot[f] \in Ahead(f) /\ c \in Clients /\ c # None
      BY NotifierAssumption DEF TableInv, IInv, TypeOK, WritesToClient, Threads, Speakers, Slots,
         Ahead, Write, Unblock
    <2>2. told[c][f] < hash[f]
      BY <2>1 DEF TableInv, NewsInv, Write, Unblock
    <2>3. told'[c][f] = hash[f]
      BY <2>1, NotifierAssumption DEF TableInv, IInv, TypeOK, Write, Unblock, Deliver
    <2>4. told[c][f] \in Nat /\ hash[f] \in Nat
      BY <2>1 DEF TableInv, IInv, TypeOK
    <2>5. QED
      BY <2>1, <2>2, <2>3, <2>4
  <1>2. QED
    BY <1>1, TableInvariance, PTL DEF Spec, NoFalseAlarm

=============================================================================
