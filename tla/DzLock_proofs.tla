---------------------------- MODULE DzLock_proofs ----------------------------
(***************************************************************************)
(* For any number of processes, files and commands: the invariants of      *)
(* DzLock.  Locks are where the steps of the processes say they are, two   *)
(* processes never both have one to write with, and so what a process has  *)
(* read of a file stays true while it has the file open.                   *)
(***************************************************************************)
EXTENDS DzLock, TLAPS

\* The files whose lock a process has.
Held(p) ==
  {f \in Files : \/ f = Cur(p) /\ pc[p] \in Locked
                 \/ f = job[p].file /\ nested[p]}

\* The lock a process has on a file it holds: add only reads the files it takes.
HeldMode(p, f) == IF Writes(p) /\ (Takes(p) => f = job[p].file) THEN "EX" ELSE "SH"

\* Only some commands come to some steps; a process in dz2tlv is an import between open and close
\* of the other dazibao, one in cli_mk_tlv is an add at a file it takes, and neither can lock that
\* file when it is the one it has open already.
StepsInv ==
  \A p \in Procs :
    /\ pc[p] \in {"create", "mapNew", "head"} => job[p].kind = "create"
    /\ pc[p] \in {"map", "loaded", "changing", "sync"} => Writes(p)
    /\ pc[p] \in {"access", "peek"} => Takes(p)
    /\ nested[p] => /\ job[p].kind \in {"import", "take"}
                    /\ pc[p] \notin Ended \cup {"loaded", "changing"}
                    /\ pc[p] \in Locked => job[p].from # job[p].file
    /\ Takes(p) => pc[p] \in {"open", "access", "peek", "lock", "unlock"}

LocksInv ==
  \A f \in Files : \A p \in Procs : lock[f][p] = IF f \in Held(p) THEN HeldMode(p, f) ELSE "no"

Exclusive ==
  \A f \in Files : \A p, q \in Procs : p # q /\ lock[f][p] = "EX" => lock[f][q] = "no"

\* The file a process is at, or has open, exists: none is ever removed.
PresentInv ==
  \A p \in Procs :
    /\ pc[p] \notin Ended \cup {"create", "open", "access"} => size[Cur(p)] # "absent"
    /\ nested[p] => size[job[p].file] # "absent"

\* A change is not ended only by a process that is at it, or died there.
MidInv ==
  \A f \in Files : \A p \in mid[f] : pc[p] = "dead" \/ (pc[p] = "changing" /\ f = Cur(p))

\* A file is longer than what was written only for a process that has it mapped, or had.
PaddedInv ==
  \A f \in Files : size[f] = "padded" => hurt[f] \/ \E p \in Procs : f \in Mapped(p)

IInv ==
  /\ TypeOK
  /\ StepsInv
  /\ PresentInv
  /\ LocksInv
  /\ Exclusive
  /\ LengthCurrent
  /\ NoUpdateLost
  /\ MidInv
  /\ PaddedInv
  /\ PaddingUnseen

-----------------------------------------------------------------------------

\* What a process has open, or has mapped to write, it has the lock of.
LEMMA OpenedIsHeld == \A p \in Procs : OpenedBy(p) \subseteq Held(p) /\ Mapped(p) \subseteq
    Held(p)
  BY DEF OpenedBy, Opened, Mapped, Stretched, Held, Locked, PCs, Ended

\* The lock of a file to write with is one process's.
LEMMA WriterAlone ==
  ASSUME LocksInv, Exclusive,
         NEW p \in Procs, NEW q \in Procs, p # q,
         NEW f \in Held(p), HeldMode(p, f) = "EX"
  PROVE  f \notin Held(q)
  <1>1. f \in Files /\ lock[f][p] = "EX"
    BY DEF LocksInv, Held
  <1>2. lock[f][q] = "no"
    BY <1>1 DEF Exclusive
  <1>3. QED
    BY <1>1, <1>2 DEF LocksInv, HeldMode

\* Where a process is, is a file.
LEMMA CurFile == ASSUME TypeOK, NEW p \in Procs PROVE Cur(p) \in Files /\ job[p].file \in Files
  BY JobsAssumption DEF TypeOK, Cur

\* The variables keep their types.
LEMMA TypeStep == TypeOK /\ PresentInv /\ [Next]_vars => TypeOK'
  <1> SUFFICES ASSUME TypeOK /\ PresentInv, [Next]_vars PROVE TypeOK'
    OBVIOUS
  <1> USE JobsAssumption DEF TypeOK, PresentInv, Goto, End, Cur, Writes, Takes, Mode, Mapped, PCs,
      Ended, Sizes, Modes, Kinds
  <1>1. ASSUME NEW p \in Procs, Flock(p) PROVE TypeOK'
    BY <1>1 DEF Flock
  <1>2. ASSUME NEW p \in Procs, Stat(p) PROVE TypeOK'
    <2>1. Cur(p) \in Files
      BY CurFile
    <2>2. size[Cur(p)] \in Sizes \ {"absent"}
      BY <2>1, <1>2 DEF Stat
    <2>3. pc' \in [Procs -> PCs]
      BY <1>2 DEF Stat
    <2>4. seen' \in [Procs -> [Files -> Sizes \ {"absent"}]] /\ snap' \in [Procs -> [Files ->
        Nat]]
      BY <2>1, <2>2, <1>2 DEF Stat
    <2>5. QED
      BY <2>3, <2>4, <1>2 DEF Stat
  <1>3. ASSUME NEW p \in Procs, GiveUp(p) PROVE TypeOK'
    BY <1>3 DEF GiveUp
  <1>4. ASSUME NEW p \in Procs, WriteHeader(p) PROVE TypeOK'
    BY <1>4 DEF WriteHeader
  <1>5. ASSUME NEW p \in Procs, BeginChange(p) PROVE TypeOK'
    BY <1>5 DEF BeginChange
  <1>6. ASSUME NEW p \in Procs, EndChange(p) PROVE TypeOK'
    BY <1>6 DEF EndChange
  <1>7. ASSUME NEW p \in Procs, Sync(p) PROVE TypeOK'
    BY <1>7 DEF Sync
  <1>8. ASSUME NEW p \in Procs, Unlock(p) PROVE TypeOK'
    BY <1>8 DEF Unlock
  <1>9. ASSUME NEW p \in Procs, Crash(p) PROVE TypeOK'
    BY <1>9 DEF Crash
  <1>10. ASSUME NEW p \in Procs,
              \/ OpenPath(p) \/ CreatePath(p) \/ Map(p) \/ CheckHeader(p) \/ MapNew(p)
              \/ Read(p) \/ Nest(p) \/ Copy(p) \/ NoFile(p) \/ Access(p)
       PROVE  TypeOK'
    BY <1>10 DEF OpenPath, CreatePath, Map, CheckHeader, MapNew, Read, Nest, Copy, NoFile, Access
  <1>11. ASSUME NEW p \in Procs, Peek(p) PROVE TypeOK'
    <2>1. Cur(p) \in Files /\ size[Cur(p)] \in Sizes \ {"absent"}
      BY CurFile, <1>11 DEF Peek
    <2>2. QED
      BY <2>1, <1>11 DEF Peek
  <1>12. CASE UNCHANGED vars
    BY <1>12 DEF vars
  <1>13. QED
    BY <1>1, <1>2, <1>3, <1>4, <1>5, <1>6, <1>7, <1>8, <1>9, <1>10, <1>11, <1>12 DEF Next, Step

\* A process that waits for a lock it has itself never gets it, so dz2tlv never opens, and never
\* closes, the dazibao it was called with.
LEMMA StepsStep == IInv /\ [Next]_vars => StepsInv'
  <1> SUFFICES ASSUME IInv, [Next]_vars PROVE StepsInv'
    OBVIOUS
  <1> USE JobsAssumption DEF IInv, TypeOK, StepsInv, Kinds, Compatible, LocksInv, Held,
      HeldMode, Locked, Goto, End, Cur, Writes, Takes, Mode, PCs, Ended
  <1>1. ASSUME NEW p \in Procs, Flock(p) PROVE StepsInv'
    BY <1>1 DEF Flock
  <1>2. ASSUME NEW p \in Procs, Stat(p) PROVE StepsInv'
    BY <1>2 DEF Stat
  <1>3. ASSUME NEW p \in Procs, GiveUp(p) PROVE StepsInv'
    BY <1>3 DEF GiveUp
  <1>4. ASSUME NEW p \in Procs, Nest(p) PROVE StepsInv'
    BY <1>4 DEF Nest
  <1>5. ASSUME NEW p \in Procs, Copy(p) PROVE StepsInv'
    BY <1>5 DEF Copy
  <1>6. ASSUME NEW p \in Procs, Unlock(p) PROVE StepsInv'
    BY <1>6 DEF Unlock
  <1>7. ASSUME NEW p \in Procs,
              \/ OpenPath(p) \/ CreatePath(p) \/ Map(p) \/ CheckHeader(p) \/ MapNew(p)
              \/ WriteHeader(p) \/ Read(p) \/ BeginChange(p) \/ EndChange(p) \/ Sync(p)
              \/ Crash(p)
              \/ NoFile(p) \/ Access(p) \/ Peek(p)
       PROVE  StepsInv'
    BY <1>7 DEF OpenPath, CreatePath, Map, CheckHeader, MapNew, WriteHeader, Read,
       BeginChange, EndChange, Sync, Crash, NoFile, Access, Peek
  <1>8. CASE UNCHANGED vars
    BY <1>8 DEF vars
  <1>9. QED
    BY <1>1, <1>2, <1>3, <1>4, <1>5, <1>6, <1>7, <1>8 DEF Next, Step

\* No step removes a file.
LEMMA PresentStep == IInv /\ [Next]_vars => PresentInv'
  <1> SUFFICES ASSUME IInv, [Next]_vars PROVE PresentInv'
    OBVIOUS
  <1> USE JobsAssumption DEF IInv, TypeOK, PresentInv, Sizes, Goto, End, Cur, Ended
  <1>1. ASSUME NEW p \in Procs, OpenPath(p) PROVE PresentInv'
    BY <1>1 DEF OpenPath, StepsInv, Takes
  <1>2. ASSUME NEW p \in Procs, CreatePath(p) PROVE PresentInv'
    BY <1>2 DEF CreatePath
  <1>3. ASSUME NEW p \in Procs, Nest(p) PROVE PresentInv'
    BY <1>3 DEF Nest
  <1>4. ASSUME NEW p \in Procs, Sync(p) PROVE PresentInv'
    BY <1>4 DEF Sync
  <1>5. ASSUME NEW p \in Procs, Unlock(p) PROVE PresentInv'
    BY <1>5 DEF Unlock
  <1>6. ASSUME NEW p \in Procs, Flock(p) PROVE PresentInv'
    BY <1>6 DEF Flock
  <1>7. ASSUME NEW p \in Procs, Access(p) PROVE PresentInv'
    BY <1>7 DEF Access, StepsInv, Takes
  <1>8. ASSUME NEW p \in Procs,
              Stat(p) \/ CheckHeader(p) \/ WriteHeader(p) \/ Read(p) \/ Copy(p)
       PROVE  PresentInv'
    BY <1>8 DEF Stat, CheckHeader, WriteHeader, Read, Copy
  <1>9. ASSUME NEW p \in Procs,
              BeginChange(p) \/ EndChange(p) \/ NoFile(p) \/ Peek(p)
       PROVE  PresentInv'
    BY <1>9 DEF BeginChange, EndChange, NoFile, Peek
  <1>10. ASSUME NEW p \in Procs, GiveUp(p) \/ Crash(p) PROVE PresentInv'
    BY <1>10 DEF GiveUp, Crash
  <1>11. ASSUME NEW p \in Procs, Map(p) \/ MapNew(p) PROVE PresentInv'
    <2>1. /\ Cur(p) \in Files /\ nested' = nested /\ job' = job
          /\ \A f \in Files : size'[f] \in {size[f], "padded"}
          /\ \A q \in Procs : q # p => pc'[q] = pc[q]
      BY CurFile, <1>11 DEF Map, MapNew
    <2>2. pc[p] \notin Ended \cup {"create", "open", "access"}
      BY <1>11 DEF Map, MapNew
    <2>3. ASSUME NEW q \in Procs, pc'[q] \notin Ended \cup {"create", "open", "access"}
          PROVE  size'[Cur(q)'] # "absent"
      BY CurFile, <2>1, <2>2, <2>3
    <2>4. ASSUME NEW q \in Procs, nested'[q] PROVE size'[job'[q].file] # "absent"
      BY CurFile, <2>1, <2>4
    <2>5. QED
      BY <2>3, <2>4
  <1>12. CASE UNCHANGED vars
    BY <1>12 DEF vars
  <1>13. QED
    BY <1>1, <1>2, <1>3, <1>4, <1>5, <1>6, <1>7, <1>8, <1>9, <1>10, <1>11, <1>12 DEF Next, Step

\* Taking a lock, giving it back and ending are the steps that change one.
LEMMA LocksStep == IInv /\ [Next]_vars => LocksInv'
  <1> SUFFICES ASSUME IInv, [Next]_vars PROVE LocksInv'
    OBVIOUS
  <1> USE JobsAssumption DEF IInv, TypeOK, StepsInv, LocksInv, Held, HeldMode, Locked, Kinds, Goto,
      End, Cur, Writes, Takes, Mode, PCs, Ended
  <1>1. ASSUME NEW p \in Procs, Flock(p) PROVE LocksInv'
    <2>1. Cur(p) \in Files /\ job[p].file \in Files
      BY CurFile
    <2>2. nested[p] => Cur(p) # job[p].file
      BY <2>1, <1>1 DEF Flock, Compatible
    <2>3. ASSUME NEW f \in Files, NEW q \in Procs, q # p
          PROVE  lock'[f][q] = IF f \in Held(q)' THEN HeldMode(q, f)' ELSE "no"
      BY <2>1, <2>3, <1>1 DEF Flock
    <2>4. ASSUME NEW f \in Files
          PROVE  lock'[f][p] = IF f \in Held(p)' THEN HeldMode(p, f)' ELSE "no"
      <3>1. /\ Cur(p)' = Cur(p) /\ Takes(p)' = Takes(p) /\ pc'[p] \in Locked
            /\ HeldMode(p, f)' = HeldMode(p, f)
        BY <1>1 DEF Flock
      <3>2. lock'[f][p] = IF f = Cur(p) THEN Mode(p) ELSE lock[f][p]
        BY <2>1, <1>1 DEF Flock
      <3>3. Mode(p) = HeldMode(p, Cur(p))
        BY <2>2, <2>1
      <3>4. CASE f = Cur(p)
        BY <3>1, <3>2, <3>3, <3>4
      <3>5. CASE f # Cur(p)
        <4>1. f \in Held(p)' <=> f \in Held(p)
          BY <3>1, <3>5, <1>1 DEF Flock
        <4>2. lock'[f][p] = lock[f][p]
          BY <3>2, <3>5
        <4>3. QED
          BY <4>1, <4>2, <3>1 DEF IInv, LocksInv
      <3>6. QED
        BY <3>4, <3>5
    <2> HIDE DEF Held, HeldMode, TypeOK, StepsInv
    <2>5. QED
      BY <2>3, <2>4
  <1>2. ASSUME NEW p \in Procs, GiveUp(p) PROVE LocksInv'
    BY <1>2 DEF GiveUp
  <1>3. ASSUME NEW p \in Procs, Nest(p) PROVE LocksInv'
    BY <1>3 DEF Nest
  <1>4. ASSUME NEW p \in Procs, Unlock(p) PROVE LocksInv'
    BY <1>4 DEF Unlock
  <1>5. ASSUME NEW p \in Procs, Crash(p) PROVE LocksInv'
    BY <1>5 DEF Crash
  <1>6. ASSUME NEW p \in Procs,
              \/ CreatePath(p) \/ Map(p) \/ CheckHeader(p) \/ MapNew(p) \/ WriteHeader(p)
              \/ Read(p) \/ Copy(p)
       PROVE  LocksInv'
    BY <1>6 DEF CreatePath, Map, CheckHeader, MapNew, WriteHeader, Read, Copy
  <1>7. ASSUME NEW p \in Procs,
              OpenPath(p) \/ Stat(p) \/ BeginChange(p) \/ EndChange(p) \/ Sync(p)
       PROVE  LocksInv'
    BY <1>7 DEF OpenPath, Stat, BeginChange, EndChange, Sync
  <1>8. ASSUME NEW p \in Procs, Access(p) PROVE LocksInv'
    BY <1>8 DEF Access
  <1>9. ASSUME NEW p \in Procs, NoFile(p) \/ Peek(p) PROVE LocksInv'
    BY <1>9 DEF NoFile, Peek
  <1>10. CASE UNCHANGED vars
    BY <1>10 DEF vars
  <1>11. QED
    BY <1>1, <1>2, <1>3, <1>4, <1>5, <1>6, <1>7, <1>8, <1>9, <1>10 DEF Next, Step

\* Flock grants a lock to write with to a process only when no process has any.
LEMMA ExclusiveStep == IInv /\ [Next]_vars => Exclusive'
  <1> SUFFICES ASSUME IInv, [Next]_vars PROVE Exclusive'
    OBVIOUS
  <1> USE JobsAssumption DEF IInv, TypeOK, StepsInv, LocksInv, Exclusive, Held, HeldMode,
      Locked, Compatible, Goto, End, Cur, Writes, Takes, Mode, PCs, Ended
  <1>1. ASSUME NEW p \in Procs, Flock(p) PROVE Exclusive'
    BY <1>1 DEF Flock
  <1>2. ASSUME NEW p \in Procs, GiveUp(p) PROVE Exclusive'
    BY <1>2 DEF GiveUp
  <1>3. ASSUME NEW p \in Procs, Unlock(p) PROVE Exclusive'
    BY <1>3 DEF Unlock
  <1>4. ASSUME NEW p \in Procs, Crash(p) PROVE Exclusive'
    BY <1>4 DEF Crash
  <1>5. ASSUME NEW p \in Procs,
              \/ OpenPath(p) \/ CreatePath(p) \/ Stat(p) \/ Map(p) \/ CheckHeader(p)
              \/ MapNew(p) \/ WriteHeader(p) \/ Read(p) \/ Nest(p) \/ Copy(p)
              \/ BeginChange(p) \/ EndChange(p) \/ Sync(p)
              \/ NoFile(p) \/ Access(p) \/ Peek(p)
       PROVE  Exclusive'
    BY <1>5 DEF OpenPath, CreatePath, Stat, Map, CheckHeader, MapNew, WriteHeader, Read,
       Nest, Copy, BeginChange, EndChange, Sync, NoFile, Access, Peek
  <1>6. CASE UNCHANGED vars
    BY <1>6 DEF vars
  <1>7. QED
    BY <1>1, <1>2, <1>3, <1>4, <1>5, <1>6 DEF Next, Step

\* A file changes only under a process that has it locked to write, and then no other has it open;
\* the process itself counts what it writes in d->len.
LEMMA LengthStep == IInv /\ [Next]_vars => LengthCurrent'
  <1> SUFFICES ASSUME IInv, [Next]_vars PROVE LengthCurrent'
    OBVIOUS
  <1> USE JobsAssumption DEF IInv, TypeOK, StepsInv, LocksInv, Exclusive, LengthCurrent,
      OpenedBy, Opened, Held, Locked, Goto, End, Cur, Writes, Takes, Mode, PCs, Ended
  <1>1. ASSUME NEW p \in Procs, Stat(p) PROVE LengthCurrent'
    BY <1>1 DEF Stat
  <1>2. ASSUME NEW p \in Procs, WriteHeader(p) PROVE LengthCurrent'
    BY <1>2 DEF WriteHeader
  <1>3. ASSUME NEW p \in Procs, Nest(p) PROVE LengthCurrent'
    BY <1>3 DEF Nest
  <1>4. ASSUME NEW p \in Procs, EndChange(p) PROVE LengthCurrent'
    <2> DEFINE f == Cur(p)
    <2>1. f \in Files /\ f \in Held(p) /\ f \in OpenedBy(p)
      BY CurFile, <1>4 DEF EndChange
    <2> HIDE DEF f
    <2>7. Writes(p) /\ ~Takes(p) /\ snap[p][f] = content[f]
      BY <2>1, <1>4 DEF EndChange
    <2>2. ASSUME NEW q \in Procs, q # p PROVE f \notin OpenedBy(q)
      BY <2>1, <2>7, <2>2, WriterAlone, OpenedIsHeld DEF HeldMode
    <2>3. /\ content' = [content EXCEPT ![f] = snap[p][f] + 1]
          /\ snap' = [snap EXCEPT ![p][f] = snap[p][f] + 1]
      BY <1>4 DEF EndChange, f
    <2>4. ASSUME NEW q \in Procs, NEW g \in OpenedBy(q)' PROVE g \in OpenedBy(q)
      BY <2>4, <1>4 DEF EndChange
    <2>5. ASSUME NEW q \in Procs, NEW g \in OpenedBy(q)' PROVE snap'[q][g] = content'[g]
      <3>1. g \in OpenedBy(q) /\ g \in Files
        BY <2>4, <2>5
      <3>2. CASE q = p
        BY <3>1, <3>2, <2>1, <2>7, <2>3
      <3>3. CASE q # p
        BY <3>1, <3>3, <2>2, <2>3
      <3>4. QED
        BY <3>2, <3>3
    <2>6. QED
      BY <2>5
  <1>5. ASSUME NEW p \in Procs, Sync(p) PROVE LengthCurrent'
    BY <1>5 DEF Sync
  <1>6. ASSUME NEW p \in Procs, Unlock(p) PROVE LengthCurrent'
    BY <1>6 DEF Unlock
  <1>7. ASSUME NEW p \in Procs,
              \/ OpenPath(p) \/ CreatePath(p) \/ Flock(p) \/ Map(p) \/ CheckHeader(p)
              \/ GiveUp(p) \/ MapNew(p) \/ Read(p) \/ Copy(p) \/ BeginChange(p) \/ Crash(p)
              \/ NoFile(p) \/ Access(p) \/ Peek(p)
       PROVE  LengthCurrent'
    BY <1>7 DEF OpenPath, CreatePath, Flock, Map, CheckHeader, GiveUp, MapNew, Read, Copy,
       BeginChange, Crash, NoFile, Access, Peek
  <1>8. CASE UNCHANGED vars
    BY <1>8 DEF vars
  <1>9. QED
    BY <1>1, <1>2, <1>3, <1>4, <1>5, <1>6, <1>7, <1>8 DEF Next, Step

\* A change counts from the length read at dz_open, which is current.
LEMMA UpdateStep == IInv /\ [Next]_vars => NoUpdateLost'
  <1> SUFFICES ASSUME IInv, [Next]_vars PROVE NoUpdateLost'
    OBVIOUS
  <1> USE JobsAssumption DEF IInv, TypeOK, LengthCurrent, OpenedBy, Opened, NoUpdateLost, Goto,
      End, Cur, Writes, Takes, Mode, PCs, Ended
  <1>1. ASSUME NEW p \in Procs, EndChange(p) PROVE NoUpdateLost'
    BY <1>1 DEF EndChange
  <1>2. ASSUME NEW p \in Procs, Sync(p) PROVE NoUpdateLost'
    BY <1>2 DEF Sync
  <1>3. ASSUME NEW p \in Procs,
              \/ OpenPath(p) \/ CreatePath(p) \/ Flock(p) \/ Stat(p) \/ Map(p)
              \/ CheckHeader(p) \/ GiveUp(p) \/ MapNew(p) \/ WriteHeader(p) \/ Read(p)
              \/ Nest(p) \/ Copy(p) \/ BeginChange(p) \/ Unlock(p) \/ Crash(p)
              \/ NoFile(p) \/ Access(p) \/ Peek(p)
       PROVE  NoUpdateLost'
    BY <1>3 DEF OpenPath, CreatePath, Flock, Stat, Map, CheckHeader, GiveUp, MapNew,
       WriteHeader, Read, Nest, Copy, BeginChange, Unlock, Crash, NoFile, Access, Peek
  <1>4. CASE UNCHANGED vars
    BY <1>4 DEF vars
  <1>5. QED
    BY <1>1, <1>2, <1>3, <1>4 DEF Next, Step

\* A change is begun and ended by one process, which ends nowhere in between but by dying.
LEMMA MidStep == IInv /\ [Next]_vars => MidInv'
  <1> SUFFICES ASSUME IInv, [Next]_vars PROVE MidInv'
    OBVIOUS
  <1> USE JobsAssumption DEF IInv, TypeOK, StepsInv, MidInv, Goto, End, Cur, Writes, Takes, Mode,
      PCs, Ended
  <1>1. ASSUME NEW p \in Procs, GiveUp(p) PROVE MidInv'
    BY <1>1 DEF GiveUp
  <1>2. ASSUME NEW p \in Procs, BeginChange(p) PROVE MidInv'
    BY <1>2 DEF BeginChange
  <1>3. ASSUME NEW p \in Procs, EndChange(p) PROVE MidInv'
    BY <1>3 DEF EndChange
  <1>4. ASSUME NEW p \in Procs, Crash(p) PROVE MidInv'
    BY <1>4 DEF Crash
  <1>5. ASSUME NEW p \in Procs,
              \/ OpenPath(p) \/ CreatePath(p) \/ Flock(p) \/ Stat(p) \/ Map(p)
              \/ CheckHeader(p) \/ MapNew(p) \/ WriteHeader(p) \/ Read(p) \/ Nest(p)
              \/ Copy(p) \/ Sync(p) \/ Unlock(p)
              \/ NoFile(p) \/ Access(p) \/ Peek(p)
       PROVE  MidInv'
    BY <1>5 DEF OpenPath, CreatePath, Flock, Stat, Map, CheckHeader, MapNew, WriteHeader,
       Read, Nest, Copy, Sync, Unlock, NoFile, Access, Peek
  <1>6. CASE UNCHANGED vars
    BY <1>6 DEF vars
  <1>7. QED
    BY <1>1, <1>2, <1>3, <1>4, <1>5, <1>6 DEF Next, Step

\* Stretched files stay accounted for when a step of p takes none of its own out of the account but
\* those it cuts or hurts.
LEMMA PaddedKept ==
  ASSUME PaddedInv, NEW p \in Procs,
         \A q \in Procs : q # p => Mapped(q)' = Mapped(q),
         \A f \in Files : hurt[f] => hurt'[f],
         \A f \in Files : size'[f] = "padded" =>
            hurt'[f] \/ f \in Mapped(p)' \/ (size[f] = "padded" /\ f \notin Mapped(p))
  PROVE  PaddedInv'
  <1> SUFFICES ASSUME NEW f \in Files, size'[f] = "padded", ~hurt'[f]
               PROVE  \E q \in Procs : f \in Mapped(q)'
    BY DEF PaddedInv
  <1>1. CASE f \in Mapped(p)'
    BY <1>1
  <1>2. CASE size[f] = "padded" /\ f \notin Mapped(p)
    <2>1. PICK q \in Procs : f \in Mapped(q)
      BY <1>2 DEF PaddedInv
    <2>2. QED
      BY <1>2, <2>1
  <1>3. QED
    BY <1>1, <1>2

\* Only dz_mmap_data stretches a file, and dz_sync cuts it to what it was when opened.
LEMMA PaddedStep == IInv /\ [Next]_vars => PaddedInv'
  <1> SUFFICES ASSUME IInv, [Next]_vars PROVE PaddedInv'
    OBVIOUS
  <1> USE JobsAssumption DEF IInv, TypeOK, StepsInv, Mapped, Stretched, Goto, End, Cur, Writes,
      Mode, Takes, PCs, Ended
  <1>1. ASSUME NEW p \in Procs, OpenPath(p) PROVE PaddedInv'
    BY <1>1 DEF OpenPath, PaddedInv
  <1>2. ASSUME NEW p \in Procs, CreatePath(p) PROVE PaddedInv'
    BY <1>2 DEF CreatePath, PaddedInv
  <1>3. ASSUME NEW p \in Procs, Flock(p) PROVE PaddedInv'
    BY <1>3 DEF Flock, PaddedInv
  <1>4. ASSUME NEW p \in Procs, Stat(p) PROVE PaddedInv'
    BY <1>4 DEF Stat, PaddedInv
  <1>5. ASSUME NEW p \in Procs, Map(p) PROVE PaddedInv'
    BY <1>5 DEF Map, PaddedInv
  <1>6. ASSUME NEW p \in Procs, CheckHeader(p) PROVE PaddedInv'
    BY <1>6 DEF CheckHeader, PaddedInv
  <1>7. ASSUME NEW p \in Procs, GiveUp(p) PROVE PaddedInv'
    <2>1. /\ \A q \in Procs : q # p => Mapped(q)' = Mapped(q)
          /\ \A f \in Files : hurt[f] => hurt'[f]
      BY <1>7 DEF GiveUp
    <2>2. ASSUME NEW f \in Files, size'[f] = "padded"
          PROVE  hurt'[f] \/ f \in Mapped(p)' \/ (size[f] = "padded" /\ f \notin Mapped(p))
      BY <2>2, <1>7 DEF GiveUp
    <2>3. QED
      BY <2>1, <2>2, PaddedKept DEF IInv
  <1>8. ASSUME NEW p \in Procs, MapNew(p) PROVE PaddedInv'
    BY <1>8 DEF MapNew, PaddedInv
  <1>9. ASSUME NEW p \in Procs, WriteHeader(p) PROVE PaddedInv'
    BY <1>9 DEF WriteHeader, PaddedInv
  <1>10. ASSUME NEW p \in Procs, Read(p) PROVE PaddedInv'
    BY <1>10 DEF Read, PaddedInv
  <1>11. ASSUME NEW p \in Procs, Nest(p) PROVE PaddedInv'
    <2>1. /\ \A q \in Procs : q # p => Mapped(q)' = Mapped(q)
          /\ \A f \in Files : hurt[f] => hurt'[f]
      BY <1>11 DEF Nest
    <2>2. ASSUME NEW f \in Files, size'[f] = "padded"
          PROVE  hurt'[f] \/ f \in Mapped(p)' \/ (size[f] = "padded" /\ f \notin Mapped(p))
      BY <2>2, <1>11 DEF Nest
    <2>3. QED
      BY <2>1, <2>2, PaddedKept DEF IInv
  <1>12. ASSUME NEW p \in Procs, Copy(p) PROVE PaddedInv'
    BY <1>12 DEF Copy, PaddedInv
  <1>13. ASSUME NEW p \in Procs, BeginChange(p) PROVE PaddedInv'
    BY <1>13 DEF BeginChange, PaddedInv
  <1>14. ASSUME NEW p \in Procs, EndChange(p) PROVE PaddedInv'
    BY <1>14 DEF EndChange, PaddedInv
  <1>15. ASSUME NEW p \in Procs, Sync(p) PROVE PaddedInv'
    <2>1. /\ \A q \in Procs : q # p => Mapped(q)' = Mapped(q)
          /\ \A f \in Files : hurt[f] => hurt'[f]
      BY <1>15 DEF Sync
    <2>2. ASSUME NEW f \in Files, size'[f] = "padded"
          PROVE  hurt'[f] \/ f \in Mapped(p)' \/ (size[f] = "padded" /\ f \notin Mapped(p))
      BY <2>2, <1>15 DEF Sync, PaddingUnseen, OpenedBy, Opened
    <2>3. QED
      BY <2>1, <2>2, PaddedKept DEF IInv
  <1>16. ASSUME NEW p \in Procs, Unlock(p) PROVE PaddedInv'
    <2>1. /\ \A q \in Procs : q # p => Mapped(q)' = Mapped(q)
          /\ \A f \in Files : hurt[f] => hurt'[f]
      BY <1>16 DEF Unlock
    <2>2. ASSUME NEW f \in Files, size'[f] = "padded"
          PROVE  hurt'[f] \/ f \in Mapped(p)' \/ (size[f] = "padded" /\ f \notin Mapped(p))
      BY <2>2, <1>16 DEF Unlock
    <2>3. QED
      BY <2>1, <2>2, PaddedKept DEF IInv
  <1>17. ASSUME NEW p \in Procs, Crash(p) PROVE PaddedInv'
    <2>1. /\ \A q \in Procs : q # p => Mapped(q)' = Mapped(q)
          /\ \A f \in Files : hurt[f] => hurt'[f]
      BY <1>17 DEF Crash
    <2>2. ASSUME NEW f \in Files, size'[f] = "padded"
          PROVE  hurt'[f] \/ f \in Mapped(p)' \/ (size[f] = "padded" /\ f \notin Mapped(p))
      BY <2>2, <1>17 DEF Crash
    <2>3. QED
      BY <2>1, <2>2, PaddedKept DEF IInv
  <1>18. ASSUME NEW p \in Procs, NoFile(p) PROVE PaddedInv'
    BY <1>18 DEF NoFile, PaddedInv
  <1>19. ASSUME NEW p \in Procs, Access(p) PROVE PaddedInv'
    <2>1. /\ \A q \in Procs : q # p => Mapped(q)' = Mapped(q)
          /\ \A f \in Files : hurt[f] => hurt'[f]
      BY <1>19 DEF Access
    <2>2. ASSUME NEW f \in Files, size'[f] = "padded"
          PROVE  hurt'[f] \/ f \in Mapped(p)' \/ (size[f] = "padded" /\ f \notin Mapped(p))
      BY <2>2, <1>19 DEF Access
    <2>3. QED
      BY <2>1, <2>2, PaddedKept DEF IInv
  <1>20. ASSUME NEW p \in Procs, Peek(p) PROVE PaddedInv'
    BY <1>20 DEF Peek, PaddedInv
  <1>21. CASE UNCHANGED vars
    BY <1>21 DEF vars, PaddedInv
  <1>22. QED
    BY <1>1, <1>2, <1>3, <1>4, <1>5, <1>6, <1>7, <1>8, <1>9, <1>10, <1>11, <1>12, <1>13, <1>14,
        <1>15, <1>16, <1>17, <1>18, <1>19, <1>20, <1>21 DEF Next, Step

\* A process that reads a stretched size has the file locked, so none has it mapped for writing:
\* the one that stretched it is gone.
LEMMA UnseenStep == IInv /\ [Next]_vars => PaddingUnseen'
  <1> SUFFICES ASSUME IInv, [Next]_vars PROVE PaddingUnseen'
    OBVIOUS
  <1> USE JobsAssumption DEF IInv, TypeOK, StepsInv, PaddingUnseen, OpenedBy, Opened, Goto, End,
      Cur, Writes, Takes, Mode, PCs, Ended
  <1>1. ASSUME NEW p \in Procs, Stat(p) PROVE PaddingUnseen'
    <2>1. Cur(p) \in Held(p) /\ Cur(p) \notin Mapped(p)
      BY CurFile, <1>1 DEF Stat, Held, Locked, Mapped, Stretched
    <2>2. ASSUME NEW q \in Procs, Cur(p) \in Mapped(q) PROVE FALSE
      <3>1. q # p /\ Cur(p) \in Held(q)
        BY <2>1, <2>2, OpenedIsHeld
      <3>3. HeldMode(q, Cur(p)) = "EX"
        BY <2>2 DEF Mapped, HeldMode, Stretched
      <3>2. QED
        BY <2>1, <3>1, <3>3, WriterAlone
    <2>3. size[Cur(p)] = "padded" => hurt[Cur(p)]
      BY <2>1, <2>2 DEF PaddedInv, Held
    <2>4. QED
      BY <2>1, <2>3, <1>1 DEF Stat
  <1>2. ASSUME NEW p \in Procs, GiveUp(p) PROVE PaddingUnseen'
    BY <1>2 DEF GiveUp
  <1>3. ASSUME NEW p \in Procs, WriteHeader(p) PROVE PaddingUnseen'
    BY <1>3 DEF WriteHeader
  <1>4. ASSUME NEW p \in Procs, Nest(p) PROVE PaddingUnseen'
    BY <1>4 DEF Nest
  <1>5. ASSUME NEW p \in Procs, Unlock(p) PROVE PaddingUnseen'
    BY <1>5 DEF Unlock
  <1>6. ASSUME NEW p \in Procs, Crash(p) PROVE PaddingUnseen'
    BY <1>6 DEF Crash
  <1>7. ASSUME NEW p \in Procs,
              \/ OpenPath(p) \/ CreatePath(p) \/ Flock(p) \/ Map(p) \/ CheckHeader(p)
              \/ MapNew(p) \/ Read(p) \/ Copy(p) \/ BeginChange(p) \/ EndChange(p) \/ Sync(p)
              \/ NoFile(p) \/ Access(p) \/ Peek(p)
       PROVE  PaddingUnseen'
    BY <1>7 DEF OpenPath, CreatePath, Flock, Map, CheckHeader, MapNew, Read, Copy,
       BeginChange, EndChange, Sync, NoFile, Access, Peek
  <1>8. CASE UNCHANGED vars
    BY <1>8 DEF vars
  <1>9. QED
    BY <1>1, <1>2, <1>3, <1>4, <1>5, <1>6, <1>7, <1>8 DEF Next, Step

-----------------------------------------------------------------------------

\* The invariant holds at the start, where no process has reached a file.
LEMMA InitIInv == Init => IInv
  <1> SUFFICES ASSUME Init PROVE IInv
    OBVIOUS
  <1> USE JobsAssumption DEF Init, Cur, Writes, Takes, PCs, Ended
  <1>1. TypeOK
    BY DEF TypeOK, Sizes, Modes, Kinds
  <1>2. StepsInv /\ PresentInv
    BY DEF StepsInv, PresentInv
  <1>3. LocksInv /\ Exclusive
    BY DEF LocksInv, Exclusive, Held, Locked
  <1>4. LengthCurrent /\ NoUpdateLost /\ PaddingUnseen
    BY DEF LengthCurrent, NoUpdateLost, PaddingUnseen, OpenedBy, Opened
  <1>5. MidInv /\ PaddedInv
    BY DEF MidInv, PaddedInv
  <1>6. QED
    BY <1>1, <1>2, <1>3, <1>4, <1>5 DEF IInv

\* Every step keeps it.
LEMMA StepIInv == IInv /\ [Next]_vars => IInv'
  BY TypeStep, StepsStep, PresentStep, LocksStep, ExclusiveStep, LengthStep, UpdateStep,
     MidStep, PaddedStep, UnseenStep DEF IInv

\* The inductive invariant holds in every reachable state.
THEOREM Invariance == Spec => []IInv
  BY InitIInv, StepIInv, PTL DEF Spec

\* The variables keep their types; no process sees with fstat a file that is not there.
THEOREM TypeCorrect == Spec => []TypeOK
  <1>1. IInv => TypeOK
    BY DEF IInv
  <1>2. QED
    BY <1>1, Invariance, PTL

\* dz_close never truncates a file to a length another process has changed since dz_open.
THEOREM LengthStaysCurrent == Spec => []LengthCurrent
  <1>1. IInv => LengthCurrent
    BY DEF IInv
  <1>2. QED
    BY <1>1, Invariance, PTL

\* No change of a dazibao is lost, whatever processes run and die.
THEOREM UpdatesAreKept == Spec => []NoUpdateLost
  <1>1. IInv => NoUpdateLost
    BY DEF IInv
  <1>2. QED
    BY <1>1, Invariance, PTL

\* No process sees the zeros of a file that is stretched, unless one ended without dz_close.
THEOREM PaddingIsUnseen == Spec => []PaddingUnseen
  <1>1. IInv => PaddingUnseen
    BY DEF IInv
  <1>2. QED
    BY <1>1, Invariance, PTL

\* A file that a process has open is changed by that process only: others have left a change of it
\* half done if they died in it, and in no other case.
NoTornRead ==
  \A p \in Procs : \A f \in OpenedBy(p) : \A q \in mid[f] : q = p \/ pc[q] = "dead"

\* A file that a process has open is in the middle of no other process's change, unless that one
\* died.
LEMMA NoneTorn == IInv => NoTornRead
  <1> SUFFICES ASSUME IInv, NEW p \in Procs, NEW f \in OpenedBy(p), NEW q \in mid[f],
                      q # p, pc[q] # "dead"
               PROVE  FALSE
    BY DEF NoTornRead
  <1>1. f \in Files /\ q \in Procs
    BY DEF OpenedBy, IInv, TypeOK
  <1>2. pc[q] = "changing" /\ f = Cur(q) /\ HeldMode(q, f) = "EX"
    BY <1>1 DEF IInv, MidInv, StepsInv, HeldMode
  <1>3. f \in Held(q)
    BY <1>1, <1>2 DEF Held, Locked, PCs, Ended
  <1>4. f \in Held(p)
    BY OpenedIsHeld
  <1>5. QED
    BY <1>1, <1>2, <1>3, <1>4, WriterAlone DEF IInv

-----------------------------------------------------------------------------
(* The files as SharedFiles has them. *)

Present == {f \in Files : size[f] # "absent"}
Torn    == {f \in Files : \E p \in mid[f] : pc[p] = "dead"}
View    == [p \in Procs |-> [f \in Files |-> Sees(p, f)]]

\* What is open, and to whom, as a function: the last version, or none.
LastView == [p \in Procs |-> [f \in Files |-> IF f \in OpenedBy(p) THEN {commits[f]} ELSE {}]]

\* A process finds in a file it has open the version that all changes made, and that one only.
LEMMA SeesLast == IInv => View = LastView
  <1> SUFFICES ASSUME IInv, NEW p \in Procs, NEW f \in Files
               PROVE  Sees(p, f) = IF f \in OpenedBy(p) THEN {commits[f]} ELSE {}
    BY DEF View, LastView
  <1>1. CASE f \in OpenedBy(p)
    <2>1. snap[p][f] = commits[f] /\ content[f] = commits[f]
      BY <1>1 DEF IInv, LengthCurrent, NoUpdateLost
    <2>2. {content[f] + 1 : q \in {r \in mid[f] \ {p} : pc[r] # "dead"}} = {}
      BY <1>1, NoneTorn DEF NoTornRead
    <2>3. QED
      BY <1>1, <2>1, <2>2 DEF Sees
  <1>2. CASE f \notin OpenedBy(p)
    BY <1>2 DEF Sees
  <1>3. QED
    BY <1>1, <1>2

\* A step of p that opens and closes nothing, and changes no file, is none of SharedFiles.
LEMMA Quiet ==
  ASSUME View = LastView, View' = LastView',
         \A q \in Procs : OpenedBy(q)' = OpenedBy(q),
         commits' = commits, Torn' = Torn, Present' = Present
  PROVE  UNCHANGED <<Present, commits, Torn, View>>
  BY DEF LastView

\* When p opens, closes or changes f only, the view that p has of f changes and no other.
LEMMA ViewOfOne ==
  ASSUME View = LastView, View' = LastView', NEW p \in Procs, NEW f \in Files,
         \A q \in Procs \ {p} : OpenedBy(q)' = OpenedBy(q),
         \A g \in Files \ {f} : g \in OpenedBy(p)' <=> g \in OpenedBy(p),
         \A g \in Files \ {f} : commits'[g] = commits[g],
         \A q \in Procs \ {p} : f \in OpenedBy(q) => commits'[f] = commits[f]
  PROVE  View' = [View EXCEPT ![p][f] = IF f \in OpenedBy(p)' THEN {commits'[f]} ELSE {}]
  <1> DEFINE new == IF f \in OpenedBy(p)' THEN {commits'[f]} ELSE {}
  <1>1. \A q \in Procs, g \in Files :
          LastView'[q][g] = IF g \in OpenedBy(q)' THEN {commits'[g]} ELSE {}
    BY DEF LastView
  <1>2. \A q \in Procs, g \in Files :
          LastView[q][g] = IF g \in OpenedBy(q) THEN {commits[g]} ELSE {}
    BY DEF LastView
  <1>3. LastView'[p][f] = new
    BY <1>1
  <1>4. ASSUME NEW q \in Procs, NEW g \in Files, q # p \/ g # f
        PROVE  LastView'[q][g] = LastView[q][g]
    <2>1. (g \in OpenedBy(q)' <=> g \in OpenedBy(q)) /\ (g \in OpenedBy(q) => commits'[g] =
        commits[g])
      BY <1>4
    <2>2. QED
      BY <1>1, <1>2, <2>1
  <1>5. View' = [q \in Procs |-> [g \in Files |-> View'[q][g]]]
    BY DEF LastView
  <1> HIDE DEF new
  <1>6. \A q \in Procs \ {p} : [g \in Files |-> View'[q][g]] = View[q]
    BY <1>4 DEF LastView
  <1>7. [g \in Files |-> View'[p][g]] = [View[p] EXCEPT ![f] = new]
    <2>1. View[p] = [g \in Files |-> View[p][g]]
      BY DEF LastView
    <2>2. View'[p][f] = new /\ \A g \in Files \ {f} : View'[p][g] = View[p][g]
      BY <1>3, <1>4
    <2>3. QED
      BY <2>1, <2>2
  <1>8. View = [q \in Procs |-> View[q]]
    BY DEF LastView
  <1>9. View' = [View EXCEPT ![p] = [View[p] EXCEPT ![f] = new]]
    BY <1>5, <1>6, <1>7, <1>8
  <1>10. QED
    BY <1>9 DEF new

\* A process that has a file open with its lock to write is alone to have it open.
LEMMA WriterIsAlone ==
  ASSUME IInv, View = LastView, NEW p \in Procs, NEW f \in OpenedBy(p), HeldMode(p, f) = "EX"
  PROVE  f \in Files /\ Shared!Alone(p, f)
  <1>1. f \in Files /\ f \in Held(p)
    BY OpenedIsHeld DEF OpenedBy
  <1>2. ASSUME NEW q \in Procs \ {p} PROVE f \notin OpenedBy(q)
    BY <1>1, <1>2, WriterAlone, OpenedIsHeld DEF IInv
  <1>3. View[p][f] = {commits[f]} /\ \A q \in Procs \ {p} : View[q][f] = {}
    BY <1>1, <1>2 DEF LastView
  <1>4. QED
    BY <1>1, <1>3 DEF Shared!Alone, View

\* Each step of a process is one of SharedFiles, or none.
LEMMA SharedStep ==
  ASSUME IInv, IInv', [Next]_vars
  PROVE  Shared!Next \/ UNCHANGED <<Present, commits, Torn, View>>
  <1>1. View = LastView /\ View' = LastView'
    <2>1. (IInv => View = LastView)'
      BY SeesLast, PTL
    <2>2. QED
      BY <2>1, SeesLast
  <1> USE JobsAssumption DEF IInv, TypeOK, StepsInv, Goto, End, Cur, Writes, Takes, PCs, Ended
  <1>2. ASSUME NEW p \in Procs,
               \/ OpenPath(p) \/ Flock(p) \/ Map(p) \/ CheckHeader(p) \/ MapNew(p) \/ Nest(p)
               \/ NoFile(p) \/ Access(p) \/ Peek(p) \/ Copy(p) \/ BeginChange(p) \/ Unlock(p)
        PROVE  UNCHANGED <<Present, commits, Torn, View>>
    <2> USE DEF OpenPath, Flock, Map, CheckHeader, MapNew, Nest, NoFile, Access, Peek, Copy,
                BeginChange, Unlock
    <2>1. \A q \in Procs : OpenedBy(q)' = OpenedBy(q)
      BY <1>2 DEF OpenedBy, Opened
    <2>2. commits' = commits
      BY <1>2
    <2>3. Torn' = Torn
      <3>1. \A q \in Procs : pc'[q] = "dead" <=> pc[q] = "dead"
        BY <1>2
      <3>2. \A f \in Files : mid'[f] = mid[f] \/ mid'[f] = mid[f] \cup {p}
        BY <1>2
      <3>3. \A f \in Files : mid'[f] = mid[f] \/ pc[p] # "dead"
        BY <1>2
      <3>4. ASSUME NEW f \in Files
            PROVE  (\E q \in mid'[f] : pc'[q] = "dead") <=> \E q \in mid[f] : pc[q] = "dead"
        <4>1. mid[f] \subseteq Procs
          OBVIOUS
        <4> HIDE DEF IInv, StepsInv, TypeOK, PCs
        <4>2. QED
          BY <4>1, <3>1, <3>2, <3>3
      <3>5. QED
        BY <3>4 DEF Torn
    <2>4. Present' = Present
      BY <1>2 DEF Present, PresentInv
    <2>5. QED
      BY <1>1, <2>1, <2>2, <2>3, <2>4, Quiet
  <1>3. ASSUME NEW p \in Procs, CreatePath(p) PROVE \E f \in Files : Shared!Create(f)
    <2>1. (\A q \in Procs : OpenedBy(q)' = OpenedBy(q)) /\ commits' = commits
      BY <1>3 DEF CreatePath, OpenedBy, Opened
    <2>2. View' = View
      BY <1>1, <2>1 DEF LastView
    <2>3. Torn' = Torn
      BY <1>3 DEF CreatePath, Torn
    <2>4. PICK f \in Files : f = Cur(p)
      BY CurFile
    <2>5. f \notin Present /\ Present' = Present \cup {f}
      BY <2>4, <1>3 DEF CreatePath, Present
    <2>6. Shared!Create(f)
      BY <2>1, <2>2, <2>3, <2>5 DEF Shared!Create, View, Torn, Present
    <2>7. QED
      BY <2>6
  <1>4. ASSUME NEW p \in Procs, Stat(p) \/ WriteHeader(p) PROVE Shared!Open(p, Cur(p))
    <2> DEFINE f == Cur(p)
    <2> USE DEF Stat, WriteHeader
    <2>1. f \in Files /\ f \in Present /\ f \notin OpenedBy(p)
      BY CurFile, <1>4 DEF Present, PresentInv, OpenedBy, Opened, Locked
    <2>2. /\ OpenedBy(p)' = OpenedBy(p) \cup {f}
          /\ \A q \in Procs \ {p} : OpenedBy(q)' = OpenedBy(q)
      BY <1>4, <2>1 DEF OpenedBy, Opened
    <2>3. commits' = commits
      BY <1>4
    <2>4. Torn' = Torn
      BY <1>4 DEF Torn
    <2>5. Present' = Present
      BY <1>4 DEF Present
    <2> HIDE DEF f
    <2> HIDE DEF IInv, TypeOK, StepsInv, Goto, End, Cur, Writes, Takes, PCs, Ended, Stat,
                 WriteHeader
    <2>6. View' = [View EXCEPT ![p][f] = {commits[f]}] /\ View[p][f] = {}
      <3>1. View' = [View EXCEPT ![p][f] = IF f \in OpenedBy(p)' THEN {commits'[f]} ELSE {}]
        BY <1>1, <2>1, <2>2, <2>3, ViewOfOne
      <3>2. QED
        BY <3>1, <1>1, <2>1, <2>2, <2>3 DEF LastView
    <2>7. QED
      BY <2>1, <2>3, <2>4, <2>5, <2>6 DEF Shared!Open, View, Torn, Present, f
  <1>5. ASSUME NEW p \in Procs, Read(p) \/ Sync(p) PROVE Shared!Close(p, Cur(p))
    <2> DEFINE f == Cur(p)
    <2> USE DEF Read, Sync
    <2>1. f \in Files /\ f \in OpenedBy(p)
      BY CurFile, <1>5 DEF OpenedBy, Opened
    <2>2. /\ OpenedBy(p)' = OpenedBy(p) \ {f}
          /\ \A q \in Procs \ {p} : OpenedBy(q)' = OpenedBy(q)
      <3>1. nested[p] => job[p].file # f
        BY <1>5 DEF Locked
      <3>2. /\ pc' = [pc EXCEPT ![p] = "unlock"] /\ nested' = nested /\ job' = job
            /\ pc[p] \in Opened
        BY <1>5 DEF Opened
      <3>3. OpenedBy(p) = {f} \cup {g \in Files : g = job[p].file /\ nested[p]}
        BY <2>1, <3>2 DEF OpenedBy
      <3>4. OpenedBy(p)' = {g \in Files : g = job[p].file /\ nested[p]}
        BY <3>2 DEF OpenedBy, Opened
      <3>5. \A q \in Procs \ {p} : OpenedBy(q)' = OpenedBy(q)
        BY <3>2 DEF OpenedBy
      <3>6. QED
        BY <3>1, <3>3, <3>4, <3>5
    <2>3. commits' = commits
      BY <1>5
    <2>4. Torn' = Torn
      BY <1>5 DEF Torn
    <2>5. Present' = Present
      <3>1. CASE Read(p)
        BY <3>1 DEF Present
      <3>2. CASE Sync(p)
        <4>1. size[f] # "absent" /\ seen[p][f] # "absent"
          BY <3>2, <2>1 DEF PresentInv
        <4>2. size' = [size EXCEPT ![f] = seen[p][f]]
          BY <3>2
        <4>3. QED
          BY <4>1, <4>2, <2>1 DEF Present
      <3>3. QED
        BY <1>5, <3>1, <3>2
    <2> HIDE DEF f
    <2> HIDE DEF IInv, TypeOK, StepsInv, Goto, End, Cur, Writes, Takes, PCs, Ended, Read, Sync
    <2>6. View' = [View EXCEPT ![p][f] = {}] /\ View[p][f] # {}
      <3>1. View' = [View EXCEPT ![p][f] = IF f \in OpenedBy(p)' THEN {commits'[f]} ELSE {}]
        BY <1>1, <2>1, <2>2, <2>3, ViewOfOne
      <3>2. View[p][f] = {commits[f]}
        BY <1>1, <2>1 DEF LastView
      <3>3. QED
        BY <3>1, <3>2, <2>2
    <2>7. QED
      BY <2>1, <2>3, <2>4, <2>5, <2>6 DEF Shared!Close, View, Torn, Present, f
  <1>6. ASSUME NEW p \in Procs, EndChange(p) PROVE Shared!Change(p, Cur(p))
    <2> DEFINE f == Cur(p)
    <2> USE DEF EndChange
    <2>1. f \in Files /\ f \in OpenedBy(p) /\ HeldMode(p, f) = "EX"
      BY CurFile, <1>6 DEF OpenedBy, Opened, HeldMode
    <2>2. \A q \in Procs : OpenedBy(q)' = OpenedBy(q)
      BY <1>6 DEF OpenedBy, Opened
    <2>3. commits' = [commits EXCEPT ![f] = @ + 1] /\ commits \in [Files -> Nat]
      BY <1>6
    <2>4. Torn' = Torn
      BY <1>6 DEF Torn
    <2>5. Present' = Present
      BY <1>6 DEF Present
    <2> HIDE DEF f
    <2>6. Shared!Alone(p, f)
      BY <1>1, <2>1, WriterIsAlone
    <2> HIDE DEF IInv, TypeOK, StepsInv, Goto, End, Cur, Writes, Takes, PCs, Ended, EndChange
    <2>7. View' = [View EXCEPT ![p][f] = {commits[f] + 1}]
      <3>1. ASSUME NEW q \in Procs \ {p} PROVE f \notin OpenedBy(q)
        <4>1. View[q][f] = {}
          BY <2>6 DEF Shared!Alone, View
        <4>2. View[q][f] = IF f \in OpenedBy(q) THEN {commits[f]} ELSE {}
          BY <1>1, <2>1 DEF LastView
        <4>3. QED
          BY <4>1, <4>2
      <3>2. commits'[f] = commits[f] + 1 /\ \A g \in Files \ {f} : commits'[g] = commits[g]
        BY <2>1, <2>3
      <3>3. f \in OpenedBy(p)'
        BY <2>1, <2>2
      <3>4. View' = [View EXCEPT ![p][f] = IF f \in OpenedBy(p)' THEN {commits'[f]} ELSE {}]
        BY <1>1, <2>1, <2>2, <3>1, <3>2, ViewOfOne
      <3>5. QED
        BY <3>2, <3>3, <3>4
    <2>8. QED
      BY <2>1, <2>3, <2>4, <2>5, <2>6, <2>7 DEF Shared!Change, View, Torn, Present, f
  <1>7. ASSUME NEW p \in Procs, GiveUp(p) \/ Crash(p) PROVE Shared!Leave(p)
    <2> USE DEF GiveUp, Crash
    <2>1. OpenedBy(p)' = {} /\ \A q \in Procs \ {p} : OpenedBy(q)' = OpenedBy(q)
      BY <1>7 DEF OpenedBy, Opened
    <2>2. commits' = commits /\ Present' = Present
      BY <1>7 DEF Present
    <2>3. View' = [View EXCEPT ![p] = [f \in Files |-> {}]]
      <3>1. LastView'[p] = [f \in Files |-> {}] /\ \A q \in Procs \ {p} : LastView'[q] = LastView[q]
        BY <2>1, <2>2 DEF LastView
      <3>2. View' = [q \in Procs |-> View'[q]] /\ View = [q \in Procs |-> View[q]]
        BY DEF View
      <3>3. QED
        BY <1>1, <3>1, <3>2
    <2>4. Torn \subseteq Torn'
      BY <1>7 DEF Torn
    <2>5. ASSUME NEW f \in Torn' \ Torn PROVE f \in Files /\ Shared!Alone(p, f)
      <3>1. f \in Files /\ p \in mid[f] /\ pc[p] # "dead"
        BY <1>7, <2>5 DEF Torn
      <3>2. pc[p] = "changing" /\ f = Cur(p)
        BY <3>1 DEF MidInv
      <3>3. f \in OpenedBy(p) /\ HeldMode(p, f) = "EX"
        BY <3>1, <3>2 DEF OpenedBy, Opened, HeldMode
      <3>4. QED
        BY <1>1, <3>3, WriterIsAlone
    <2>6. QED
      BY <2>2, <2>3, <2>4, <2>5 DEF Shared!Leave, View, Torn, Present
  <1>8. CASE UNCHANGED vars
    <2>1. QED
      BY <1>8 DEF vars, Present, Torn, View, Sees, OpenedBy
  <1> HIDE DEF IInv, TypeOK, StepsInv, Goto, End, Cur, Writes, Takes, PCs, Ended
  <1>9. ASSUME NEW p \in Procs, Step(p) \/ Crash(p)
        PROVE  Shared!Next \/ UNCHANGED <<Present, commits, Torn, View>>
    <2>1. Cur(p) \in Files
      BY CurFile DEF IInv
    <2>2. CASE CreatePath(p)
      BY <2>2, <1>3 DEF Shared!Next
    <2>3. CASE Stat(p) \/ WriteHeader(p)
      <3>1. Shared!Open(p, Cur(p))
        BY <2>3, <1>4
      <3>2. QED
        BY <2>1, <3>1, Zenon DEF Shared!Next
    <2>4. CASE Read(p) \/ Sync(p)
      BY <2>1, <2>4, <1>5 DEF Shared!Next
    <2>5. CASE EndChange(p)
      BY <2>1, <2>5, <1>6 DEF Shared!Next
    <2>6. CASE GiveUp(p) \/ Crash(p)
      BY <2>6, <1>7 DEF Shared!Next
    <2>7. CASE \/ OpenPath(p) \/ Flock(p) \/ Map(p) \/ CheckHeader(p) \/ MapNew(p) \/ Nest(p)
               \/ NoFile(p) \/ Access(p) \/ Peek(p) \/ Copy(p) \/ BeginChange(p) \/ Unlock(p)
      BY <2>7, <1>2
    <2>8. QED
      BY <1>9, <2>2, <2>3, <2>4, <2>5, <2>6, <2>7, Zenon DEF Step
  <1>10. QED
    BY <1>8, <1>9 DEF Next

\* The programs that share dazibao files keep the promise of SharedFiles: what a command does to a
\* dazibao it does on the last version, alone, and as a whole unless it dies in the middle.
THEOREM LocksShare == Spec => ImplementsShared
  <1>1. Init => Shared!Init
    BY InitIInv DEF Init, Shared!Init, OpenedBy, Opened, Sees
  <1>2. IInv /\ IInv' /\ [Next]_vars => [Shared!Next]_(Shared!vars)
    BY SharedStep DEF Shared!vars, Present, Torn, View
  <1>3. QED
    BY <1>1, <1>2, Invariance, PTL DEF Spec, ImplementsShared, Shared!Spec

=============================================================================
