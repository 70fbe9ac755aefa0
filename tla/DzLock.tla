-------------------------------- MODULE DzLock --------------------------------
(***************************************************************************)
(* How the programs that share dazibao files keep out of each other's way: *)
(* dz_create, dz_open, dz_close and dz2tlv of src/src/mdazibao.c,          *)
(* cli_mk_tlv, which locks the files add takes, and reliable_watch of the  *)
(* notification server, step by step, with processes that give up or die   *)
(* at any step.  flock(2) is the only synchronisation.                     *)
(*                                                                         *)
(* What the bytes of a file are is abstracted to a version number, which a *)
(* change computes from the length its process read with fstat: d->len is  *)
(* where it writes from and what dz_close truncates the file to.           *)
(***************************************************************************)
EXTENDS Integers

CONSTANTS
  Procs,    \* processes; each runs one command
  Files,    \* paths of dazibaos
  Jobs      \* the commands they may run

Kinds == {"create", "write", "import", "take", "read", "watch"}

ASSUME JobsAssumption == Jobs \subseteq [kind : Kinds, file : Files, from : Files]

VARIABLES
  job,      \* the command of each process
  pc,       \* the next step of each process
  nested,   \* in dz2tlv or cli_mk_tlv, which open a second file while the first is open
  lock,     \* flock(2): the lock each process has on each file
  size,     \* the size of the file: none, 0, its own, or rounded up to pages
  magic,    \* the file starts as a dazibao does
  content,  \* the version of what it holds
  mid,      \* the processes that have begun a change of it and not ended it
  snap,     \* the version a process saw in fstat, for each file
  seen,     \* the size it saw
  input,    \* the size it saw of a file it takes, before it had its lock
  hurt,     \* history: a process that had mapped the file for writing ended without dz_close
  commits   \* history: changes made to the file

vars == <<job, pc, nested, lock, size, magic, content, mid, snap, seen, input, hurt, commits>>

Sizes  == {"absent", "empty", "exact", "padded"}
Modes  == {"no", "SH", "EX"}
Ended  == {"done", "failed", "dead"}
PCs    == Ended \cup {"create", "open", "access", "peek", "lock", "stat", "map", "check", "work",
                      "loaded", "changing", "mapNew", "head", "sync", "unlock"}

\* The steps at which a process has the lock of the file it is at, and those at which, writing, it
\* has also stretched the file to whole pages.
Locked    == PCs \ (Ended \cup {"create", "open", "access", "peek", "lock"})
Stretched == {"check", "work", "loaded", "changing", "head", "sync"}
\* The steps between fstat and dz_close.
Opened    == {"map", "check", "work", "loaded", "changing", "sync"}

\* The file the process is at.
Cur(p)    == IF nested[p] THEN job[p].from ELSE job[p].file
Writes(p) == job[p].kind \in {"create", "write", "import", "take"}

\* It is at a file that add takes as the value of a TLV, whatever the file is.
Takes(p) == nested[p] /\ job[p].kind = "take"

\* The lock it takes: LOCK_EX for O_RDWR, LOCK_SH for O_RDONLY and for what add takes.
Mode_Shared(p) == "SH"
Mode(p) == IF Writes(p) /\ ~Takes(p) THEN "EX" ELSE "SH"

\* The files a process has mapped for writing and not closed.
Mapped(p) ==
  {f \in Files : /\ Writes(p)
                 /\ \/ f = Cur(p) /\ pc[p] \in Stretched
                    \/ f = job[p].file /\ nested[p]}

-----------------------------------------------------------------------------

Init ==
  /\ job \in [Procs -> Jobs]
  /\ pc = [p \in Procs |-> IF job[p].kind = "create" THEN "create" ELSE "open"]
  /\ nested = [p \in Procs |-> FALSE]
  /\ lock = [f \in Files |-> [p \in Procs |-> "no"]]
  /\ size \in [Files -> {"absent", "exact"}]
  /\ magic \in [Files -> BOOLEAN]
  /\ content = [f \in Files |-> 0]
  /\ mid = [f \in Files |-> {}]
  /\ snap = [p \in Procs |-> [f \in Files |-> 0]]
  /\ seen = [p \in Procs |-> [f \in Files |-> "exact"]]
  /\ input = [p \in Procs |-> "exact"]
  /\ hurt = [f \in Files |-> FALSE]
  /\ commits = [f \in Files |-> 0]

Goto(p, step) == pc' = [pc EXCEPT ![p] = step]

\* The process ends, and the kernel closes what it has open: locks go, mappings stay written.
End(p, how) ==
  /\ Goto(p, how)
  /\ lock' = [f \in Files |-> [lock[f] EXCEPT ![p] = "no"]]
  /\ nested' = [nested EXCEPT ![p] = FALSE]
  /\ hurt' = [f \in Files |-> hurt[f] \/ f \in Mapped(p)]
  /\ UNCHANGED <<job, size, magic, content, mid, snap, seen, input, commits>>

-----------------------------------------------------------------------------
(* dz_open_with_size *)

\* open(2)
OpenPath_Unchecked(p) ==
  /\ pc[p] = "open"
  /\ Goto(p, "lock")
  /\ UNCHANGED <<job, nested, lock, size, magic, content, mid, snap, seen, input, hurt, commits>>

OpenPath(p) ==
  /\ pc[p] = "open" /\ size[Cur(p)] # "absent"
  /\ Goto(p, IF Takes(p) THEN "peek" ELSE "lock")
  /\ UNCHANGED <<job, nested, lock, size, magic, content, mid, snap, seen, input, hurt, commits>>

\* open(2) with O_CREAT and O_EXCL: the file is there, and empty, before it is locked.
CreatePath(p) ==
  /\ pc[p] = "create" /\ size[Cur(p)] = "absent"
  /\ Goto(p, "lock")
  /\ size' = [size EXCEPT ![Cur(p)] = "empty"]
  /\ magic' = [magic EXCEPT ![Cur(p)] = FALSE]
  /\ UNCHANGED <<job, nested, lock, content, mid, snap, seen, input, hurt, commits>>

\* Two descriptions of one process exclude each other as those of two processes do.
Compatible_WritersOnly(p) ==
  \A q \in Procs : Mode(p) = "EX" => lock[Cur(p)][q] # "EX"

Compatible(p) ==
  \A q \in Procs : lock[Cur(p)][q] = "no" \/ (Mode(p) = "SH" /\ lock[Cur(p)][q] = "SH")

Flock(p) ==
  /\ pc[p] = "lock"
  /\ Compatible(p)
  /\ lock' = [lock EXCEPT ![Cur(p)][p] = Mode(p)]
  /\ Goto(p, CASE job[p].kind = "create" -> "mapNew"
               [] Takes(p)               -> "unlock"
               [] OTHER                  -> "stat")
  /\ UNCHANGED <<job, nested, size, magic, content, mid, snap, seen, input, hurt, commits>>

\* fstat: a file too short for a header is no dazibao; the watcher takes any file.
Stat(p) ==
  /\ pc[p] = "stat"
  /\ size[Cur(p)] # "empty" \/ job[p].kind = "watch"
  /\ snap' = [snap EXCEPT ![p][Cur(p)] = content[Cur(p)]]
  /\ seen' = [seen EXCEPT ![p][Cur(p)] = size[Cur(p)]]
  /\ Goto(p, CASE job[p].kind = "watch" -> "work"
               [] job[p].kind = "read"  -> "check"
               [] OTHER                 -> "map")
  /\ UNCHANGED <<job, nested, lock, size, magic, content, mid, input, hurt, commits>>

\* dz_mmap_data: ftruncate to whole pages, whatever the file is.
Map(p) ==
  /\ pc[p] = "map"
  /\ size' = [size EXCEPT ![Cur(p)] = "padded"]
  /\ Goto(p, "check")
  /\ UNCHANGED <<job, nested, lock, magic, content, mid, snap, seen, input, hurt, commits>>

\* The header is looked at last; a file that is no dazibao is not given its size back.
CheckHeader(p) ==
  /\ pc[p] = "check" /\ magic[Cur(p)]
  /\ Goto(p, "work")
  /\ UNCHANGED <<job, nested, lock, size, magic, content, mid, snap, seen, input, hurt, commits>>

\* The error exits; in dz2tlv they end action_add too, which leaves its dazibao open.
GiveUp(p) ==
  /\ \/ pc[p] = "open" /\ size[Cur(p)] = "absent" /\ ~Takes(p)
     \/ pc[p] = "create" /\ size[Cur(p)] # "absent"
     \/ pc[p] = "stat" /\ size[Cur(p)] = "empty" /\ job[p].kind # "watch"
     \/ pc[p] = "check" /\ ~magic[Cur(p)]
  /\ End(p, "failed")

-----------------------------------------------------------------------------
(* dz_create, once the file is locked *)

MapNew(p) ==
  /\ pc[p] = "mapNew"
  /\ size' = [size EXCEPT ![Cur(p)] = "padded"]
  /\ Goto(p, "head")
  /\ UNCHANGED <<job, nested, lock, magic, content, mid, snap, seen, input, hurt, commits>>

WriteHeader(p) ==
  /\ pc[p] = "head"
  /\ magic' = [magic EXCEPT ![Cur(p)] = TRUE]
  /\ snap' = [snap EXCEPT ![p][Cur(p)] = content[Cur(p)]]
  /\ seen' = [seen EXCEPT ![p][Cur(p)] = "exact"]
  /\ Goto(p, "sync")
  /\ UNCHANGED <<job, nested, lock, size, content, mid, input, hurt, commits>>

-----------------------------------------------------------------------------
(* What is done between opening and closing *)

\* dz_dump and the extractions, or the hash of the watcher.
Read(p) ==
  /\ pc[p] = "work" /\ ~Writes(p)
  /\ Goto(p, "unlock")
  /\ UNCHANGED <<job, nested, lock, size, magic, content, mid, snap, seen, input, hurt, commits>>

\* alt-add --dazibao: dz2tlv opens the other dazibao, for writing, with this one still open; and so
\* does add with the file it takes, to read.  Bound: one file; add may take several, one after the other,
\* and unlocks none of them before it has made its TLV of all.
Nest(p) ==
  /\ pc[p] = "work" /\ job[p].kind \in {"import", "take"} /\ ~nested[p]
  /\ nested' = [nested EXCEPT ![p] = TRUE]
  /\ Goto(p, "open")
  /\ UNCHANGED <<job, lock, size, magic, content, mid, snap, seen, input, hurt, commits>>

\* dz2tlv copies the other dazibao and closes it.
Copy(p) ==
  /\ pc[p] = "work" /\ nested[p]
  /\ Goto(p, "sync")
  /\ UNCHANGED <<job, nested, lock, size, magic, content, mid, snap, seen, input, hurt, commits>>

\* cli_mk_tlv: an argument that cannot be opened is a text, if no file has that name by then;
\* if one has, add gives up, and closes its dazibao.
NoFile(p) ==
  /\ pc[p] = "open" /\ Takes(p) /\ size[Cur(p)] = "absent"
  /\ Goto(p, "access")
  /\ UNCHANGED <<job, nested, lock, size, magic, content, mid, snap, seen, input, hurt, commits>>

Access(p) ==
  /\ pc[p] = "access"
  /\ nested' = [nested EXCEPT ![p] = FALSE]
  /\ Goto(p, IF size[Cur(p)] = "absent" THEN "loaded" ELSE "sync")
  /\ UNCHANGED <<job, lock, size, magic, content, mid, snap, seen, input, hurt, commits>>

\* The size of a file that add takes is read before its lock.
Peek(p) ==
  /\ pc[p] = "peek"
  /\ input' = [input EXCEPT ![p] = size[Cur(p)]]
  /\ Goto(p, "lock")
  /\ UNCHANGED <<job, nested, lock, size, magic, content, mid, snap, seen, hurt, commits>>

\* dz_add_tlv, dz_rm_tlv, dz_compact change the mapping in place.
BeginChange(p) ==
  /\ pc[p] = "loaded" \/ (pc[p] = "work" /\ job[p].kind = "write")
  /\ mid' = [mid EXCEPT ![Cur(p)] = @ \cup {p}]
  /\ Goto(p, "changing")
  /\ UNCHANGED <<job, nested, lock, size, magic, content, snap, seen, input, hurt, commits>>

EndChange_Unlocked(p) ==
  /\ pc[p] = "changing"
  /\ mid' = [mid EXCEPT ![Cur(p)] = @ \ {p}]
  /\ content' = [content EXCEPT ![Cur(p)] = snap[p][Cur(p)] + 1]
  /\ snap' = [snap EXCEPT ![p][Cur(p)] = @ + 1]
  /\ commits' = [commits EXCEPT ![Cur(p)] = @ + 1]
  /\ lock' = [lock EXCEPT ![Cur(p)][p] = "no"]
  /\ Goto(p, "sync")
  /\ UNCHANGED <<job, nested, size, magic, seen, input, hurt>>

EndChange(p) ==
  /\ pc[p] = "changing"
  /\ mid' = [mid EXCEPT ![Cur(p)] = @ \ {p}]
  /\ content' = [content EXCEPT ![Cur(p)] = snap[p][Cur(p)] + 1]
  /\ snap' = [snap EXCEPT ![p][Cur(p)] = @ + 1]
  /\ commits' = [commits EXCEPT ![Cur(p)] = @ + 1]
  /\ Goto(p, "sync")
  /\ UNCHANGED <<job, nested, lock, size, magic, seen, input, hurt>>

-----------------------------------------------------------------------------
(* dz_close *)

\* dz_sync: the file is cut to d->len.
Sync_Uncut(p) ==
  /\ pc[p] = "sync"
  /\ Goto(p, "unlock")
  /\ UNCHANGED <<job, nested, lock, size, magic, content, mid, snap, seen, input, hurt, commits>>

Sync(p) ==
  /\ pc[p] = "sync"
  /\ size' = [size EXCEPT ![Cur(p)] = seen[p][Cur(p)]]
  /\ content' = [content EXCEPT ![Cur(p)] = snap[p][Cur(p)]]
  /\ Goto(p, "unlock")
  /\ UNCHANGED <<job, nested, lock, magic, mid, snap, seen, input, hurt, commits>>

Unlock_Kept(p) ==
  /\ pc[p] = "unlock"
  /\ nested' = [nested EXCEPT ![p] = FALSE]
  /\ Goto(p, IF nested[p] THEN "loaded" ELSE "done")
  /\ UNCHANGED <<job, lock, size, magic, content, mid, snap, seen, input, hurt, commits>>

\* flock with LOCK_UN, and close; or add is done with a file it takes: none of no bytes is mapped.
Unlock(p) ==
  /\ pc[p] = "unlock"
  /\ lock' = [lock EXCEPT ![Cur(p)][p] = "no"]
  /\ nested' = [nested EXCEPT ![p] = FALSE]
  /\ Goto(p, CASE ~nested[p]                          -> "done"
               [] Takes(p) /\ input[p] = "empty"      -> "sync"
               [] OTHER                               -> "loaded")
  /\ UNCHANGED <<job, size, magic, content, mid, snap, seen, input, hurt, commits>>

Crash(p) == pc[p] \notin Ended /\ End(p, "dead")

-----------------------------------------------------------------------------

Step(p) ==
  \/ OpenPath(p) \/ CreatePath(p) \/ Flock(p) \/ Stat(p) \/ Map(p) \/ CheckHeader(p)
  \/ GiveUp(p)
  \/ MapNew(p) \/ WriteHeader(p)
  \/ Read(p) \/ Nest(p) \/ NoFile(p) \/ Access(p) \/ Peek(p) \/ Copy(p)
  \/ BeginChange(p) \/ EndChange(p)
  \/ Sync(p) \/ Unlock(p)

Next == \E p \in Procs : Step(p) \/ Crash(p)

\* A process that can take its next step takes it; none has to die.
Fairness == \A p \in Procs : WF_vars(Step(p))

Spec == Init /\ [][Next]_vars /\ Fairness

-----------------------------------------------------------------------------

TypeOK ==
  /\ job \in [Procs -> Jobs]
  /\ pc \in [Procs -> PCs]
  /\ nested \in [Procs -> BOOLEAN]
  /\ lock \in [Files -> [Procs -> Modes]]
  /\ size \in [Files -> Sizes]
  /\ magic \in [Files -> BOOLEAN]
  /\ content \in [Files -> Nat]
  /\ mid \in [Files -> SUBSET Procs]
  /\ snap \in [Procs -> [Files -> Nat]]
  /\ seen \in [Procs -> [Files -> Sizes \ {"absent"}]]
  /\ input \in [Procs -> Sizes \ {"absent"}]
  /\ hurt \in [Files -> BOOLEAN]
  /\ commits \in [Files -> Nat]

\* The files a process has open, from fstat to dz_close.
OpenedBy(p) ==
  {f \in Files : \/ f = Cur(p) /\ pc[p] \in Opened
                 \/ f = job[p].file /\ nested[p]}

\* dz_close truncates the file to the length dz_open read: whatever the others do, that length is
\* still the length of the file, so no process cuts off, or writes over, what another has added.
LengthCurrent == \A p \in Procs : \A f \in OpenedBy(p) : snap[p][f] = content[f]

\* Every change ever made to a file is in it.
NoUpdateLost == \A f \in Files : content[f] = commits[f]

\* The zeros a file is stretched with while it is open for writing are seen by no process that opens
\* it as a dazibao, or hashes it, unless a process ended without dz_close: readers and the watcher
\* depend only on what was written.  (Not so what add takes, whose size is read unlocked: Peek.)
PaddingUnseen ==
  \A p \in Procs : \A f \in OpenedBy(p) : seen[p][f] = "padded" => hurt[f]

\* The versions of a file that a process which has it open may find in it: that of the length in
\* d->len, that of its bytes and, in the middle of a change by another process, the next.
Sees(p, f) ==
  IF f \in OpenedBy(p)
  THEN {snap[p][f], content[f]} \cup {content[f] + 1 : q \in {r \in mid[f] \ {p} : pc[r] # "dead"}}
  ELSE {}

\* The locks make each dazibao one that changes as a whole, and only when no other process has it
\* open: whatever runs and dies, a command works on all the changes that commands before it made.
Shared == INSTANCE SharedFiles WITH
  present <- {f \in Files : size[f] # "absent"},
  version <- commits,
  torn    <- {f \in Files : \E p \in mid[f] : pc[p] = "dead"},
  view    <- [p \in Procs |-> [f \in Files |-> Sees(p, f)]]

ImplementsShared == Shared!Spec

\* Some processes, p one of them, all wait for a lock that one of them has; those that have one lock
\* a second file with the first locked.
Stuck(p) ==
  \E S \in SUBSET Procs :
    /\ p \in S
    /\ \A q \in S : /\ pc[q] = "lock"
                    /\ \E r \in S : nested[r] /\ lock[Cur(q)][r] = "EX"

\* Every command ends, unless it waits behind additions that wait for each other's files,
\* each of its dazibao and of the one file it takes.
EndsOrStuck == \A p \in Procs : <>[](pc[p] \in Ended \/ Stuck(p))

=============================================================================
