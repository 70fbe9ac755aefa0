------------------------------ MODULE SharedFiles ------------------------------
(***************************************************************************)
(* What locks promise to the programs that share dazibao files: a file     *)
(* changes as a whole, when no other process has it open, and a process    *)
(* finds in a file it has open one version of it, the last.  Steps, locks  *)
(* and lengths do not appear here.                                         *)
(***************************************************************************)
EXTENDS Naturals

CONSTANTS Procs, Files

VARIABLES
  present,  \* the files there are
  version,  \* how many changes have been made to each
  torn,     \* those that a process has died in the middle of changing
  view      \* the versions a process may find in each file it has open; none in the others

vars == <<present, version, torn, view>>

-----------------------------------------------------------------------------

Init ==
  /\ present \in SUBSET Files
  /\ version = [f \in Files |-> 0]
  /\ torn = {}
  /\ view = [p \in Procs |-> [f \in Files |-> {}]]

\* No other process has it open.
Alone(p, f) == view[p][f] # {} /\ \A q \in Procs \ {p} : view[q][f] = {}

\* Files are never removed.
Create(f) ==
  /\ f \notin present
  /\ present' = present \cup {f}
  /\ UNCHANGED <<version, torn, view>>

Open(p, f) ==
  /\ f \in present /\ view[p][f] = {}
  /\ view' = [view EXCEPT ![p][f] = {version[f]}]
  /\ UNCHANGED <<present, version, torn>>

\* On the last version, and seen by none but the process until it is whole.
Change(p, f) ==
  /\ Alone(p, f)
  /\ version' = [version EXCEPT ![f] = @ + 1]
  /\ view' = [view EXCEPT ![p][f] = {version[f] + 1}]
  /\ UNCHANGED <<present, torn>>

Close(p, f) ==
  /\ view[p][f] # {}
  /\ view' = [view EXCEPT ![p][f] = {}]
  /\ UNCHANGED <<present, version, torn>>

\* A process ends wherever it is.  It can leave a change half done in a file it had to itself.
Leave(p) ==
  /\ view' = [view EXCEPT ![p] = [f \in Files |-> {}]]
  /\ torn \subseteq torn'
  /\ \A f \in torn' \ torn : f \in Files /\ Alone(p, f)
  /\ UNCHANGED <<present, version>>

Next ==
  \/ \E f \in Files : Create(f)
  \/ \E p \in Procs, f \in Files : Open(p, f) \/ Change(p, f) \/ Close(p, f)
  \/ \E p \in Procs : Leave(p)

Spec == Init /\ [][Next]_vars

=============================================================================
