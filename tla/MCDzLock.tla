------------------------------- MODULE MCDzLock -------------------------------
(* Three processes and two dazibaos for TLC. *)
EXTENDS DzLock, Sequences

CONSTANTS a, b

MCProcs == 1..3

Job(kind, file)    == [kind |-> kind, file |-> file, from |-> file]
Import(file, from) == [kind |-> "import", file |-> file, from |-> from]
Take(file, from)   == [kind |-> "take", file |-> file, from |-> from]

JobList ==
  <<Job("create", a), Job("write", a), Job("read", a), Job("watch", a),
    Import(a, b), Import(b, a), Import(a, a), Take(a, b), Take(b, a), Take(a, a)>>

MCJobs == {JobList[i] : i \in DOMAIN JobList}

\* Processes are alike: their jobs are in the order of JobList.
Ordered ==
  \E i, j, k \in DOMAIN JobList :
    i <= j /\ j <= k /\ job = <<JobList[i], JobList[j], JobList[k]>>

\* b is a dazibao; a may be missing, a dazibao, or another kind of file.
MCInit ==
  /\ Init
  /\ Ordered
  /\ size[b] = "exact" /\ magic[b]
  /\ size[a] = "absent" => ~magic[a]

MCSpec == MCInit /\ [][Next]_vars /\ Fairness

=============================================================================
