------------------------------- MODULE MCServer -------------------------------
(* Two clients, two objects in one directory and one part; NFS is used     *)
(* with PostgreSQL and the local disk with SQLite.                         *)
EXTENDS Server

CONSTANTS o1, o2, p1, d1, d2

MCDirOf == [p \in {o1, o2, p1} |-> IF p = p1 THEN d2 ELSE d1]

MCInit == Init /\ (backend = "nfs" <=> driver = "postgres")

MCSpec == MCInit /\ [][Next]_vars /\ Fairness
=============================================================================
