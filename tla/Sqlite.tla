------------------------------- MODULE Sqlite -------------------------------
(***************************************************************************)
(* The database file as histx uses it.  Every histx process opens its own   *)
(* SQLite connection to one file (init.c) in the default rollback-journal   *)
(* mode and never installs a busy handler, so a lock that cannot be had at  *)
(* once makes the call return SQLITE_BUSY: no histx process ever waits for  *)
(* another one inside SQLite.                                               *)
(*                                                                          *)
(* SQLite itself is not part of the repository.  What is modelled is the    *)
(* lock each connection holds between two of its steps:                     *)
(*    "none"      no transaction                                            *)
(*    "shared"    a select is being stepped                                 *)
(*    "reserved"  a write transaction is open, its changes are private      *)
(*    "pending"   a commit was refused: new readers are kept out            *)
(* The exclusive lock is held only inside the commit step itself.           *)
(***************************************************************************)

CONSTANT Proc      \* the connections, one for each running histx

VARIABLE lock      \* what each connection holds

Level == {"none", "shared", "reserved", "pending"}

LockInit == lock = [p \in Proc |-> "none"]

Writing(p) == lock[p] \in {"reserved", "pending"}

\* A reader is kept out only by a writer whose commit is pending.
MayRead(p) == \A q \in Proc \ {p} : lock[q] # "pending"

\* One write transaction at a time; readers do not keep a writer from starting.
MayReserve(p) == \A q \in Proc \ {p} : ~Writing(q)

\* The exclusive lock needs every other connection to be out of the file.
MayCommit(p) == \A q \in Proc \ {p} : lock[q] = "none"

Take(p, level) == lock' = [lock EXCEPT ![p] = level]

Release(p) == Take(p, "none")

=============================================================================
