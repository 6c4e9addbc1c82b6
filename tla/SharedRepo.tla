----------------------------- MODULE SharedRepo -----------------------------
(***************************************************************************)
(* What modules/repo/fsrepo promises to its callers: the repository of a    *)
(* path is one resource that several users share; it is open exactly while  *)
(* somebody holds it, it opens with the first holder, closes with the last  *)
(* one, and a release by one user never takes it from another.  A crash of  *)
(* the process drops all holders at once.                                   *)
(***************************************************************************)
CONSTANT User

VARIABLES
  holders,   \* the users that opened the repository and have not closed it
  open       \* the repository is open

vars == <<holders, open>>

Init == holders = {} /\ open = FALSE

Acquire(u) ==
  /\ u \notin holders
  /\ holders' = holders \cup {u}
  /\ open' = TRUE

Release(u) ==
  /\ u \in holders
  /\ holders' = holders \ {u}
  /\ open' = (holders' # {})

Crash == holders' = {} /\ open' = FALSE

Next == (\E u \in User : Acquire(u) \/ Release(u)) \/ Crash

Spec == Init /\ [][Next]_vars
=============================================================================
