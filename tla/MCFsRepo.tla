------------------------------ MODULE MCFsRepo ------------------------------
(* FsRepo for TLC: a few goroutines, a lockable mount and an invalid one.   *)
EXTENDS FsRepo

\* A configuration without identity, and one with that lists a mount which does
\* not validate beside one that does.
MCConfigs ==
  { [ident |-> NoIdent, mounts |-> {"level"}],
    [ident |-> "idA", mounts |-> {"level", "invalid"}] }
=============================================================================
