------------------------------ MODULE MCService -----------------------------
(* Numbers of workers on both sides of the bounds that WithTaskManager and     *)
(* NewTaskManager look at, with some that are below zero.                      *)
EXTENDS Service

MCMax == {-25, -1, 100}
=============================================================================
