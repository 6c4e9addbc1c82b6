---------------------------- MODULE MCProtocols ----------------------------
(* Protocols for TLC: bytes of one bit, so that lengths are below four.       *)
EXTENDS Protocols, TLC

CONSTANTS empty, one, two, three, four, six, ten

\* Bodies of these lengths; the two bytes of the length of six are those of
\* two, and four looks empty.  Those of ten are two as well, and what is left
\* of it is more than the stream takes.
Bits ==
  (empty :> <<>>) @@ (one :> <<1>>) @@ (two :> <<1, 0>>) @@ (three :> <<0, 1, 1>>)
  @@ (four :> <<1, 1, 0, 1>>) @@ (six :> <<1, 0, 1, 1, 0, 0>>)
  @@ (ten :> <<0, 0, 1, 0, 1, 1, 0, 1, 0, 1>>)
=============================================================================
