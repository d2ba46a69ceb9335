------------------------------- MODULE MCJt808 -------------------------------
(* Values of Jt808's constants. The second message has its length, a body  *)
(* byte and its checksum at or next to the special values.                 *)
EXTENDS Jt808

SomeMessages == {<<3>>, <<2, 6>>, <<0, 5, 5>>}
=============================================================================
