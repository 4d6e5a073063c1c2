------------------------------ MODULE MCCodec ------------------------------
(* Codec on a small instance: commands that differ in one place or in two, of
   another length, and one of another opcode that is larger than the dictionary. *)
EXTENDS Codec

MCCommands ==
  {<<1, 4, x, y>> : x, y \in {0, 1}} \cup {<<1, 3, 0>>, <<2, 8, 0, 0, 0, 0, 0, 0>>}
=============================================================================
