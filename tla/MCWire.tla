------------------------------- MODULE MCWire -------------------------------
(* Wire with groups of two bits, so that vInts of five bits and vLongs of  *)
(* seven take up to three and four bytes, the last one not full.           *)
EXTENDS Wire

Request(id, cache, flags, topology, key, version) ==
    [id |-> id, opcode |-> 3, cache |-> cache, flags |-> flags, intelligence |-> 3,
     topology |-> topology, key |-> key, version |-> version]

\* Zero and empty; one group filled and one more; the largest.
SomePayloads == {
    Request(0, <<>>, 0, 0, <<>>, 0),
    Request(4, <<5>>, 3, 4, <<1, 2, 3, 4, 5>>, -1),
    Request(127, <<6, 7>>, 31, 16, <<9>>, -32)}
=============================================================================
