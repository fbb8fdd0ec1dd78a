--------------------------- MODULE MCGPGNetFraming ---------------------------
(***************************************************************************)
(* Instances of GPGNetFraming.  The bytes of strings look like types,      *)
(* lengths and counts.                                                     *)
(***************************************************************************)
EXTENDS GPGNetFraming

Headers == {<<>>, <<1, 0>>}
Chunks == {IntChunk(-1), IntChunk(259), BoolChunk(TRUE),
           StringChunk(<<>>), StringChunk(<<1, 0, 0>>)}

MCMessages == [header : Headers, chunks : BoundedSeq(Chunks, 1)]
                \cup [header : {<<0>>}, chunks : [1 .. 2 -> Chunks]]
=============================================================================
