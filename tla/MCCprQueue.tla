------------------------------ MODULE MCCprQueue ------------------------------
(* Chunks for CprQueue: text the parser follows or not, one or two queries, *)
(* and a prompt alone, before text or with a query in the same chunk.       *)
EXTENDS CprQueue

Chunk(asks, moves, seen, prompt) ==
  [asks |-> asks, moves |-> moves, seen |-> seen, prompt |-> prompt]

Text   == Chunk(<<>>, 1, 1, FALSE)
Prompt == Chunk(<<>>, 0, 0, TRUE)

AllChunks ==
  {Text, Prompt, Chunk(<<>>, 1, 1, TRUE),
   Chunk(<<>>, 1, 0, FALSE), Chunk(<<0>>, 1, 1, FALSE),
   Chunk(<<0, 1>>, 1, 1, FALSE), Chunk(<<1>>, 1, 1, TRUE)}
=============================================================================
