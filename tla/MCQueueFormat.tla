--------------------------- MODULE MCQueueFormat ---------------------------
(* Values for the constants of QueueFormat. *)
EXTENDS QueueFormat

Bytes(n) == [i \in 1 .. n |-> i % Base]
Msg(entries, metadata, t) ==
  [entries |-> entries, metadata |-> metadata, ingestionTimeMs |-> t]

\* Entries of length zero, small, the largest that fits and one more.
Small == Msg(<<Bytes(1)>>, <<>>, 5)
Empty == Msg(<<<<>>>>, <<>>, 0)
Pair == Msg(<<<<>>, Bytes(3)>>, <<2>>, 17)
Long == Msg(<<Bytes(MaxUint32)>>, <<1>>, 5)
TooLong == Msg(<<Bytes(MaxUint32 + 1)>>, <<>>, 5)

MCGroups ==
  {<<<<Small>>>>, <<<<Pair, Small, Empty>>>>, <<<<Empty, Long>>>>,
   <<<<TooLong>>, <<Small, Pair>>>>, <<<<Pair>>, <<Empty>>>>}

\* Locations of a few bytes, of the longest length that fits and of one more.
MCPathPrefixes == {Bytes(1), Bytes(MaxUint16 - 2), Bytes(MaxUint16 - 1)}
=============================================================================
