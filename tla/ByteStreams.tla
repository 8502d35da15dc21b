----------------------------- MODULE ByteStreams -----------------------------
(***************************************************************************)
(* Streams of bytes.  Bytes are numbered in the order they are produced or *)
(* typed, so a stream is correct when it reads 1, 2, 3...  On a connection *)
(* a stream is what the messages of some kinds carry, in order.            *)
(***************************************************************************)
EXTENDS Integers, Sequences, SequencesExt

\* The n bytes after the first ones, and so the first n when from is 0.
Count(from, n) == [i \in 1..n |-> from + i]

\* What the messages of some kinds carry.
Data(kinds, msg)   == IF msg.kind \in kinds THEN msg.data ELSE <<>>
Bytes(kinds, msgs) == FlattenSeq([i \in DOMAIN msgs |-> Data(kinds, msgs[i])])
=============================================================================
