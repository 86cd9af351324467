------------------------------ MODULE MCCrc32c ------------------------------
(***************************************************************************)
(* Buffers for TLC: the lengths around each loop of the checksum, with one *)
(* byte that is not 0 at each place, and one of which no byte is 0.        *)
(***************************************************************************)
EXTENDS Crc32c

MCLengths == {0, 1, 3, 4, 5, 7, 8, 11, 12, 13, 16, 19, 20, 23, 31}
MCBytes == {{0}, {7}, {1, 2, 4, 6}}
MCTexts ==
  UNION {{[i \in 1 .. n |-> IF i = at THEN b ELSE {}] :
            at \in 1 .. n, b \in MCBytes} : n \in MCLengths}
  \cup {[i \in 1 .. n |-> {j \in 0 .. 7 : (i * i + j) % 3 # 0}] : n \in MCLengths}
=============================================================================
