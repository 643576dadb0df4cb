------------------------------ MODULE NvmePlan ------------------------------
(***************************************************************************)
(* plan_io (KernelFS/spdk_nvme_backend.cpp): cut a byte range into NVMe    *)
(* commands on whole LBAs.  A partial LBA at either end is a command of    *)
(* its own that a write reads first, so that the bytes around it survive.  *)
(* Offsets are unsigned with largest value Top (2^64 - 1 in the program).  *)
(***************************************************************************)
EXTENDS Integers, Sequences

CONSTANTS Lba, MaxTransfer, Top

LOCAL Least(a, b) == IF a < b THEN a ELSE b

Segment(isWrite, offset, from, length, begin, end) ==
  [device_offset |-> from, device_length |-> length,
   user_offset |-> begin - offset, user_length |-> end - begin,
   bounce_offset |-> begin - from,
   read_before_write |-> isWrite /\ (begin # from \/ end # from + length)]

max_transfer == IF Lba = 0 THEN 0 ELSE (MaxTransfer \div Lba) * Lba

RoundUp(end) == IF end % Lba = 0 THEN end ELSE end + (Lba - (end % Lba))

(* an unaligned first byte: one LBA, up to its end or the end of the range *)
(* Mistake: the first command runs to the end of its LBA *)
HeadPartLong(isWrite, offset, end) ==
  IF offset % Lba = 0 THEN <<>>
  ELSE LET from == offset - (offset % Lba)
       IN <<Segment(isWrite, offset, from, Lba, offset, from + Lba)>>

HeadPart(isWrite, offset, end) ==
  IF offset % Lba = 0 THEN <<>>
  ELSE LET from == offset - (offset % Lba)
       IN <<Segment(isWrite, offset, from, Lba, offset, Least(end, from + Lba))>>

BodyPart(isWrite, offset, cursor, end) ==
  IF cursor >= end THEN <<>>
  ELSE [i \in 1..((end - cursor + max_transfer - 1) \div max_transfer) |->
          LET begin == cursor + (i - 1) * max_transfer
              chunk == Least(end - begin, max_transfer)
          IN Segment(isWrite, offset, begin, chunk, begin, begin + chunk)]

TailPart(isWrite, offset, cursor, end) ==
  IF cursor < end THEN <<Segment(isWrite, offset, cursor, Lba, cursor, end)>> ELSE <<>>

(* the padding of the last LBA may not pass Top either *)
Fits(offset, length) ==
  length <= Top - offset /\ (length = 0 \/ RoundUp(offset + length) <= Top)

Refused == [ok |-> FALSE, segments |-> <<>>, physical_begin |-> 0, physical_end |-> 0]

plan_io(isWrite, offset, length) ==
  IF Lba = 0 \/ MaxTransfer < Lba \/ ~Fits(offset, length) THEN Refused
  ELSE IF length = 0
  THEN [ok |-> TRUE, segments |-> <<>>, physical_begin |-> offset, physical_end |-> offset]
  ELSE LET end     == offset + length
           aligned == end - (end % Lba)
           cursor  == Least(end, RoundUp(offset))
           rest    == IF cursor < aligned THEN aligned ELSE cursor
       IN [ok |-> TRUE,
           segments |-> HeadPart(isWrite, offset, end) \o BodyPart(isWrite, offset, cursor, aligned)
                          \o TailPart(isWrite, offset, rest, end),
           physical_begin |-> offset - (offset % Lba),
           physical_end |-> RoundUp(end)]
============================================================================
