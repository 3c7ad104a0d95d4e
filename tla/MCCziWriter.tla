---------------------------- MODULE MCCziWriter ----------------------------
(***************************************************************************)
(* Instances of CziWriter for TLC.  s1 has no bytes, a2 no data; m2 does   *)
(* not fit where m1 was, nor into a reservation for m1.  Of s2 the last 80 *)
(* bytes of the data are not delivered.  s3 has no data to deliver at all: *)
(* of its 20000 bytes only 12288 are filled, and 4096 more behind them.    *)
(***************************************************************************)
EXTENDS CziWriter, TLC

CONSTANTS s1, s2, s3, a1, a2, m1, m2

Part(size, delivered) == [size |-> size, delivered |-> delivered]

MCSubBlockParts ==
  [c \in SubBlocks |->
     CASE c = s1 -> <<Part(0, 0), Part(0, 0), Part(0, 0)>>
       [] c = s2 -> <<Part(10, 10), Part(90, 10), Part(0, 0)>>
       [] c = s3 -> <<Part(0, 0), Part(20000, 0), Part(0, 0)>>]

MCAttachmentSize == [a \in Attachments |-> IF a = a1 THEN 50 ELSE 0]
MCMetadataSize == [m \in Metadatas |-> IF m = m1 THEN 20 ELSE 600]
MCCoordinate == [c \in SubBlocks |-> IF c = s1 THEN 1 ELSE 2]

\* Nothing reserved, or room for m1 and a default sub-block directory
MCWriterInfos ==
  {DefaultInfo,
   [metadata |-> 20, subBlkDir |-> 0, attachmentDir |-> NotReserved]}

\* Room for two attachments
MCReservesAttachments ==
  {[metadata |-> NotReserved, subBlkDir |-> NotReserved, attachmentDir |-> 2]}
=============================================================================
