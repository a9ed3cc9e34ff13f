------------------------------ MODULE MCFraming ------------------------------
(***************************************************************************)
(* Framing for TLC: two frames whose machine number and content contain    *)
(* control characters, one of them what looks like the end of a frame;     *)
(* the beginnings and ends that a reset or a late start of reading leaves; *)
(* single control characters.                                              *)
(***************************************************************************)
EXTENDS Framing, Crc16

MCCrc(data) == crc16(65535, data)

F1 == BuildPacket(<<114, 97, 1, 4>>, 1)
F2 == BuildPacket(<<99, 107, 3, 0, 9, 4, 5>>, 2)

MCFrames == {F1, F2}
MCAnswers == {<<ACK, 1, 114, 97, 0, 1>>, <<NAK, 1, 114, 97, 0, 1>>}
MCScraps ==
  {SubSeq(F1, 1, 4), SubSeq(F1, 7, Len(F1)), SubSeq(F2, 1, 9), SubSeq(F2, 4, Len(F2))}
    \cup {<<SOH>>, <<EOT>>, <<120>>}
=============================================================================
