----------------------------- MODULE MCPacketStream -----------------------------
(* Packets of several lengths: with data that looks like a packet's beginning, with  *)
(* data that is a whole packet that is never sent, too long with its footer, and     *)
(* without data.                                                                   *)
EXTENDS PacketStream

MCPayloads == << <<15, 12, 9>>, <<15, 12, 8, 0, 9, 0, 0, 9>>, <<1, 1, 1, 1, 1, 1, 1, 1, 1>>,
                 <<>> >>
=============================================================================
