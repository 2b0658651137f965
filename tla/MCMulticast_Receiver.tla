------------------------ MODULE MCMulticast_Receiver ------------------------
(***************************************************************************)
(* Small instances of Multicast_Receiver.  The buffer holds ten cells:     *)
(* Fits is exactly as long, and carries a second announcement behind it as *)
(* the datagrams of Multicast_Sender do; Short leaves a stale tail in the  *)
(* buffer and is a signoff, which the callback takes for an announcement;  *)
(* LongBrief is cut inside its brief, LongAddress before it.               *)
(***************************************************************************)
EXTENDS Multicast_Receiver

Fields(class, port, name, address, brief) ==
  [Fresh(class) EXCEPT !.port = port, !.protacol = 1, !.name = name,
                       !.address = address, !.brief = brief]

Announcement(port, name, address, brief, tail) ==
  [class |-> pfc_service_announcement, tail |-> tail,
   head |-> Fields(pfc_service_announcement, port, name, address, brief)]

Short ==
  [class |-> pfc_service_signoff, tail |-> <<>>,
   head |-> Fields(pfc_service_signoff, 1, <<11>>, <<12>>, <<>>)]

Fits        == Announcement(2, <<11>>, <<12>>, <<13, 14>>, Wire(Short))
LongBrief   == Announcement(3, <<11>>, <<12>>, <<13, 14, 15>>, <<>>)
LongAddress == Announcement(4, <<11>>, <<12, 12, 12, 12>>, <<13>>, <<>>)

MCDatagrams == {Short, Fits, LongBrief, LongAddress}

\* What is sent is short enough for the smallest buffer.
FittingDatagrams == {Short, Fits}
=============================================================================
