----------------------------- MODULE MCEventLoop -----------------------------
(* A listener and two slots.  "Roomy": as many descriptors as slots, so the  *)
(* slots never run out.  "Full": more descriptors than slots.                *)
EXTENDS EventLoop, TLC

MCListenFd  == 3
RoomyFds    == 3 .. 5
FullFds     == 3 .. 6
NoFailures  == {}
AllFailures == {"malloc", "fcntl", "sigpipe"}

\* The slots next to the listener are alike.
SlotSymmetry == Permutations(Conns \ {Listener})
=============================================================================
