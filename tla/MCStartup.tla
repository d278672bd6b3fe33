------------------------------ MODULE MCStartup ------------------------------
(* A listener and one slot, for which there is one descriptor too many.      *)
EXTENDS Startup

MCListenFd  == 3
MCFds       == 3 .. 5
NoFailures  == {}
AllFailures == {"malloc", "socket", "fcntl", "bind", "listen"}
=============================================================================
