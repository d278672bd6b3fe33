------------------------------ MODULE AdbPacket ------------------------------
(***************************************************************************)
(* What the daemon answers to a packet: xdbd_process_packet and the        *)
(* handlers of the table pcmds, src/adb/packet.c and src/adb/command.c.    *)
(* None of them looks at the payload: the answer depends on the header.    *)
(***************************************************************************)
EXTENDS Integers

ADB_AUTH_TOKEN      == 1
ADB_VERSION         == 16777217     \* 0x01000001
ADB_MAX_PACKET_SIZE == 1048576
DeviceId            == 1            \* the one stream id the daemon ever uses

\* xddb_process_cmd: the one command of the table adb_cmds, "shell", is taken
\* whatever the payload of an OPEN packet asks for.
ShellReply == "OKAY"

\* A header has the fields pcmd, arg0, dlen and magic; magic is TRUE when the
\* field of that name is the complement of pcmd.  "SYNC", "STLS" and unknown
\* commands are the ones that have no answer in this table.
pcmds ==
  [CNXN |-> "AUTH", AUTH |-> "CNXN", OPEN |-> ShellReply, OKAY |-> "OKAY", WRTE |-> "WRTE"]

\* "ok", "close" when the handler closes the connection, or "err".
Verdict(h) ==
  IF h.magic /\ h.pcmd = "CLSE" THEN "close"
  ELSE IF h.magic /\ h.pcmd \in DOMAIN pcmds /\ (h.pcmd = "OPEN" => h.arg0 # 0)
       THEN "ok"
  ELSE "err"

\* The header of the packet sent back: ids are answered with the host's id,
\* the handshake with what the daemon says of itself.
Reply(h) ==
  LET cmd == pcmds[h.pcmd]
  IN CASE cmd = "AUTH" -> [pcmd |-> cmd, arg0 |-> ADB_AUTH_TOKEN, arg1 |-> 0]
       [] cmd = "CNXN" -> [pcmd |-> cmd, arg0 |-> ADB_VERSION, arg1 |-> ADB_MAX_PACKET_SIZE]
       [] OTHER        -> [pcmd |-> cmd, arg0 |-> DeviceId, arg1 |-> h.arg0]
=============================================================================
