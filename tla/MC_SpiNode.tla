---------------------------- MODULE MC_SpiNode ----------------------------
(* A node and the commands the gateway sends: on and automatic, half and   *)
(* manual (what is for another node is as if it had not come, NoPacket);   *)
(* or commands without mode bytes.                                         *)
EXTENDS SpiNode

Command(mine, lamp, m) == [mine |-> mine, lamp |-> lamp, mode |-> m]

MCCommands ==
  {Command(TRUE, "on", <<"1", "1">>), Command(TRUE, "half", <<"2", "2">>)}

\* A command of six bytes: read() returns -1 for the last two.
MCShort == {Command(TRUE, "on", <<"x", "x">>), Command(TRUE, "off", <<"1", "1">>)}
===========================================================================
