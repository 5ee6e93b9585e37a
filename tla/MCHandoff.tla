------------------------------ MODULE MCHandoff ------------------------------
(* Instances of Handoff for TLC.                                            *)
EXTENDS Handoff

Port(t, b, f) == [type |-> t, base |-> b, slash |-> FALSE, fd |-> f]

\* --port arguments: every type and spelling, descriptors on both sides of the
\* limits.
PortArgs ==
  {Port(t, b, f) : t \in {"tcp", "udp"}, b \in TCPSpellings \cup {"reserved"},
                   f \in {-1, 2, 3, 4, 6, MaxFD, MaxFD + 1}}

\* --path arguments.
PathArgs ==
  [type : {"unix"}, base : Spellings, slash : BOOLEAN, fd : {-1}]

\* For layouts with three ports the names do not matter.
PlainPorts == {Port("tcp", "port", f) : f \in {-1} \cup 2..(MaxFD + 1)}

SmallRequests ==
  {<<>>} \cup {<<a>> : a \in PortArgs \cup PathArgs}
    \cup {<<a, b>> : a \in PortArgs, b \in PortArgs \cup PathArgs}
    \cup {<<a, b>> : a \in PathArgs, b \in PathArgs}
    \cup {<<a, b, c>> : a \in PlainPorts, b \in PlainPorts, c \in PlainPorts}
=============================================================================
