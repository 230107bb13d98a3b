---------------------------- MODULE MCReconnect ----------------------------
(* Small devices: a browser that makes three connections, one that makes    *)
(* two and logs out from either, a terminal client that makes three.        *)
EXTENDS Reconnect

SmallDevices ==
  { [kind |-> "web", connections |-> 3, leaves |-> {}],
    [kind |-> "web", connections |-> 2, leaves |-> {1, 2}],
    [kind |-> "tui", connections |-> 3, leaves |-> {}] }
=============================================================================
