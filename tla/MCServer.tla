------------------------------ MODULE MCServer ------------------------------
(* Scenes of Server: games under an operator who drains and resumes; two    *)
(* connections that reconnect, under an operator who bans; three            *)
(* connections for two places.                                              *)
EXTENDS Server

SmallScenes ==
  { [connections |-> {1}, commands |-> {"match", "ready"},
     operator |-> {"modes"}, limit |-> 1],
    [connections |-> {1, 2}, commands |-> {"join", "reconnect"},
     operator |-> {"moderation"}, limit |-> 2],
    [connections |-> {1, 2, 3}, commands |-> {"create"},
     operator |-> {}, limit |-> 2] }
=============================================================================
