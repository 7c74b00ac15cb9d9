----------------------------- MODULE MCPipeline -----------------------------
(* Model-checking instance of Pipeline: two stages, two workers on stage 1 *)
(* and one on stage 2, three items of which one is a ping and one has its  *)
(* own output channel.                                                      *)
EXTENDS Pipeline

CONSTANTS i1, i2, i3, c1, c2

MCItems == {i1, i2, i3}
MCPings == {i3}
MCOverrides == {i2}
MCPoolSizes == <<2, 0>>
\* distinct command ids per stage
MCCmdIds == <<c1, c2>>
\* the first stage's command reused by the last stage
MCReusedCmdIds == <<c1, c1>>
=============================================================================
