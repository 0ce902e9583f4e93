---------------------------- MODULE MCHashCtxMgr ----------------------------
(* The context layer on small instances.                                   *)
EXTENDS HashCtxMgr

CONSTANTS c1, c2

MCCtxs == {c1, c2}
MCBuffers == MCCtxs \X {"user", "partial"}
PadBytes == {<<"80">>, <<"00">>, <<"?">>} \cup {<<"len", n>> : n \in 0 .. MaxTotal}
MCByte == PadBytes \cup (MCCtxs \X (1 .. MaxTotal) \X {"data"})
=============================================================================
