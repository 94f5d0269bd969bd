---------------------------- MODULE MCFrameStream ----------------------------
(* FrameStream with frames of two or three bytes, over two connections of  *)
(* a session and one of another program.                                   *)
EXTENDS FrameStream
=============================================================================
