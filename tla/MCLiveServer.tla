---------------------------- MODULE MCLiveServer ----------------------------
(* Instances of LiveServer.                                                 *)
EXTENDS LiveServer

CONSTANT nl

PlainKey == <<"k", "e", "y">>

\* A key configured with its newline, which publishers complete by the line
\* they send it on.
LineKey == Append(PlainKey, nl)

MCKeys == {PlainKey, <<>>}
=============================================================================
