---------------------------- MODULE MCLogStream ----------------------------
(* Small instances of LogStream: every way two pods can turn out.          *)
EXTENDS LogStream, TLC

AllEndings == {"refused", "eof", "fail", "follow"}
=============================================================================
