---------------------------- MODULE MCDownload ----------------------------
(* Small instances of Download.  Three pages are the least with which an    *)
(* ack of one page can cover a second one still queued and a third one      *)
(* still to be recorded.                                                    *)
EXTENDS Download

Chatter == {"chatter"}
LossyLink == {"lossy"}
Mishaps == {"chatter", "kill", "write", "overwrite"}
=============================================================================
