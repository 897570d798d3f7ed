---------------------------- MODULE MCInboxFile ----------------------------
(* Small instances of InboxFile. *)
EXTENDS InboxFile
============================================================================
