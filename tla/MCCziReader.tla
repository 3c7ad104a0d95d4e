----------------------------- MODULE MCCziReader -----------------------------
(* Three threads and two documents, of which one has no attachments; that   *)
(* neither has metadata keeps the run short.                                *)
EXTENDS CziReader, TLC

CONSTANTS t1, t2, t3, full, plain

MCThreads == {t1, t2, t3}
MCStreams == {full, plain}
MCContents == (full :> {"subBlock", "attachment"}) @@ (plain :> {"subBlock"})

=============================================================================
