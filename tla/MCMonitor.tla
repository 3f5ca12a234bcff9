----------------------------- MODULE MCMonitor -----------------------------
(* Small instances of Monitor: two systems, one of them with mails.          *)
EXTENDS Monitor

CONSTANTS door, printer

MCSystem == {door, printer}
MCNotify == {door}

=============================================================================
