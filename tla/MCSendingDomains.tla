-------------------------- MODULE MCSendingDomains --------------------------
(* Two selectors, two jobs at a time, four edits and one fault.              *)
EXTENDS SendingDomains
=============================================================================
