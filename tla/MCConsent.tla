------------------------------ MODULE MCConsent ------------------------------
(* Two unsubscribe requests that race, one confirmation, one fault.          *)
EXTENDS Consent
=============================================================================
