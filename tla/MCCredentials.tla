---------------------------- MODULE MCCredentials ----------------------------
(* Credentials.tla for TLC, with GitHub's real periods in minutes.           *)
EXTENDS Credentials
MCLifetime == 60
MCMargin == 5
MCIatSkew == 1
MCJwtLife == 9
MCJwtCeiling == 10
MCMaxAttempts == 3
\* Two token lifetimes and a little more.
MCMaxTime == 125
MCMaxDelay == 1
\* A host clock within what the margin covers.
MCSlightlySlow == 3
=============================================================================
