------------------------- MODULE MCDiagnosticStore -------------------------
(* DiagnosticStore for TLC: two enabled types, one of them SYSTEM_RESOURCE, *)
(* and one type that is never enabled.                                      *)
EXTENDS DiagnosticStore

MCTypes          == {2, 4, 9}
MCEnabledTypes   == {2, 9}
MCSystemResource == 9
MCLevels         == {INFO, ERROR}
============================================================================
