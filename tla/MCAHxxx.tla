------------------------------ MODULE MCAHxxx -------------------------------
(* AHxxx on a small instance: modes and formats in use.                    *)
EXTENDS AHxxx

MCModes == {"Continuous", "Multiple", "Single"}
MCFormats == {"Binary", "ASCII"}
=============================================================================
