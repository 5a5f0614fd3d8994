----------------------------- MODULE MCControl ------------------------------
(***************************************************************************)
(* One caller and one daemon; the output of a command may quote the        *)
(* failure marker, as an error message of the tools micad calls may.       *)
(***************************************************************************)
EXTENDS Control

MCQuotes == {"fail"}
=============================================================================
