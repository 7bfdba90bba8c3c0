----------------------------- MODULE MCLlmNode -----------------------------
(****************************************************************************)
(* LlmNode on a small agent. A conversation with calls of tools is followed    *)
(* for fewer answers than one without, which has to use up every retry.        *)
(****************************************************************************)
EXTENDS LlmNode

CONSTANT PaidWithTools

ToolsComeSoon == calls # <<>> => ledger.paid <= PaidWithTools
=============================================================================
