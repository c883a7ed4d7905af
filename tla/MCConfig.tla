------------------------------ MODULE MCConfig ------------------------------
(* Config for TLC: a variable "port" with listeners, one "host" without,   *)
(* and documents with keys that are unknown, rejected or do not convert.   *)
EXTENDS Config

Documents ==
    {<<<<"Port", "v1">>, <<"jobs", "v1">>, <<"host", "text">>, <<"port", "v1">>, <<"host", "v2">>>>}
=============================================================================
