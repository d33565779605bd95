------------------------------ MODULE MCHttpProxy ------------------------------
(***************************************************************************)
(* Instance of HttpProxy for TLC.  A minute is two ticks and a u64 holds   *)
(* eight values, so that the values of --ttl are: off, one minute, and one *)
(* whose product with a minute wraps to zero.                              *)
(***************************************************************************)
EXTENDS HttpProxy

SomeTtls == {0, 1, 4}

TwoThenOne ==
    [dom \in Domains |-> IF dom.suffix = "ant" THEN 2 ELSE 1]
=============================================================================
