----------------------------- MODULE MCSession ------------------------------
(* Packets of one and two bytes, of different values, in a buffer of       *)
(* three: packets wait behind a pending send, wrap into region B and are   *)
(* refused.                                                                *)
EXTENDS Session

MCPayload == {<<0>>, <<1, 0>>}
=============================================================================
