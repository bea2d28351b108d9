--------------------------- MODULE MCBase64Table ---------------------------
(***************************************************************************)
(* The instance of Base64Table for TLC: the poller and the WebSocket       *)
(* thread, an alphabet of two letters.                                     *)
(***************************************************************************)
EXTENDS Base64Table

Letters  == <<"A", "B">>
TwoTexts == {<<"A", "B">>, <<"B">>}
=============================================================================
