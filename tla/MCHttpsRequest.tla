--------------------------- MODULE MCHttpsRequest ---------------------------
(* HttpsRequest for TLC.  The lists are those of scans of 0, 1 and 9 access  *)
(* points of 57 characters each, the tokens of 250 characters and of the 502 *)
(* that parse_jwt_post's buffer holds at most; the rest of a request is 178  *)
(* characters, which leaves 845 of the 1023 of send_buf.                     *)
EXTENDS HttpsRequest
CONSTANTS c1, c2
MCContexts == {c1, c2}
=============================================================================
