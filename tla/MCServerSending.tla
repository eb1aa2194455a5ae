--------------------------- MODULE MCServerSending ---------------------------
(* An instance of ServerSending for TLC.                                    *)
EXTENDS ServerSending
=============================================================================
