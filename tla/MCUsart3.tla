------------------------------ MODULE MCUsart3 ------------------------------
(* The service port with frames of three bytes. *)
EXTENDS Usart3

MCFrame == <<"STX", "length", "payload">>
=============================================================================
