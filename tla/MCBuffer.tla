------------------------------ MODULE MCBuffer ------------------------------
(* Model-checking instances of util::buffer.                              *)
EXTENDS Buffer

(* Every operation the program calls on a buffer.                          *)
MCAllOps == {"put", "get", "get_many", "consume", "receive", "send"}

(* A socket's input buffer: Socket::Receive fills it, and                  *)
(* ProcessBytesIntoCurrentMessage reads it with get() for the header and   *)
(* get_many() for the body.                                                *)
MCInputOps == {"receive", "get", "get_many"}

(* Socket's input_buffer_ is made by buffer() and starts empty.            *)
InputSpec == EmptyInit /\ [][Next]_vars
=============================================================================
