------------------------------ MODULE MCProcess -------------------------------
(* The whole program with one entry in the reconnect schedule and an import  *)
(* queue of two packets.                                                     *)
EXTENDS Process
===============================================================================
