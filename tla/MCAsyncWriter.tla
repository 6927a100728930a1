---------------------------- MODULE MCAsyncWriter ----------------------------
\* Instances of AsyncWriter for TLC.
EXTENDS AsyncWriter

CONSTANTS c1, c2

\* One client that wants every stream and one that selects none.
AllAndNothing == [c \in Contexts |-> IF c = c1 THEN Streams ELSE {}]

\* Two clients that want every stream.
AllAndAll == [c \in Contexts |-> Streams]
=============================================================================
