---------------------------- MODULE MCRpcServer ----------------------------
(* Instances of RpcServer for TLC.                                         *)
EXTENDS RpcServer

\* Two calls of one method, of which the second may come when one thread has
\* started and its only object is taken, and one of another: more calls than threads.
MCCall == {<<"send", 1>>, <<"send", 2>>, <<"get", 1>>}
=============================================================================
