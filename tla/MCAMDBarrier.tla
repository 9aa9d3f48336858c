---------------------------- MODULE MCAMDBarrier ----------------------------
(* Instances of AMDBarrier for TLC. *)
EXTENDS AMDBarrier

NamedArg(i)   == [flags |-> {}, value |-> i]
AnonymousArg  == [flags |-> {"ANONYMOUS"}, value |-> 0]

\* A name and no name.
NameOrNone == {NamedArg(1), AnonymousArg}
OneName  == {NamedArg(1)}
=============================================================================
