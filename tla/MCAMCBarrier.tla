---------------------------- MODULE MCAMCBarrier ----------------------------
(* Instances of AMCBarrier for TLC. *)
EXTENDS AMCBarrier

NamedArg(i)   == [flags |-> {}, value |-> i]
AnonymousArg  == [flags |-> {"ANONYMOUS"}, value |-> 0]

\* Two conflicting names and no name.
FewArgs  == {NamedArg(1), NamedArg(2), AnonymousArg}
OneName  == {NamedArg(1)}
=============================================================================
