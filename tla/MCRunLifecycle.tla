--------------------------- MODULE MCRunLifecycle ---------------------------
(* Small instances of RunLifecycle for TLC. *)
EXTENDS AgreementInvariant
CONSTANTS r1, r2, s1

OneSession == [r \in Runs |-> s1]
AnyExecutor == [r \in Runs |-> Executors]
ShellOnly == [r \in Runs |-> {"shell"}]
=============================================================================
