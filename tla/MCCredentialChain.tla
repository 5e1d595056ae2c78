-------------------------- MODULE MCCredentialChain --------------------------
(* An instance of CredentialChain for TLC.                                 *)
EXTENDS CredentialChain

CONSTANTS graphPoller, monitorWorker

\* A poller and a worker of the Lustre pool that share one credential.
TwoThreads == {graphPoller, monitorWorker}
=============================================================================
