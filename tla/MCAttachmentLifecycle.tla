----------------------- MODULE MCAttachmentLifecycle -----------------------
(* AttachmentLifecycle on small sets, for TLC.                             *)
EXTENDS AttachmentLifecycle, TLC

(* Requests and workers are interchangeable; attachments are not, because  *)
(* an idle record names one of them.                                       *)
SameClients == Permutations(Client)
SameWorkers == Permutations(Worker)
=============================================================================
