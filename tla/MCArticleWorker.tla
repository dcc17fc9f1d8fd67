--------------------------- MODULE MCArticleWorker ---------------------------
(***************************************************************************)
(* Instances of ArticleWorker for TLC.  Times keep the order of the code's *)
(* values: job < lock (10 min) <= live window (15 min) < attempt claim     *)
(* (60 min) < discovered window = content retention (30 days).             *)
(***************************************************************************)
EXTENDS ArticleWorker, TLC

CONSTANTS u1, j1, j2

LiveWindow == 2
DiscoveredWindow == 4

OneUrl == [m \in Jobs |-> u1]
\* Two live jobs of one article: the scheduler enqueued it twice.
BothLive == [m \in Jobs |-> LiveWindow]
\* A live job and one from a page that links the same article.
Mixed == [m \in Jobs |-> IF m = j1 THEN LiveWindow ELSE DiscoveredWindow]
\* A discovered window that outlasts a live job's window and failed attempt.
MixedFar == [m \in Jobs |-> IF m = j1 THEN LiveWindow ELSE LiveWindow + AttemptTtl + 1]
=============================================================================
