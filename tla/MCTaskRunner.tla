----------------------------- MODULE MCTaskRunner -----------------------------
(* A small runner: a static task of low priority and a dynamic one of high  *)
(* priority, as nuskaitytiDokumenta-<id> of tasks/dokNuskaitytojai.js.      *)
EXTENDS TaskRunner

MCPriority    == <<1, 3>>
MCConcurrency == <<1, 2>>
MCDynamic     == {2}
=============================================================================
