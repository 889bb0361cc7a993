---------------------------- MODULE MCSessionOps ----------------------------
EXTENDS SessionOps
\* Every method, every option; the ones that share the runner and the askpass
\* poller in an interesting way may queue behind each other.
AllRequests == DOMAIN Catalogue
Mixed == {"checkout", "deleteTag", "fetch", "backgroundFetch", "delete"}
Prompting == {"deleteTag", "fetch"}
=============================================================================
