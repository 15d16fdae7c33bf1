---------------------------- MODULE MCAutoReplacement ----------------------------
(* Instances of AutoReplacement for TLC. *)
EXTENDS AutoReplacement

ModelHashes == {"h1", "h2", "h3"}

\* Clean builds of known commits: tagged releases, and builds between two tags
\* that are stamped with their hash and have no comparable version.
MixedBuilds == [version : 0..2, label : {0}, revision : ModelHashes, time : 1..3,
                advertises : {TRUE}]
=============================================================================
