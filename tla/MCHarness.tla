------------------------------ MODULE MCHarness ------------------------------
(* Instances of Harness for TLC. *)
EXTENDS Harness

\* The folder of one run is a prefix of another's, as run-20260520-1 is one of
\* run-20260520-10.
MCDomain == <<"harness">>
MCRunName ==
  [r \in Runs |-> [i \in 1..(r.attempt_count + MaxAttempts * (r.job - 1)) |-> "r"]]

\* The default paths; an input in another bucket; an output there; both on the disk.
Unset == <<NoLocation, NoLocation, NoLocation>>
MCPathSettings ==
  {[input |-> Unset, output |-> Unset],
   [input |-> <<NoLocation, Place("other", <<"pages">>), Place("other", <<"old">>)>>, output |-> Unset],
   [input |-> Unset, output |-> <<NoLocation, Place("other", <<"out">>), Place("local", <<"old">>)>>],
   [input |-> <<Place("local", <<"in">>), NoLocation, NoLocation>>,
    output |-> <<Place("local", <<"out">>), NoLocation, NoLocation>>]}
MCOtherObjects ==
  {Place("bucket", MCDomain \o <<"/", "input", "/">>),
   Place("bucket", MCDomain \o <<"/", "input", "/", "page.md">>),
   Place("other", <<"pages", "/", "page.md">>), Place("other", <<"pages", "two", "/", "page.md">>),
   Place("local", <<"in", "/", "page.md">>), Place("local", <<"in", "two", "/", "page.md">>),
   Place("local", <<"in", "/", "a%20b.md">>), Place("local", <<"in", "/", "link.md">>),
   Place("local", <<"out", "/", "graph.json">>), Place("local", <<"out", "/", "ontology.ttl">>)}

MCTokens ==
  {"/", "input", "output", "config.yaml", "prompts.txt", "graph.json", "ontology.ttl",
   "regression_report.json", "owl_ontology_metrics.csv", "harness", "r", "page.md", "pages",
   "old", "in", "out", "two", "a%20b.md", "a b.md", "link.md"}
MCBuckets == {"bucket", "other", "local"}

\* A file of the input on the disk has an escape in its name, another is a link to
\* one outside the input.
MCDecoded == [t \in MCTokens |-> IF t = "a%20b.md" THEN <<"a b.md">> ELSE <<t>>]
MCLinks == [path \in {<<"in", "/", "link.md">>} |-> <<"in", "two", "/", "page.md">>]

ASSUME ApartPaths == PathsApart

PodSymmetry == Permutations(Pods)
=============================================================================
