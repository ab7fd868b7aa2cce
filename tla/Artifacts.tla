------------------------------ MODULE Artifacts ------------------------------
(***************************************************************************)
(* The files that the page of a job offers, and what it lets users         *)
(* download.  S3 keys and local paths are sequences of tokens, "/" among   *)
(* them; a location is a bucket and a prefix, or a local path.             *)
(***************************************************************************)
EXTENDS Integers, SequencesExt

CONSTANTS
  Tokens,          \* what keys and paths are made of
  Decoded,         \* what unquote makes of a token: itself, unless it has an escape (%20)
  Links,           \* what the symbolic links on the disk, and paths with "..", resolve to
  Buckets,
  DefaultBucket,   \* S3_BUCKET_NAME
  Local,           \* stands for a bucket in local paths
  NoLocation       \* a path that is not configured

Keys == Seq(Tokens)
Place(bucket, path) == [bucket |-> bucket, path |-> path]
Places == [bucket: Buckets, path: Keys]

ASSUME PlacesAssumption ==
  /\ {"/", "input", "output", "config.yaml", "prompts.txt", "graph.json", "ontology.ttl",
      "regression_report.json", "owl_ontology_metrics.csv"} \subseteq Tokens
  /\ {DefaultBucket, Local} \subseteq Buckets /\ DefaultBucket # Local
  /\ NoLocation \notin Places
  /\ Decoded \in [Tokens -> Keys]
  /\ DOMAIN Links \subseteq Keys /\ Links \in [DOMAIN Links -> Keys]

-----------------------------------------------------------------------------
(* Locations and prefixes. *)

NormalisePrefixNot(prefix) == prefix                                 \* bug: no "/" at the end
NormalisePrefix(prefix) ==
  IF prefix # <<>> /\ Last(prefix) = "/" THEN prefix ELSE Append(prefix, "/")

Below(prefix, key) == IsPrefix(prefix, key) /\ prefix # key
RemovePrefix(prefix, key) == SubSeq(key, Len(prefix) + 1, Len(key))

\* The S3 locations a configured path names; local paths are none.
S3Locations(location) ==
  IF location = NoLocation \/ location.bucket = Local THEN {}
  ELSE {Place(location.bucket, NormalisePrefix(location.path))}
LocalPaths(location) ==
  IF location # NoLocation /\ location.bucket = Local THEN {location.path} ELSE {}

\* The objects of a store (a set of places) with a prefix, without those that
\* stand for folders.
Objects(store, location) ==
  {o \in store : o.bucket = location.bucket /\ IsPrefix(location.path, o.path) /\ Last(o.path) # "/"}

\* A store has no empty key or path, and nothing on its disk is a file and a folder.
IsStore(store) ==
  /\ store \subseteq Places /\ \A o \in store : o.path # <<>>
  /\ \A o, q \in store :
       o.bucket = Local /\ q.bucket = Local => ~IsPrefix(o.path \o <<"/">>, q.path)

\* The files at or below a local path.
LocalFiles(store, path) ==
  {o \in store : o.bucket = Local /\ (o.path = path \/ IsPrefix(path \o <<"/">>, o.path))}

\* A job's run in S3, and the job's own prefix there: none before a run is
\* recorded.  A job is a record with the fields domain, job_runs (<<>> for NULL),
\* config_data and domain_prompt (whether there is one), input_path, output_dir.
RunPrefix(job) == NormalisePrefix(job.domain \o <<"/">> \o job.job_runs)
RunLocations(job) ==
  IF job.domain = <<>> \/ job.job_runs = <<>> THEN {} ELSE {Place(DefaultBucket, RunPrefix(job))}

-----------------------------------------------------------------------------
(* Groups. *)

OntologyFiles == {"graph.json", "ontology.ttl", "schema.json"}
\* The names listed in the code, and one of those with "_report.", "_summary.",
\* "_metrics.", "_costs." or "_status." in them.
ReportFiles == {"stdout.log", "regression_report.json", "owl_ontology_metrics.csv",
                "bedrock_costs.csv", "export_status.json", "token_summary.json"}

OutputArtifactGroup(name) ==
  IF name \in OntologyFiles THEN "ontology_files"
  ELSE IF name \in ReportFiles THEN "reports" ELSE "intermediary_files"

Artifact(group, name, place) ==
  [group |-> group, name |-> name, place |-> place, visualize |-> FALSE]

\* What the row itself holds: no place.
RowArtifacts(job) ==
  {Artifact("intermediary_files", <<name>>, NoLocation) : name \in
     (IF job.config_data THEN {"config.yaml"} ELSE {})
     \cup (IF job.domain_prompt THEN {"prompts.txt"} ELSE {})}

\* The name of a local file: relative to a folder, or the path's last part.
LocalName(path, file) ==
  IF path = file THEN <<Last(file)>> ELSE RemovePrefix(path \o <<"/">>, file)

LocalInputArtifacts(job, store) ==
  UNION {{Artifact("intermediary_files", <<"input", "/">> \o LocalName(path, o.path), o)
            : o \in LocalFiles(store, path)} : path \in LocalPaths(job.input_path)}

LocalOutputArtifacts(job, store) ==
  UNION {{Artifact(OutputArtifactGroup(Last(o.path)), <<"output", "/">> \o LocalName(path, o.path), o)
            : o \in LocalFiles(store, path)} : path \in LocalPaths(job.output_dir)}

\* The run's copy of the configuration is left out: the row's is offered.
RunArtifact(name, o) ==
  IF IsPrefix(<<"output", "/">>, name)
  THEN [Artifact(OutputArtifactGroup(Last(name)), name, o) EXCEPT !.visualize = Last(name) = "graph.json"]
  ELSE Artifact("intermediary_files", name, o)

RunArtifacts(job, store) ==
  UNION {{RunArtifact(RemovePrefix(run.path, o.path), o) :
            o \in {q \in Objects(store, run) : RemovePrefix(run.path, q.path) \notin {<<>>, <<"config.yaml">>}}}
         : run \in RunLocations(job)}

\* The input in S3 is listed only once a run is recorded.
InputArtifacts(job, store) ==
  UNION {{Artifact("intermediary_files", <<"input", "/">> \o RemovePrefix(input.path, o.path), o)
            : o \in {q \in Objects(store, input) : q.path # input.path}}
         : input \in IF RunLocations(job) = {} THEN {} ELSE S3Locations(job.input_path)}

SameName(a, b) == a.group = b.group /\ a.name = b.name

\* Of the artifacts with one name in one group the first one listed stays; it gets
\* the link to the visualizer that a later one has.
Deduplicated(sources) ==
  UNION {{[a EXCEPT !.visualize = \E b \in UNION Range(sources) : SameName(a, b) /\ b.visualize]
            : a \in {b \in sources[i] : \A k \in 1..(i - 1) : ~\E c \in sources[k] : SameName(b, c)}}
         : i \in DOMAIN sources}

JobArtifactGroups(job, store) ==
  Deduplicated(<<RowArtifacts(job), LocalInputArtifacts(job, store), LocalOutputArtifacts(job, store),
                 RunArtifacts(job, store), InputArtifacts(job, store)>>)

-----------------------------------------------------------------------------
(* Downloads. *)

AllowedDownloadPrefixes(job) == RunLocations(job) \cup S3Locations(job.input_path)
AllowedLocalPaths(job) == LocalPaths(job.input_path) \cup LocalPaths(job.output_dir)

MayDownloadFile(job, o) ==
  \E a \in AllowedDownloadPrefixes(job) : o.bucket = a.bucket /\ IsPrefix(a.path, o.path)
MayDownloadLocalFile(job, o) ==
  \E path \in AllowedLocalPaths(job) : o.path = path \/ IsPrefix(path \o <<"/">>, o.path)

\* A link has a local path quoted once, and Flask decodes the request; the route
\* unquotes what it gets again, and resolves it.
Unquoted(path) == FlattenSeq([i \in DOMAIN path |-> Decoded[path[i]]])
Resolved(path) == IF path \in DOMAIN Links THEN Links[path] ELSE path
Requested(place) ==
  IF place.bucket = Local THEN Place(Local, Resolved(Unquoted(place.path))) ELSE place

\* A click on an artifact answers with what the row itself holds, or with a file
\* that is there and that is one of the job's; or else with an error.
Downloadable(job, place, store) ==
  \/ place = NoLocation
  \/ LET file == Requested(place)
     IN /\ file \in store
        /\ IF file.bucket = Local THEN MayDownloadLocalFile(job, file) ELSE MayDownloadFile(job, file)

\* Not on the disk under a name with an escape, nor through a link: what is asked
\* for is what the page has listed.
Plain(place) == place = NoLocation \/ Requested(place) = place

\* The objects that a download of a folder of the job puts into its archive.
FolderDownload(job, location, store) ==
  IF MayDownloadFile(job, location) THEN Objects(store, location) ELSE {}

\* The link to the ontology in the list of jobs: a local one that is there, or the
\* run's, which is not looked for.
LocalOntologies(job, store) ==
  {o \in store : o.bucket = Local /\ \E path \in LocalPaths(job.output_dir) :
     o.path \in {path, path \o <<"/", "ontology.ttl">>} /\ Last(o.path) = "ontology.ttl"}
OntologyDownload(job, store) ==
  IF LocalOntologies(job, store) # {} THEN LocalOntologies(job, store)
  ELSE {Place(run.bucket, run.path \o <<"output", "/", "ontology.ttl">>) : run \in RunLocations(job)}
=============================================================================
