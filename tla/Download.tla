------------------------------ MODULE Download ------------------------------
(***************************************************************************)
(* The two stages of an ingestion: download_content fetches the submitted  *)
(* links one after the other, stores each as a page under the domain's     *)
(* input/ and then writes the sidecar sources.json, which maps pages to    *)
(* links; clean_content rewrites every file it finds there.  Nothing keeps *)
(* two pods from ingesting one domain at the same time, nor cleans up      *)
(* behind an ingestion that fails.                                         *)
(***************************************************************************)
EXTENDS Naturals, SequencesExt

CONSTANTS
  Runs,          \* the ingestions of the domain
  Links,         \* the links there are, see Link
  Hosts,         \* the hosts under .gov.uk, without a "www." in front
  Www,           \* www.gov.uk
  PrintWord,     \* the word "print"
  Extensions,    \* the extensions of the output formats in use
  LinkLists,     \* the lists of links that are submitted
  SourcesJson,   \* the file sources.json
  None           \* no file, no link

\* A link's path is a sequence of segments, and a segment a sequence of the
\* words between its hyphens.
ASSUME LinksAssumption ==
  /\ \A l \in Links : l.https \in BOOLEAN
  /\ LinkLists \subseteq Seq(Links) \ {<<>>}
  /\ Www \in Hosts
  /\ ".md" \in Extensions

VARIABLES
  input,         \* the pages under <domain>/input
  sidecar,       \* sources.json, or None
  run            \* per ingestion, how far it is

vars == <<input, sidecar, run>>

-----------------------------------------------------------------------------
(* Slugs. *)

\* Without a trailing segment "print" and with hyphens for slashes, a path is its
\* words; a site's front page has the site's name.
slug_from_url(link) ==
  LET path == link.path
      segments == IF path # <<>> /\ Last(path) = <<PrintWord>> THEN Front(path) ELSE path
      words == FlattenSeq(segments)
  IN IF words = <<>> /\ link.host # Www THEN <<link.host>> ELSE words

\* download_content skips a link that is not https, not under .gov.uk or without
\* a slug.
Acceptable(link) ==
  link.https /\ link.host \in Hosts /\ slug_from_url(link) # <<>>

Slugs == {slug_from_url(l) : l \in {k \in Links : Acceptable(k)}}
File == Slugs \X Extensions

-----------------------------------------------------------------------------
Page == [link: Links, raw: BOOLEAN, by: Runs]
Sources == [File -> Links \cup {None}]
NoSources == [f \in File |-> None]
Sidecar == [sources: Sources, by: Runs]

Stored == File \cup {SourcesJson}
Held == [file: File, content: Page] \cup [file: {SourcesJson}, content: Sidecar]
Queue == Seq(Links)

\* todo: the links still to fetch; sources: the sidecar so far; found: the
\* files still to clean, sources.json being one of them; held: the one being
\* rewritten, with what was read of it.
Run == [pc: {"idle", "downloading", "listing", "cleaning", "rewriting", "completed", "failed"},
        todo: Queue,
        extension: Extensions,
        sources: Sources,
        found: SUBSET Stored,
        held: Held \cup {None}]

\* sources.json is no page, and nothing is neither.
ASSUME NamesAssumption ==
  /\ SourcesJson \notin File
  /\ None \notin Links \cup Stored \cup Page \cup Sidecar \cup Held

DownloadTypeOK ==
  /\ input \in [File -> Page \cup {None}]
  /\ sidecar \in Sidecar \cup {None}
  /\ run \in [Runs -> Run]

DownloadInit ==
  /\ input = [f \in File |-> None]
  /\ sidecar = None
  /\ run = [r \in Runs |->
       [pc |-> "idle", todo |-> <<>>, extension |-> CHOOSE e \in Extensions : TRUE,
        sources |-> NoSources, found |-> {}, held |-> None]]

-----------------------------------------------------------------------------
(* download_content *)

Start(r, links, e) ==
  /\ run[r].pc = "idle"
  /\ run' = [run EXCEPT ![r].pc = "downloading", ![r].todo = links, ![r].extension = e]
  /\ UNCHANGED <<input, sidecar>>

Downloading(r) == run[r].pc = "downloading" /\ run[r].todo # <<>>

\* The key names a Markdown file, whatever the output format.
SourceKey(slug) == <<slug, ".md">>

RecordSlug(sources, slug, link) == [sources EXCEPT ![SourceKey(slug)] = slug]  \* bug: not the link
Record(sources, slug, link) == [sources EXCEPT ![SourceKey(slug)] = link]

SkipLinkRecorded(r) ==                                               \* bug: already recorded
  /\ Downloading(r)
  /\ run' = [run EXCEPT ![r].todo = Tail(@),
       ![r].sources = IF Acceptable(Head(run[r].todo))
                      THEN Record(@, slug_from_url(Head(run[r].todo)), Head(run[r].todo)) ELSE @]
  /\ UNCHANGED <<input, sidecar>>

\* A link that is refused, answers with an error, or has no content is skipped.
SkipLink(r) ==
  /\ Downloading(r)
  /\ run' = [run EXCEPT ![r].todo = Tail(@)]
  /\ UNCHANGED <<input, sidecar>>

\* Any other one is stored, over what an earlier link or ingestion has left.
StorePage(r) ==
  LET link == Head(run[r].todo)
      slug == slug_from_url(link)
  IN /\ Downloading(r) /\ Acceptable(link)
     /\ input' = [input EXCEPT ![<<slug, run[r].extension>>] =
                     [link |-> link, raw |-> TRUE, by |-> r]]
     /\ run' = [run EXCEPT ![r].todo = Tail(@), ![r].sources = Record(@, slug, link)]
     /\ UNCHANGED sidecar

\* After the last link the sidecar is written, if there is anything in it.
WriteSidecar(r) ==
  /\ run[r].pc = "downloading" /\ run[r].todo = <<>>
  /\ sidecar' = IF run[r].sources = NoSources THEN sidecar
                ELSE [sources |-> run[r].sources, by |-> r]
  /\ run' = [run EXCEPT ![r].pc = "listing"]
  /\ UNCHANGED input

-----------------------------------------------------------------------------
(* clean_content *)

FoundCached(r) ==                                                    \* bug: listed at the start
  {f \in File : input[f] # None /\ input[f].by # r}
Found(r) ==
  {f \in File : input[f] # None} \cup (IF sidecar = None THEN {} ELSE {SourcesJson})

\* The next file to clean; the ingestion is completed when there is none left.
CleanNext(r, found) ==
  run' = [run EXCEPT ![r].found = found, ![r].held = None,
                     ![r].pc = IF found = {} THEN "completed" ELSE "cleaning"]

ListFiles(r) ==
  /\ run[r].pc = "listing"
  /\ CleanNext(r, Found(r))
  /\ UNCHANGED <<input, sidecar>>

\* A file is read ...
CleanRead(r, f) ==
  /\ run[r].pc = "cleaning" /\ f \in run[r].found
  /\ run' = [run EXCEPT ![r].pc = "rewriting",
       ![r].held = [file |-> f, content |-> IF f = SourcesJson THEN sidecar ELSE input[f]]]
  /\ UNCHANGED <<input, sidecar>>

\* ... and rewritten: a page loses its blank and "Print this page" lines, and
\* sources.json nothing but its indentation.
CleanWrite(r) ==
  LET held == run[r].held IN
  /\ run[r].pc = "rewriting"
  /\ IF held.file = SourcesJson
     THEN sidecar' = held.content /\ UNCHANGED input
     ELSE /\ input' = [input EXCEPT ![held.file] = [held.content EXCEPT !.raw = FALSE]]
          /\ UNCHANGED sidecar
  /\ CleanNext(r, run[r].found \ {held.file})

-----------------------------------------------------------------------------
\* A request that gets no answer, or an error of S3, ends the ingestion.
Raise(r) ==
  /\ run[r].pc \in {"downloading", "listing", "cleaning", "rewriting"}
  /\ run' = [run EXCEPT ![r].pc = "failed"]
  /\ UNCHANGED <<input, sidecar>>

DownloadNext ==
  \E r \in Runs :
    \/ \E links \in LinkLists, e \in Extensions : Start(r, links, e)
    \/ SkipLink(r) \/ StorePage(r) \/ WriteSidecar(r)
    \/ ListFiles(r) \/ CleanWrite(r) \/ Raise(r)
    \/ \E f \in Stored : CleanRead(r, f)

DownloadSpec == DownloadInit /\ [][DownloadNext]_vars

-----------------------------------------------------------------------------
(* Properties. *)

\* clean_content misses no page of its own ingestion, whoever rewrites what in
\* between: a page that has not been cleaned was stored by an ingestion that is
\* still under way or has failed.
RawOnlyUnfinished ==
  \A f \in File : input[f] # None /\ input[f].raw => run[input[f].by].pc # "completed"

\* The runbook's "Map of S3 file paths to original source URLs": as long as every
\* format is Markdown, sources.json names only pages that are there, and every page
\* that the ingestion which wrote it has stored and no other has replaced.  (Which of
\* two links with one slug it names is not settled while ingestions overlap.)
SidecarNamesPages ==
  sidecar # None => \A f \in File :
    /\ sidecar.sources[f] # None => input[f] # None
    /\ input[f] # None /\ input[f].by = sidecar.by => sidecar.sources[f] # None
=============================================================================
