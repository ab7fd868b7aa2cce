--------------------------- MODULE DownloadProofs ---------------------------
(***************************************************************************)
(* Theorems about Download: its types, and that cleaning misses no page of *)
(* its own ingestion, for any links and any number of ingestions at once.  *)
(***************************************************************************)
EXTENDS Download, TLAPS

\* What a cleaning ingestion is to read is there, and it has something to write.
Holding(r) ==
  /\ \A f \in File : f \in run[r].found => input[f] # None
  /\ SourcesJson \in run[r].found => sidecar # None
  /\ run[r].pc = "rewriting" => run[r].held \in Held

\* A raw page of an ingestion that cleans is still on its list.
Listed(f) ==
  input[f] # None /\ input[f].raw =>
    /\ run[input[f].by].pc # "completed"
    /\ run[input[f].by].pc \in {"cleaning", "rewriting"} => f \in run[input[f].by].found

DownloadInv ==
  /\ DownloadTypeOK
  /\ \A r \in Runs : Holding(r)
  /\ \A f \in File : Listed(f)

-----------------------------------------------------------------------------
\* The initial state: nothing is stored.
LEMMA InitInv == DownloadInit => DownloadInv
<1> SUFFICES ASSUME DownloadInit PROVE DownloadInv
  OBVIOUS
<1>1. (CHOOSE e \in Extensions : TRUE) \in Extensions
  BY LinksAssumption
<1>2. NoSources \in Sources /\ <<>> \in Queue
  BY DEF NoSources, Sources, Queue
<1>3. DownloadTypeOK
  BY <1>1, <1>2 DEF DownloadInit, DownloadTypeOK, Run
<1> QED
  BY <1>3 DEF DownloadInit, DownloadInv, Holding, Listed

\* The next file to clean is chosen from a list of files, or there is none.
LEMMA CleanNextType ==
  ASSUME DownloadTypeOK, NEW r \in Runs, NEW found \in SUBSET Stored,
         CleanNext(r, found)
  PROVE  run' \in [Runs -> Run]
<1> DEFINE next == [run[r] EXCEPT !.found = found, !.held = None,
                                  !.pc = IF found = {} THEN "completed" ELSE "cleaning"]
<1>1. run[r] \in Run
  BY DEF DownloadTypeOK
<1>2. next \in Run
  BY <1>1 DEF Run
<1>3. run' = [run EXCEPT ![r] = next]
  BY DEF CleanNext, DownloadTypeOK
<1> QED
  BY <1>2, <1>3 DEF DownloadTypeOK

\* What is read of a file that is to be cleaned is of the file's kind.
LEMMA HeldType ==
  ASSUME DownloadInv, NEW r \in Runs, NEW f \in Stored, CleanRead(r, f)
  PROVE  [file |-> f, content |-> IF f = SourcesJson THEN sidecar ELSE input[f]] \in Held
<1>1. f \in run[r].found /\ Holding(r)
  BY DEF CleanRead, DownloadInv
<1>2. CASE f = SourcesJson
  BY <1>1, <1>2, NamesAssumption DEF Holding, Held, DownloadInv, DownloadTypeOK
<1>3. CASE f # SourcesJson
  BY <1>1, <1>3, NamesAssumption DEF Holding, Held, Stored, DownloadInv, DownloadTypeOK
<1> QED
  BY <1>2, <1>3

\* What is written back is a page or the sidecar.
LEMMA HeldKind ==
  ASSUME NEW held \in Held
  PROVE  \/ held.file = SourcesJson /\ held.content \in Sidecar
         \/ /\ held.file \in File /\ held.file # SourcesJson
            /\ held.content \in Page
            /\ [held.content EXCEPT !.raw = FALSE] \in [link: Links, raw: {FALSE}, by: Runs]
BY NamesAssumption DEF Held, Page

\* Every step keeps the types.
LEMMA TypesStep ==
  ASSUME DownloadInv, NEW r \in Runs,
         \/ \E links \in LinkLists, e \in Extensions : Start(r, links, e)
         \/ SkipLink(r) \/ StorePage(r) \/ WriteSidecar(r)
         \/ ListFiles(r) \/ CleanWrite(r) \/ Raise(r)
         \/ \E f \in Stored : CleanRead(r, f)
  PROVE  DownloadTypeOK'
<1> USE DEF DownloadInv, DownloadTypeOK
<1>1. ASSUME NEW links \in LinkLists, NEW e \in Extensions, Start(r, links, e) PROVE DownloadTypeOK'
  <2>1. links \in Queue
    BY LinksAssumption DEF Queue
  <2> DEFINE next == [run[r] EXCEPT !.pc = "downloading", !.todo = links, !.extension = e]
  <2>2. next \in Run
    BY <2>1 DEF Run
  <2>3. run' = [run EXCEPT ![r] = next]
    BY <1>1 DEF Start
  <2>4. run' \in [Runs -> Run]
    BY <2>2, <2>3
  <2> QED
    BY <1>1, <2>4 DEF Start
<1>2. CASE SkipLink(r)
  <2>1. Tail(run[r].todo) \in Queue
    BY <1>2 DEF SkipLink, Downloading, Run, Queue
  <2> QED
    BY <1>2, <2>1 DEF SkipLink, Run
<1>3. CASE StorePage(r)
  <2> DEFINE link == Head(run[r].todo)
             page == [link |-> link, raw |-> TRUE, by |-> r]
             sources == Record(run[r].sources, slug_from_url(link), link)
  <2>1. link \in Links /\ Tail(run[r].todo) \in Queue
    BY <1>3 DEF StorePage, Downloading, Run, Queue
  <2>2. page \in Page
    BY <2>1 DEF Page
  <2>3. sources \in Sources
    BY <2>1 DEF Record, Sources, Run
  <2>4. input' \in [File -> Page \cup {None}]
    BY <1>3, <2>2 DEF StorePage
  <2>5. run' = [run EXCEPT ![r].todo = Tail(@), ![r].sources = sources]
    BY <1>3 DEF StorePage
  <2>6. run' \in [Runs -> Run]
    BY <2>1, <2>3, <2>5 DEF Run
  <2> QED
    BY <1>3, <2>4, <2>6 DEF StorePage
<1>4. CASE WriteSidecar(r)
  <2>1. [sources |-> run[r].sources, by |-> r] \in Sidecar
    BY DEF Sidecar, Run
  <2>2. run' \in [Runs -> Run]
    BY <1>4 DEF WriteSidecar, Run
  <2> QED
    BY <1>4, <2>1, <2>2 DEF WriteSidecar
<1>5. CASE ListFiles(r)
  <2>1. Found(r) \in SUBSET Stored
    BY DEF Found, Stored
  <2> QED
    BY <1>5, <2>1, CleanNextType DEF ListFiles
<1>6. ASSUME NEW f \in Stored, CleanRead(r, f) PROVE DownloadTypeOK'
  <2> DEFINE held == [file |-> f, content |-> IF f = SourcesJson THEN sidecar ELSE input[f]]
  <2>1. held \in Held
    BY <1>6, HeldType
  <2>2. run' = [run EXCEPT ![r].pc = "rewriting", ![r].held = held]
    BY <1>6 DEF CleanRead
  <2>3. run' \in [Runs -> Run]
    BY <2>1, <2>2, ZenonT(60) DEF Run
  <2> QED
    BY <1>6, <2>3 DEF CleanRead
<1>7. CASE CleanWrite(r)
  <2>1. run[r].held \in Held
    BY <1>7 DEF CleanWrite, Holding
  <2>2. run' \in [Runs -> Run]
    <3>1. run[r].found \ {run[r].held.file} \in SUBSET Stored
      BY DEF Run
    <3> QED
      BY <1>7, <3>1, CleanNextType DEF CleanWrite
  <2>3. [link: Links, raw: {FALSE}, by: Runs] \subseteq Page
    BY DEF Page
  <2> QED
    BY <1>7, <2>1, <2>2, <2>3, HeldKind DEF CleanWrite
<1>8. CASE Raise(r)
  BY <1>8 DEF Raise, Run
<1> QED
  BY <1>1, <1>2, <1>3, <1>4, <1>5, <1>6, <1>7, <1>8

-----------------------------------------------------------------------------
\* Files do not go away, so lists of them stay true.
LEMMA FilesStay ==
  ASSUME DownloadInv, DownloadNext
  PROVE  /\ \A f \in File : input[f] # None => input'[f] # None
         /\ sidecar # None => sidecar' # None
<1> USE DEF DownloadInv, DownloadTypeOK
<1>1. PICK r \in Runs :
         \/ UNCHANGED <<input, sidecar>>
         \/ StorePage(r) \/ WriteSidecar(r) \/ CleanWrite(r)
  BY DEF DownloadNext, Start, SkipLink, ListFiles, CleanRead, Raise
<1>2. CASE UNCHANGED <<input, sidecar>>
  BY <1>2
<1>3. CASE StorePage(r)
  <2>1. [link |-> Head(run[r].todo), raw |-> TRUE, by |-> r] \in Page
    BY <1>3 DEF StorePage, Downloading, Run, Queue, Page
  <2> QED
    BY <1>3, <2>1, NamesAssumption DEF StorePage
<1>4. CASE WriteSidecar(r)
  <2>1. [sources |-> run[r].sources, by |-> r] \in Sidecar
    BY DEF Sidecar, Run
  <2> QED
    BY <1>4, <2>1, NamesAssumption DEF WriteSidecar
<1>5. CASE CleanWrite(r)
  <2>1. run[r].held \in Held
    BY <1>5 DEF CleanWrite, Holding
  <2>2. [link: Links, raw: {FALSE}, by: Runs] \subseteq Page
    BY DEF Page
  <2> QED
    BY <1>5, <2>1, <2>2, HeldKind, NamesAssumption, ZenonT(60) DEF CleanWrite
<1> QED
  BY <1>1, <1>2, <1>3, <1>4, <1>5

\* So what an ingestion holds stays of the kind of its file.
LEMMA HoldingStep ==
  ASSUME DownloadInv, DownloadNext, NEW q \in Runs
  PROVE  Holding(q)'
<1> USE DEF DownloadInv, DownloadTypeOK
<1>1. PICK r \in Runs :
         \/ \E links \in LinkLists, e \in Extensions : Start(r, links, e)
         \/ SkipLink(r) \/ StorePage(r) \/ WriteSidecar(r)
         \/ ListFiles(r) \/ CleanWrite(r) \/ Raise(r)
         \/ \E f \in Stored : CleanRead(r, f)
  BY DEF DownloadNext
<1>2. Holding(q)
  OBVIOUS
<1>3. ASSUME UNCHANGED run[q] PROVE Holding(q)'
  BY <1>2, <1>3, FilesStay DEF Holding
<1>4. CASE q # r
  <2>1. UNCHANGED run[q]
    BY <1>1, <1>4 DEF Start, SkipLink, StorePage, WriteSidecar, ListFiles, CleanWrite, Raise,
       CleanRead, CleanNext
  <2> QED
    BY <1>3, <2>1
<1>5. CASE q = r
  <2>1. ASSUME run'[r].pc # "rewriting", run'[r].found \subseteq run[r].found
        PROVE  Holding(q)'
    BY <1>2, <1>5, <2>1, FilesStay DEF Holding
  <2>2. CASE \/ \E links \in LinkLists, e \in Extensions : Start(r, links, e)
             \/ SkipLink(r) \/ StorePage(r) \/ WriteSidecar(r) \/ Raise(r)
    <3>1. ASSUME NEW links \in LinkLists, NEW e \in Extensions, Start(r, links, e) PROVE Holding(q)'
      BY <2>1, <3>1 DEF Start, Run
    <3>2. CASE SkipLink(r) \/ StorePage(r)
      BY <2>1, <3>2 DEF SkipLink, StorePage, Run, Downloading
    <3>3. CASE WriteSidecar(r) \/ Raise(r)
      BY <2>1, <3>3 DEF WriteSidecar, Raise, Run
    <3> QED
      BY <2>2, <3>1, <3>2, <3>3
  <2>3. CASE CleanWrite(r)
    BY <2>1, <2>3 DEF CleanWrite, CleanNext, Run
  <2>4. CASE ListFiles(r)
    <3>1. run'[r].pc # "rewriting" /\ run'[r].found = Found(r)
      BY <2>4 DEF ListFiles, CleanNext, Run
    <3>2. \A f \in File : f \in Found(r) => input[f] # None
      BY NamesAssumption DEF Found
    <3>3. SourcesJson \in Found(r) => sidecar # None
      BY NamesAssumption DEF Found
    <3> QED
      BY <1>5, <3>1, <3>2, <3>3, FilesStay DEF Holding
  <2>5. ASSUME NEW f \in Stored, CleanRead(r, f) PROVE Holding(q)'
    <3>1. /\ run'[r].found = run[r].found
          /\ run'[r].held = [file |-> f, content |-> IF f = SourcesJson THEN sidecar ELSE input[f]]
      BY <2>5 DEF CleanRead, Run
    <3>2. run'[r].held \in Held
      BY <2>5, <3>1, HeldType
    <3> QED
      BY <1>2, <1>5, <3>1, <3>2, FilesStay DEF Holding
  <2> QED
    BY <1>1, <2>2, <2>3, <2>4, <2>5
<1> QED
  BY <1>4, <1>5

-----------------------------------------------------------------------------
\* A raw page stays on its ingestion's list until it is cleaned.
LEMMA ListedStep ==
  ASSUME DownloadInv, DownloadNext, NEW f \in File
  PROVE  Listed(f)'
<1> USE DEF DownloadInv, DownloadTypeOK
<1>1. PICK r \in Runs :
         \/ \E links \in LinkLists, e \in Extensions : Start(r, links, e)
         \/ SkipLink(r) \/ StorePage(r) \/ WriteSidecar(r)
         \/ ListFiles(r) \/ CleanWrite(r) \/ Raise(r)
         \/ \E g \in Stored : CleanRead(r, g)
  BY DEF DownloadNext
<1>2. SUFFICES ASSUME input'[f] # None, input'[f].raw
               PROVE  /\ run'[input'[f].by].pc # "completed"
                      /\ run'[input'[f].by].pc \in {"cleaning", "rewriting"} =>
                           f \in run'[input'[f].by].found
  BY DEF Listed
<1> DEFINE s == input'[f].by
<1>3. ASSUME UNCHANGED input[f],
             run'[r].pc \in {"downloading", "listing", "failed"} \/
             (run'[r].pc \in {"cleaning", "rewriting"} /\ run[r].pc \in {"cleaning", "rewriting"}
              /\ run'[r].found = run[r].found),
             \A q \in Runs \ {r} : run'[q] = run[q]
      PROVE  /\ run'[s].pc # "completed"
             /\ run'[s].pc \in {"cleaning", "rewriting"} => f \in run'[s].found
  <2>1. Listed(f) /\ s \in Runs
    BY <1>2, <1>3 DEF Page
  <2> QED
    BY <1>2, <1>3, <2>1 DEF Listed
<1>4. CASE \/ \E links \in LinkLists, e \in Extensions : Start(r, links, e)
           \/ SkipLink(r) \/ WriteSidecar(r) \/ Raise(r)
           \/ \E g \in Stored : CleanRead(r, g)
  <2>1. ASSUME NEW links \in LinkLists, NEW e \in Extensions, Start(r, links, e) PROVE Listed(f)'
    BY <1>3, <2>1 DEF Start, Run, Listed
  <2>2. CASE SkipLink(r)
    BY <1>3, <2>2 DEF SkipLink, Downloading, Run, Listed
  <2>3. CASE WriteSidecar(r) \/ Raise(r)
    BY <1>3, <2>3 DEF WriteSidecar, Raise, Run, Listed
  <2>4. ASSUME NEW g \in Stored, CleanRead(r, g) PROVE Listed(f)'
    BY <1>3, <2>4 DEF CleanRead, Run, Listed
  <2> QED
    BY <1>2, <1>4, <2>1, <2>2, <2>3, <2>4 DEF Listed
<1>5. CASE StorePage(r)
  <2>1. run'[r].pc = "downloading" /\ \A q \in Runs \ {r} : run'[q] = run[q]
    BY <1>5 DEF StorePage, Downloading, Run
  <2>2. CASE UNCHANGED input[f]
    BY <1>3, <2>1, <2>2
  <2>3. CASE input'[f] # input[f]
    BY <1>5, <2>1, <2>3 DEF StorePage
  <2> QED
    BY <2>2, <2>3
<1>6. CASE ListFiles(r)
  <2>1. /\ run'[r].found = Found(r)
        /\ run'[r].pc = IF Found(r) = {} THEN "completed" ELSE "cleaning"
        /\ \A q \in Runs \ {r} : run'[q] = run[q]
        /\ UNCHANGED input
    BY <1>6 DEF ListFiles, CleanNext, Run
  <2>2. f \in Found(r)
    BY <1>2, <2>1 DEF Found
  <2>3. Listed(f) /\ s \in Runs
    BY <1>2, <2>1 DEF Page
  <2> QED
    BY <1>2, <2>1, <2>2, <2>3 DEF Listed
<1>7. CASE CleanWrite(r)
  <2> DEFINE held == run[r].held
  <2>1. /\ run'[r].found = run[r].found \ {held.file}
        /\ run'[r].pc \in {"completed", "cleaning"}
        /\ run'[r].pc = "completed" => run'[r].found = {}
        /\ \A q \in Runs \ {r} : run'[q] = run[q]
        /\ run[r].pc = "rewriting"
    BY <1>7 DEF CleanWrite, CleanNext, Run
  <2>2. f # held.file
    <3>1. SUFFICES ASSUME f = held.file PROVE FALSE
      OBVIOUS
    <3>2. held \in Held /\ f # SourcesJson
      BY <2>1, NamesAssumption DEF Holding
    <3>3. [held.content EXCEPT !.raw = FALSE] \in [link: Links, raw: {FALSE}, by: Runs]
      BY <3>1, <3>2, HeldKind
    <3>4. input'[f] = [held.content EXCEPT !.raw = FALSE]
      BY <1>7, <3>1, <3>2 DEF CleanWrite
    <3> QED
      BY <1>2, <3>3, <3>4
  <2>3. input'[f] = input[f]
    BY <1>7, <2>2 DEF CleanWrite
  <2>4. Listed(f) /\ s \in Runs
    BY <1>2, <2>3 DEF Page
  <2> QED
    BY <1>2, <2>1, <2>2, <2>3, <2>4 DEF Listed
<1> QED
  BY <1>1, <1>4, <1>5, <1>6, <1>7

-----------------------------------------------------------------------------
\* The types, what cleaners hold and what they still have to clean are together
\* inductive.
THEOREM DownloadInvariance == DownloadSpec => []DownloadInv
<1>1. DownloadInv /\ [DownloadNext]_vars => DownloadInv'
  <2> SUFFICES ASSUME DownloadInv, [DownloadNext]_vars PROVE DownloadInv'
    OBVIOUS
  <2>1. CASE DownloadNext
    <3>1. DownloadTypeOK'
      BY <2>1, TypesStep DEF DownloadNext
    <3>2. (\A r \in Runs : Holding(r)') /\ \A f \in File : Listed(f)'
      BY <2>1, HoldingStep, ListedStep
    <3> QED
      BY <3>1, <3>2 DEF DownloadInv
  <2>2. CASE UNCHANGED vars
    BY <2>2 DEF vars, DownloadInv, DownloadTypeOK, Holding, Listed
  <2> QED
    BY <2>1, <2>2
<1> QED
  BY <1>1, InitInv, PTL DEF DownloadSpec

\* Every file, sidecar and ingestion keeps its shape, for any links.
THEOREM DownloadTypes == DownloadSpec => []DownloadTypeOK
<1>1. DownloadInv => DownloadTypeOK
  BY DEF DownloadInv
<1> QED
  BY <1>1, DownloadInvariance, PTL

\* A completed ingestion leaves none of its pages uncleaned, whatever others
\* store, clean and rewrite in between.
THEOREM CleaningMissesNothing == DownloadSpec => []RawOnlyUnfinished
<1>1. DownloadInv => RawOnlyUnfinished
  BY DEF DownloadInv, Listed, RawOnlyUnfinished
<1> QED
  BY <1>1, DownloadInvariance, PTL

-----------------------------------------------------------------------------
(* The sidecar, as long as every format is Markdown. *)

\* What ingestions have recorded is there, and every page was recorded by the
\* ingestion that stored it.
Recorded ==
  /\ \A r \in Runs, f \in File : run[r].sources[f] # None => input[f] # None
  /\ \A f \in File : input[f] # None => run[input[f].by].sources[f] # None

\* A sidecar is the record of an ingestion that fetches no more links.
RecordOf(content) ==
  /\ content.sources = run[content.by].sources
  /\ run[content.by].pc \notin {"idle", "downloading"}

\* So are the sidecar in place and the one that a cleaner is about to write back;
\* a page that it is about to write back is one that was recorded.
HeldRecorded(r) ==
  run[r].pc = "rewriting" =>
    IF run[r].held.file = SourcesJson THEN RecordOf(run[r].held.content)
    ELSE run[run[r].held.content.by].sources[run[r].held.file] # None

SidecarInv ==
  /\ DownloadInv /\ Recorded
  /\ sidecar # None => RecordOf(sidecar)
  /\ \A r \in Runs : HeldRecorded(r)

LEMMA SidecarInvInit == DownloadInit => SidecarInv
BY InitInv DEF DownloadInit, SidecarInv, Recorded, HeldRecorded, NoSources

\* The record of an ingestion changes only with the page it stores, and an
\* ingestion that fetches no more links goes back to none.
LEMMA RecordStays ==
  ASSUME DownloadInv, DownloadNext, NEW q \in Runs
  PROVE  /\ StorePage(q) \/ run'[q].sources = run[q].sources
         /\ run[q].pc \notin {"idle", "downloading"} =>
              ~StorePage(q) /\ run'[q].pc \notin {"idle", "downloading"}
<1> USE DEF DownloadInv, DownloadTypeOK
<1>1. PICK r \in Runs :
         \/ \E links \in LinkLists, e \in Extensions : Start(r, links, e)
         \/ SkipLink(r) \/ StorePage(r) \/ WriteSidecar(r)
         \/ ListFiles(r) \/ CleanWrite(r) \/ Raise(r)
         \/ \E f \in Stored : CleanRead(r, f)
  BY DEF DownloadNext
<1>2. run[q].pc \notin {"idle", "downloading"} => ~StorePage(q)
  BY DEF StorePage, Downloading
<1>3. CASE q # r
  <2>1. run'[q] = run[q]
    BY <1>1, <1>3 DEF Start, SkipLink, StorePage, WriteSidecar, ListFiles, CleanWrite, Raise,
       CleanRead, CleanNext
  <2> QED
    BY <1>2, <2>1
<1>4. CASE q = r
  <2>1. ASSUME NEW links \in LinkLists, NEW e \in Extensions, Start(r, links, e)
        PROVE  run'[r].sources = run[r].sources /\ run[r].pc = "idle"
    BY <2>1 DEF Start, Run
  <2>2. CASE SkipLink(r)
    BY <1>4, <2>2 DEF SkipLink, Downloading, Run
  <2>3. CASE WriteSidecar(r) \/ Raise(r)
    BY <1>2, <1>4, <2>3 DEF WriteSidecar, Raise, Run
  <2>4. CASE ListFiles(r) \/ CleanWrite(r)
    BY <1>2, <1>4, <2>4 DEF ListFiles, CleanWrite, CleanNext, Run
  <2>5. ASSUME NEW f \in Stored, CleanRead(r, f)
        PROVE  run'[r].sources = run[r].sources /\ run'[r].pc = "rewriting"
    BY <2>5 DEF CleanRead, Run
  <2> QED
    BY <1>1, <1>2, <1>4, <2>1, <2>2, <2>3, <2>4, <2>5
<1> QED
  BY <1>3, <1>4

\* What an ingestion stores it records.  As every format is Markdown, it records the
\* page under the name it stores it with.
StoredAs(r, f, page, link) ==
  /\ page.by = r
  /\ input' = [input EXCEPT ![f] = page]
  /\ run'[r].sources = [run[r].sources EXCEPT ![f] = link]
  /\ \A q \in Runs \ {r} : run'[q] = run[q]

LEMMA StoredRecorded ==
  ASSUME DownloadInv, Extensions = {".md"}, NEW r \in Runs, StorePage(r)
  PROVE  \E f \in File, page \in Page, link \in Links : StoredAs(r, f, page, link)
<1> DEFINE link == Head(run[r].todo)
           slug == slug_from_url(link)
           page == [link |-> link, raw |-> TRUE, by |-> r]
           f == SourceKey(slug)
<1>1. run[r] \in Run /\ run \in [Runs -> Run]
  BY DEF DownloadInv, DownloadTypeOK
<1>2. link \in Links
  BY <1>1 DEF StorePage, Downloading, Run, Queue
<1>3. slug \in Slugs
  BY <1>2 DEF StorePage, Slugs
<1>4. run[r].extension = ".md" /\ f = <<slug, run[r].extension>> /\ f \in File
  BY <1>1, <1>3 DEF Run, SourceKey, File
<1>5. page \in Page /\ page.by = r
  BY <1>2 DEF Page
<1>6. run' = [run EXCEPT ![r].todo = Tail(@), ![r].sources = Record(@, slug, link)]
  BY DEF StorePage
<1>7. /\ run'[r].sources = [run[r].sources EXCEPT ![f] = link] /\ run'[r].pc = run[r].pc
      /\ \A q \in Runs \ {r} : run'[q] = run[q]
  BY <1>1, <1>6 DEF Record, Run
<1>8. input' = [input EXCEPT ![f] = page] /\ run[r].pc = "downloading"
  BY <1>4 DEF StorePage, Downloading
<1>9. StoredAs(r, f, page, link)
  BY <1>5, <1>7, <1>8 DEF StoredAs
<1> QED
  BY <1>2, <1>4, <1>5, <1>9

LEMMA RecordedStep ==
  ASSUME SidecarInv, DownloadNext, Extensions = {".md"}
  PROVE  Recorded'
<1> USE DEF SidecarInv, DownloadInv, DownloadTypeOK
<1>1. CASE \E r \in Runs : StorePage(r)
  <2>1. PICK r \in Runs : StorePage(r)
    BY <1>1
  <2>2. PICK f \in File, page \in Page, link \in Links : StoredAs(r, f, page, link)
    BY <2>1, StoredRecorded
  <2> USE DEF StoredAs
  <2>3. page # None /\ link # None /\ input'[f] = page
        /\ \A g \in File \ {f} : input'[g] = input[g]
    BY <2>2, NamesAssumption
  <2>4. run[r].sources \in Sources
    BY DEF Run
  <2>5. run'[r].sources[f] = link /\ \A g \in File \ {f} : run'[r].sources[g] = run[r].sources[g]
    BY <2>2, <2>4 DEF Sources
  <2>6. ASSUME NEW q \in Runs, NEW g \in File, run'[q].sources[g] # None PROVE input'[g] # None
    <3>1. CASE g = f
      BY <2>3, <3>1
    <3>2. CASE g # f
      <4>1. run'[q].sources[g] = run[q].sources[g]
        BY <2>2, <2>5, <3>2
      <4> QED
        BY <2>3, <2>6, <3>2, <4>1 DEF Recorded
    <3> QED
      BY <3>1, <3>2
  <2>7. ASSUME NEW g \in File, input'[g] # None PROVE run'[input'[g].by].sources[g] # None
    <3>1. CASE g = f
      BY <2>2, <2>3, <2>5, <3>1
    <3>2. CASE g # f
      <4>1. input'[g] = input[g] /\ input[g].by \in Runs /\ run[input[g].by].sources[g] # None
        BY <2>3, <2>7, <3>2 DEF Recorded, Page
      <4> QED
        BY <2>2, <2>5, <3>2, <4>1
    <3> QED
      BY <3>1, <3>2
  <2> QED
    BY <2>6, <2>7 DEF Recorded
<1>2. CASE ~\E r \in Runs : StorePage(r)
  <2>1. \A q \in Runs : run'[q].sources = run[q].sources
    BY <1>2, RecordStays
  <2>2. \A r \in Runs, f \in File : run'[r].sources[f] # None => input'[f] # None
    BY <2>1, FilesStay DEF Recorded
  <2>3. CASE UNCHANGED input
    BY <2>1, <2>2, <2>3 DEF Recorded, Page
  <2>4. CASE \E r \in Runs : CleanWrite(r)
    <3>1. PICK r \in Runs : CleanWrite(r)
      BY <2>4
    <3> DEFINE held == run[r].held
    <3>2. held \in Held /\ run[r].pc = "rewriting"
      BY <3>1 DEF CleanWrite, Holding
    <3>3. CASE held.file = SourcesJson
      BY <2>3, <3>1, <3>3 DEF CleanWrite
    <3>4. CASE held.file # SourcesJson
      <4> DEFINE page == [held.content EXCEPT !.raw = FALSE]
      <4>1. /\ held.file \in File /\ held.content \in Page /\ page.by = held.content.by
            /\ input' = [input EXCEPT ![held.file] = page]
        BY <3>1, <3>2, <3>4, HeldKind DEF CleanWrite, Page
      <4>2. run[held.content.by].sources[held.file] # None
        BY <3>2, <3>4 DEF HeldRecorded
      <4>3. held.content.by \in Runs
        BY <4>1 DEF Page
      <4> HIDE DEF page
      <4>4. ASSUME NEW g \in File, input'[g] # None PROVE run'[input'[g].by].sources[g] # None
        <5>1. CASE g = held.file
          BY <2>1, <4>1, <4>2, <4>3, <5>1
        <5>2. CASE g # held.file
          BY <2>1, <4>1, <4>4, <5>2 DEF Recorded, Page
        <5> QED
          BY <5>1, <5>2
      <4> QED
        BY <2>2, <4>4 DEF Recorded
    <3> QED
      BY <3>3, <3>4
  <2> QED
    BY <1>2, <2>3, <2>4 DEF DownloadNext, Start, SkipLink, WriteSidecar, ListFiles, CleanRead, Raise
<1> QED
  BY <1>1, <1>2

\* A finished record stays the record of its ingestion.
LEMMA RecordOfStays ==
  ASSUME DownloadInv, DownloadNext, NEW content \in Sidecar, RecordOf(content)
  PROVE  RecordOf(content)'
<1>1. content.by \in Runs
  BY DEF Sidecar
<1> QED
  BY <1>1, RecordStays DEF RecordOf

LEMMA HeldRecordedStep ==
  ASSUME SidecarInv, DownloadNext, Extensions = {".md"}, NEW q \in Runs
  PROVE  HeldRecorded(q)'
<1> USE DEF SidecarInv, DownloadInv, DownloadTypeOK
<1> SUFFICES ASSUME run'[q].pc = "rewriting" PROVE HeldRecorded(q)'
  BY DEF HeldRecorded
<1>1. CASE \E f \in Stored : CleanRead(q, f)
  <2>1. PICK f \in Stored : CleanRead(q, f)
    BY <1>1
  <2> DEFINE held == [file |-> f, content |-> IF f = SourcesJson THEN sidecar ELSE input[f]]
  <2>2. run'[q].held = held /\ held \in Held /\ UNCHANGED <<input, sidecar>>
    BY <2>1, HeldType DEF CleanRead, Run
  <2>3. CASE f = SourcesJson
    <3>1. sidecar \in Sidecar /\ RecordOf(sidecar)
      BY <2>2, <2>3, HeldKind, NamesAssumption
    <3>2. sidecar.by \in Runs
      BY <3>1 DEF Sidecar
    <3>3. RecordOf(held.content)'
      BY <2>2, <2>3, <3>1, <3>2, RecordStays DEF RecordOf
    <3> QED
      BY <2>2, <2>3, <3>3 DEF HeldRecorded, RecordOf
  <2>4. CASE f # SourcesJson
    <3>1. f \in File /\ input[f] \in Page
      BY <2>2, <2>4, HeldKind
    <3>2. input'[f] # None /\ Recorded'
      BY <2>2, <3>1, NamesAssumption, RecordedStep
    <3> QED
      BY <2>2, <2>4, <3>1, <3>2 DEF HeldRecorded, Recorded
  <2> QED
    BY <2>3, <2>4
<1>2. CASE ~\E f \in Stored : CleanRead(q, f)
  <2>1. run[q].pc = "rewriting" /\ run'[q].held = run[q].held
    <3>1. PICK r \in Runs :
             \/ \E links \in LinkLists, e \in Extensions : Start(r, links, e)
             \/ SkipLink(r) \/ StorePage(r) \/ WriteSidecar(r)
             \/ ListFiles(r) \/ CleanWrite(r) \/ Raise(r)
             \/ \E f \in Stored : CleanRead(r, f)
      BY DEF DownloadNext
    <3>2. CASE q # r
      BY <3>1, <3>2 DEF Start, SkipLink, StorePage, WriteSidecar, ListFiles, CleanWrite, Raise,
         CleanRead, CleanNext
    <3>3. CASE q = r
      <4>1. run[r] \in Run
        OBVIOUS
      <4>2. ASSUME NEW links \in LinkLists, NEW e \in Extensions, Start(r, links, e)
            PROVE  run'[r].pc # "rewriting"
        BY <4>2 DEF Start
      <4>3. CASE SkipLink(r) \/ StorePage(r)
        BY <3>3, <4>3 DEF SkipLink, StorePage, Downloading, Run
      <4>4. CASE WriteSidecar(r) \/ Raise(r)
        BY <3>3, <4>4 DEF WriteSidecar, Raise, Run
      <4>5. CASE ListFiles(r) \/ CleanWrite(r)
        BY <3>3, <4>5 DEF ListFiles, CleanWrite, CleanNext, Run
      <4> QED
        BY <1>2, <3>1, <3>3, <4>2, <4>3, <4>4, <4>5
    <3> QED
      BY <3>2, <3>3
  <2> DEFINE held == run[q].held
  <2>2. held \in Held /\ HeldRecorded(q)
    BY <2>1 DEF Holding
  <2>3. CASE held.file = SourcesJson
    <3>1. RecordOf(held.content) /\ held.content \in Sidecar
      BY <2>1, <2>2, <2>3, HeldKind DEF HeldRecorded
    <3>2. RecordOf(held.content)'
      <4> DEFINE content == held.content
      <4>1. content.by \in Runs
        BY <3>1 DEF Sidecar
      <4> HIDE DEF content
      <4> QED
        BY <2>1, <3>1, <4>1, RecordStays DEF RecordOf, content
    <3> QED
      BY <2>1, <2>3, <3>2 DEF HeldRecorded, RecordOf
  <2>4. CASE held.file # SourcesJson
    <3>1. held.file \in File /\ held.content \in Page /\ held.content.by \in Runs
      BY <2>2, <2>4, HeldKind DEF Page
    <3>2. run[held.content.by].sources[held.file] # None
      BY <2>1, <2>2, <2>4 DEF HeldRecorded
    <3>3. run'[held.content.by].sources[held.file] # None
      <4>1. CASE StorePage(held.content.by)
        <5>1. PICK f \in File, page \in Page, link \in Links : StoredAs(held.content.by, f, page, link)
          BY <3>1, <4>1, StoredRecorded
        <5>2. run[held.content.by].sources \in Sources /\ link # None
          BY <3>1, NamesAssumption DEF Run
        <5> QED
          BY <3>1, <3>2, <5>1, <5>2 DEF StoredAs, Sources
      <4>2. CASE ~StorePage(held.content.by)
        BY <3>1, <3>2, <4>2, RecordStays
      <4> QED
        BY <4>1, <4>2
    <3> QED
      BY <2>1, <2>4, <3>3 DEF HeldRecorded
  <2> QED
    BY <2>3, <2>4
<1> QED
  BY <1>1, <1>2

LEMMA SidecarStep ==
  ASSUME SidecarInv, DownloadNext, sidecar' # None
  PROVE  RecordOf(sidecar)'
<1> USE DEF SidecarInv, DownloadInv, DownloadTypeOK
<1>1. PICK r \in Runs : UNCHANGED sidecar \/ WriteSidecar(r) \/ CleanWrite(r)
  BY DEF DownloadNext, Start, SkipLink, StorePage, ListFiles, CleanRead, Raise
<1>2. CASE UNCHANGED sidecar
  BY <1>2, RecordOfStays DEF RecordOf
<1>3. CASE WriteSidecar(r) /\ sidecar' # sidecar
  <2>1. sidecar' = [sources |-> run[r].sources, by |-> r]
    BY <1>3 DEF WriteSidecar
  <2>2. run'[r].pc = "listing" /\ run'[r].sources = run[r].sources
    BY <1>3 DEF WriteSidecar, Run
  <2> QED
    BY <2>1, <2>2 DEF RecordOf
<1>4. CASE CleanWrite(r) /\ sidecar' # sidecar
  <2>1. run[r].pc = "rewriting" /\ run[r].held.file = SourcesJson /\ sidecar' = run[r].held.content
    BY <1>4 DEF CleanWrite
  <2>2. run[r].held \in Held /\ HeldRecorded(r)
    BY <2>1 DEF Holding
  <2>3. run[r].held.content \in Sidecar /\ RecordOf(run[r].held.content)
    BY <2>1, <2>2, HeldKind DEF HeldRecorded
  <2>4. run[r].held.content.by \in Runs
    BY <2>3 DEF Sidecar
  <2> QED
    BY <2>1, <2>3, <2>4, RecordStays DEF RecordOf
<1> QED
  BY <1>1, <1>2, <1>3, <1>4

\* Pages and sidecar agree, whichever ingestions write, clean and fail in between:
\* the sidecar is the record of an ingestion that has stored its pages, and what a
\* cleaner writes back is no older than that.
THEOREM SidecarAgrees ==
  Extensions = {".md"} => (DownloadSpec => []SidecarNamesPages)
<1>1. Extensions = {".md"} /\ SidecarInv /\ [DownloadNext]_vars => SidecarInv'
  <2> SUFFICES ASSUME Extensions = {".md"}, SidecarInv, [DownloadNext]_vars PROVE SidecarInv'
    OBVIOUS
  <2>1. CASE DownloadNext
    <3>1. DownloadInv'
      BY <2>1, TypesStep, HoldingStep, ListedStep DEF SidecarInv, DownloadNext, DownloadInv
    <3> QED
      BY <2>1, <3>1, RecordedStep, SidecarStep, HeldRecordedStep DEF SidecarInv
  <2>2. CASE UNCHANGED vars
    BY <2>2 DEF vars, SidecarInv, DownloadInv, DownloadTypeOK, Holding, Listed, Recorded, RecordOf,
       HeldRecorded
  <2> QED
    BY <2>1, <2>2
<1>2. SidecarInv => SidecarNamesPages
  <2> SUFFICES ASSUME SidecarInv, sidecar # None, NEW f \in File
               PROVE  /\ sidecar.sources[f] # None => input[f] # None
                      /\ input[f] # None /\ input[f].by = sidecar.by => sidecar.sources[f] # None
    BY DEF SidecarNamesPages
  <2>1. sidecar.by \in Runs /\ sidecar.sources = run[sidecar.by].sources
    BY DEF SidecarInv, DownloadInv, DownloadTypeOK, RecordOf, Sidecar
  <2> QED
    BY <2>1 DEF SidecarInv, Recorded
<1>3. CASE Extensions = {".md"}
  BY <1>1, <1>2, <1>3, SidecarInvInit, PTL DEF DownloadSpec
<1> QED
  BY <1>3
=============================================================================
