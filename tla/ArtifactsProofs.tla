--------------------------- MODULE ArtifactsProofs ---------------------------
(***************************************************************************)
(* Theorems about the operators of Artifacts, for any job and any store:   *)
(* what a page offers it also hands out, but for files on the disk whose   *)
(* names have escapes or that are links; and it offers no name twice in a  *)
(* group.                                                                  *)
(***************************************************************************)
EXTENDS Artifacts, SequenceTheorems, TLAPS

-----------------------------------------------------------------------------
(* Prefixes. *)

\* A prefix agrees with what it is a prefix of as far as it goes.
LEMMA PrefixElements ==
  ASSUME NEW a \in Keys, NEW b \in Keys
  PROVE  IsPrefix(a, b) <=> Len(a) <= Len(b) /\ \A i \in 1..Len(a) : a[i] = b[i]
<1>1. /\ Len(a) \in Nat /\ Len(b) \in Nat
      /\ \A i \in 1..Len(a) : a[i] \in Tokens
      /\ \A i \in 1..Len(b) : b[i] \in Tokens
  BY LenProperties, ElementOfSeq DEF Keys
<1>2. ASSUME Len(a) <= Len(b)
      PROVE  SubSeq(a, 1, Len(a)) = SubSeq(b, 1, Len(a)) <=> \A i \in 1..Len(a) : a[i] = b[i]
  <2>1. SubSeq(a, 1, Len(a)) = a
    BY SubSeqFull DEF Keys
  <2>2. \A i \in 1..Len(a) : b[i] \in Tokens
    BY <1>1, <1>2
  <2>3. /\ SubSeq(b, 1, Len(a)) \in Seq(Tokens)
        /\ Len(SubSeq(b, 1, Len(a))) = IF 1 <= Len(a) THEN Len(a) - 1 + 1 ELSE 0
        /\ \A i \in 1..Len(a) - 1 + 1 : SubSeq(b, 1, Len(a))[i] = b[1 + i - 1]
    <3>1. 1 \in Int /\ Len(a) \in Int
      BY <1>1
    <3> QED
      BY <2>2, <3>1, SubSeqProperties
  <2>4. Len(SubSeq(b, 1, Len(a))) = Len(a) /\ \A i \in 1..Len(a) : SubSeq(b, 1, Len(a))[i] = b[i]
    BY <1>1, <2>3
  <2>5. a = SubSeq(b, 1, Len(a)) <=> \A i \in 1..Len(a) : a[i] = SubSeq(b, 1, Len(a))[i]
    BY <2>3, <2>4, SeqEqual DEF Keys
  <2> QED
    BY <2>1, <2>4, <2>5
<1> QED
  BY <1>2 DEF IsPrefix

LEMMA PrefixOfConcat ==
  ASSUME NEW a \in Keys, NEW b \in Keys
  PROVE  a \o b \in Keys /\ IsPrefix(a, a \o b)
<1>1. /\ a \o b \in Keys /\ Len(a \o b) = Len(a) + Len(b)
      /\ Len(a) \in Nat /\ Len(b) \in Nat
      /\ \A i \in 1..Len(a) + Len(b) : (a \o b)[i] = IF i <= Len(a) THEN a[i] ELSE b[i - Len(a)]
  BY ConcatProperties, LenProperties DEF Keys
<1>2. Len(a) <= Len(a \o b) /\ \A i \in 1..Len(a) : a[i] = (a \o b)[i]
  BY <1>1
<1> QED
  BY <1>1, <1>2, PrefixElements

LEMMA PrefixTransitive ==
  ASSUME NEW a \in Keys, NEW b \in Keys, NEW c \in Keys, IsPrefix(a, b), IsPrefix(b, c)
  PROVE  IsPrefix(a, c)
<1>1. Len(a) \in Nat /\ Len(b) \in Nat /\ Len(c) \in Nat
  BY LenProperties DEF Keys
<1> QED
  BY <1>1, PrefixElements

\* Of two prefixes of one key one is a prefix of the other.
LEMMA PrefixesComparable ==
  ASSUME NEW a \in Keys, NEW b \in Keys, NEW c \in Keys, IsPrefix(a, c), IsPrefix(b, c)
  PROVE  IsPrefix(a, b) \/ IsPrefix(b, a)
<1>1. Len(a) \in Nat /\ Len(b) \in Nat /\ Len(c) \in Nat
  BY LenProperties DEF Keys
<1>2. /\ Len(a) <= Len(c) /\ \A i \in 1..Len(a) : a[i] = c[i]
      /\ Len(b) <= Len(c) /\ \A i \in 1..Len(b) : b[i] = c[i]
  BY PrefixElements
<1>3. CASE Len(a) <= Len(b)
  BY <1>1, <1>2, <1>3, PrefixElements
<1>4. CASE Len(b) <= Len(a)
  BY <1>1, <1>2, <1>4, PrefixElements
<1> QED
  BY <1>1, <1>3, <1>4

\* What is left of a key without its prefix completes the prefix to the key.
LEMMA PrefixRemoved ==
  ASSUME NEW a \in Keys, NEW b \in Keys, IsPrefix(a, b)
  PROVE  /\ RemovePrefix(a, b) \in Keys /\ a \o RemovePrefix(a, b) = b
         /\ a # b => RemovePrefix(a, b) # <<>> /\ Last(RemovePrefix(a, b)) = Last(b)
<1> DEFINE rest == RemovePrefix(a, b)
<1>1. /\ Len(a) \in Nat /\ Len(b) \in Nat /\ Len(a) <= Len(b)
      /\ \A i \in 1..Len(a) : a[i] = b[i]
      /\ \A i \in 1..Len(b) : b[i] \in Tokens
  BY PrefixElements, LenProperties, ElementOfSeq DEF Keys
<1>2. /\ rest \in Keys /\ Len(rest) = Len(b) - Len(a)
      /\ \A i \in 1..Len(b) - Len(a) : rest[i] = b[Len(a) + i]
  <2>1. \A i \in Len(a) + 1..Len(b) : b[i] \in Tokens
    BY <1>1
  <2>2. Len(a) + 1 \in Int /\ Len(b) \in Int
    BY <1>1
  <2>3. /\ rest \in Seq(Tokens)
        /\ Len(rest) = IF Len(a) + 1 <= Len(b) THEN Len(b) - (Len(a) + 1) + 1 ELSE 0
        /\ \A i \in 1..Len(b) - (Len(a) + 1) + 1 : rest[i] = b[Len(a) + 1 + i - 1]
    BY <2>1, <2>2, SubSeqProperties DEF RemovePrefix
  <2>4. \A i \in 1..Len(b) - Len(a) : i \in 1..Len(b) - (Len(a) + 1) + 1 /\ Len(a) + 1 + i - 1 = Len(a) + i
    BY <1>1
  <2>5. \A i \in 1..Len(b) - Len(a) : rest[i] = b[Len(a) + i]
    <3> HIDE DEF rest
    <3> QED
      BY <2>3, <2>4
  <2>6. Len(rest) = Len(b) - Len(a)
    <3> HIDE DEF rest
    <3> QED
      BY <1>1, <2>3
  <2> QED
    BY <2>3, <2>5, <2>6 DEF Keys
<1> HIDE DEF rest
<1>3. a \o rest = b
  <2>1. /\ a \o rest \in Keys /\ Len(a \o rest) = Len(a) + Len(rest)
        /\ \A i \in 1..Len(a) + Len(rest) : (a \o rest)[i] = IF i <= Len(a) THEN a[i] ELSE rest[i - Len(a)]
    BY <1>2, ConcatProperties DEF Keys
  <2>2. Len(a \o rest) = Len(b)
    BY <1>1, <1>2, <2>1
  <2>3. ASSUME NEW i \in 1..Len(b) PROVE (a \o rest)[i] = b[i]
    <3>1. CASE i <= Len(a)
      BY <1>1, <1>2, <2>1, <3>1
    <3>2. CASE ~(i <= Len(a))
      <4>1. i - Len(a) \in 1..Len(b) - Len(a) /\ Len(a) + (i - Len(a)) = i
        BY <1>1, <3>2
      <4>2. (a \o rest)[i] = rest[i - Len(a)]
        BY <1>1, <1>2, <2>1, <3>2
      <4> QED
        BY <1>2, <4>1, <4>2
    <3> QED
      BY <3>1, <3>2
  <2> QED
    BY <2>1, <2>2, <2>3, SeqEqual DEF Keys
<1>4. ASSUME a # b PROVE rest # <<>> /\ Last(rest) = Last(b)
  <2>1. Len(rest) # 0
    <3>1. ASSUME Len(a) = Len(b) PROVE a = b
      BY <1>1, <3>1, SeqEqual DEF Keys
    <3> QED
      BY <1>1, <1>2, <1>4, <3>1
  <2>2. Len(rest) \in 1..Len(b) - Len(a) /\ Len(a) + Len(rest) = Len(b)
    BY <1>1, <1>2, <2>1
  <2> QED
    BY <1>2, <2>1, <2>2 DEF Last
<1> QED
  BY <1>2, <1>3, <1>4 DEF rest

\* So no two keys below one prefix have the same rest.
LEMMA RestsDiffer ==
  ASSUME NEW a \in Keys, NEW b \in Keys, NEW c \in Keys, IsPrefix(a, b), IsPrefix(a, c),
         RemovePrefix(a, b) = RemovePrefix(a, c)
  PROVE  b = c
<1>1. a \o RemovePrefix(a, b) = b /\ a \o RemovePrefix(a, c) = c
  BY PrefixRemoved
<1> QED
  BY <1>1

LEMMA RestOfConcat ==
  ASSUME NEW a \in Keys, NEW b \in Keys
  PROVE  RemovePrefix(a, a \o b) = b
<1>1. a \o b \in Keys /\ IsPrefix(a, a \o b)
  BY PrefixOfConcat
<1>2. a \o RemovePrefix(a, a \o b) = a \o b /\ RemovePrefix(a, a \o b) \in Keys
  BY <1>1, PrefixRemoved
<1> QED
  BY <1>2, ConcatSimplifications DEF Keys

LEMMA Normalised ==
  ASSUME NEW a \in Keys
  PROVE  NormalisePrefix(a) \in Keys \ {<<>>} /\ IsPrefix(a, NormalisePrefix(a))
<1>1. "/" \in Tokens /\ <<"/">> \in Keys
  BY PlacesAssumption DEF Keys
<1>2. Append(a, "/") = a \o <<"/">> /\ Append(a, "/") # <<>>
  BY <1>1, AppendProperties, AppendIsConcat DEF Keys
<1>3. IsPrefix(a, a)
  BY LenProperties, PrefixElements DEF Keys
<1> QED
  BY <1>1, <1>2, <1>3, PrefixOfConcat DEF NormalisePrefix

-----------------------------------------------------------------------------
(* Lists of artifacts. *)

Listing ==
  [group: {"ontology_files", "reports", "intermediary_files"}, name: Keys,
   place: Places \cup {NoLocation}, visualize: BOOLEAN]

\* An artifact of a source whose name no earlier source has in its group, and how
\* it is shown.
First(sources, i, b) ==
  b \in sources[i] /\ \A k \in 1..(i - 1) : ~\E c \in sources[k] : SameName(b, c)
Shown(sources, b) ==
  [b EXCEPT !.visualize = \E c \in UNION Range(sources) : SameName(b, c) /\ c.visualize]

LEMMA DeduplicatedFirst ==
  ASSUME NEW sources, NEW a
  PROVE  a \in Deduplicated(sources) <=>
           \E i \in DOMAIN sources : \E b \in sources[i] : First(sources, i, b) /\ a = Shown(sources, b)
BY DEF Deduplicated, First, Shown

LEMMA ShownSame ==
  ASSUME NEW sources, NEW b \in Listing
  PROVE  /\ SameName(Shown(sources, b), b) /\ Shown(sources, b).place = b.place
         /\ Shown(sources, b).group = b.group /\ Shown(sources, b).name = b.name
BY DEF Shown, Listing, SameName

\* If no source has a name twice in a group, neither has the list made of them.
LEMMA NamesUnique ==
  ASSUME NEW n \in Nat, NEW sources, DOMAIN sources = 1..n,
         \A i \in 1..n : sources[i] \subseteq Listing,
         \A i \in 1..n : \A b, c \in sources[i] : SameName(b, c) => b = c,
         NEW a1 \in Deduplicated(sources), NEW a2 \in Deduplicated(sources), SameName(a1, a2)
  PROVE  a1 = a2
<1>1. PICK i1 \in 1..n : \E b \in sources[i1] : First(sources, i1, b) /\ a1 = Shown(sources, b)
  BY DeduplicatedFirst
<1>2. PICK b1 \in sources[i1] : First(sources, i1, b1) /\ a1 = Shown(sources, b1)
  BY <1>1
<1>3. PICK i2 \in 1..n : \E b \in sources[i2] : First(sources, i2, b) /\ a2 = Shown(sources, b)
  BY DeduplicatedFirst
<1>4. PICK b2 \in sources[i2] : First(sources, i2, b2) /\ a2 = Shown(sources, b2)
  BY <1>3
<1>5. SameName(b1, b2) /\ SameName(b2, b1)
  BY <1>2, <1>4, ShownSame DEF SameName
<1>6. ~(i1 < i2)
  BY <1>2, <1>4, <1>5 DEF First
<1>7. ~(i2 < i1)
  BY <1>2, <1>4, <1>5 DEF First
<1>8. i1 = i2
  BY <1>6, <1>7
<1> QED
  BY <1>2, <1>4, <1>5, <1>8

-----------------------------------------------------------------------------
(* What a job's page offers. *)

JobRow ==
  [domain: Keys, job_runs: Keys, config_data: BOOLEAN, domain_prompt: BOOLEAN,
   input_path: Places \cup {NoLocation}, output_dir: Places \cup {NoLocation}]

\* A source of artifacts has no name twice in a group, and nothing plain that the
\* job's routes refuse.
GoodSource(job, store, source) ==
  /\ source \subseteq Listing
  /\ \A b, c \in source : SameName(b, c) => b = c
  /\ \A b \in source : Plain(b.place) => Downloadable(job, b.place, store)

\* What is asked for as it is listed is handed out if it is there and the job's.
LEMMA PlainAnswer ==
  ASSUME NEW job, NEW store, NEW o \in store, o # NoLocation, Plain(o),
         IF o.bucket = Local THEN MayDownloadLocalFile(job, o) ELSE MayDownloadFile(job, o)
  PROVE  Downloadable(job, o, store)
BY DEF Plain, Downloadable

LEMMA Literals ==
  /\ <<"/">> \in Keys /\ <<"input", "/">> \in Keys /\ <<"output", "/">> \in Keys
  /\ <<"config.yaml">> \in Keys /\ <<"prompts.txt">> \in Keys
  /\ <<"input", "/">> # <<>> /\ <<"output", "/">> # <<>>
BY PlacesAssumption DEF Keys

LEMMA RowSource ==
  ASSUME NEW job \in JobRow, NEW store
  PROVE  GoodSource(job, store, RowArtifacts(job))
<1> DEFINE item(name) == Artifact("intermediary_files", <<name>>, NoLocation)
<1>1. ASSUME NEW b \in RowArtifacts(job)
      PROVE  \E name \in {"config.yaml", "prompts.txt"} : b = item(name)
  BY DEF RowArtifacts
<1>2. \A name \in {"config.yaml", "prompts.txt"} : item(name) \in Listing
  BY Literals DEF Artifact, Listing
<1>3. ASSUME NEW b \in RowArtifacts(job), NEW c \in RowArtifacts(job), SameName(b, c) PROVE b = c
  <2>1. PICK n \in {"config.yaml", "prompts.txt"} : b = item(n)
    BY <1>1
  <2>2. PICK m \in {"config.yaml", "prompts.txt"} : c = item(m)
    BY <1>1
  <2>3. <<n>> = <<m>>
    BY <1>3, <2>1, <2>2 DEF SameName, Artifact
  <2> QED
    BY <2>1, <2>2, <2>3
<1>4. \A b \in RowArtifacts(job) : b.place = NoLocation
  BY <1>1 DEF Artifact
<1> QED
  BY <1>1, <1>2, <1>3, <1>4 DEF GoodSource, Downloadable

\* The name of a local file says which of the files at or below the path it is.
LEMMA LocalNames ==
  ASSUME NEW store, IsStore(store), NEW path \in Keys,
         NEW o \in LocalFiles(store, path), NEW q \in LocalFiles(store, path)
  PROVE  /\ LocalName(path, o.path) \in Keys
         /\ LocalName(path, o.path) = LocalName(path, q.path) => o = q
<1>1. /\ o \in store /\ q \in store /\ o \in Places /\ q \in Places
      /\ o.bucket = Local /\ q.bucket = Local /\ o.path \in Keys /\ q.path \in Keys
      /\ o.path # <<>>
  BY DEF LocalFiles, IsStore, Places
<1>2. o = q <=> o.path = q.path
  BY <1>1 DEF Places
<1> DEFINE folder == path \o <<"/">>
<1>3. folder \in Keys
  BY Literals, PrefixOfConcat
<1>4. /\ o.path = path \/ IsPrefix(folder, o.path)
      /\ q.path = path \/ IsPrefix(folder, q.path)
  BY DEF LocalFiles
<1>5. o.path = path => ~IsPrefix(folder, q.path)
  BY <1>1 DEF IsStore
<1>6. q.path = path => ~IsPrefix(folder, o.path)
  BY <1>1 DEF IsStore
<1> HIDE DEF folder
<1>7. LocalName(path, o.path) \in Keys
  <2>1. CASE o.path = path
    <3>1. Last(o.path) \in Tokens
      BY <1>1, LenProperties, ElementOfSeq, EmptySeq DEF Last, Keys
    <3>2. <<Last(o.path)>> \in Keys
      BY <3>1 DEF Keys
    <3> QED
      BY <2>1, <3>2 DEF LocalName
  <2>2. CASE o.path # path
    BY <1>1, <1>3, <1>4, <2>2, PrefixRemoved DEF LocalName, folder
  <2> QED
    BY <2>1, <2>2
<1>8. ASSUME LocalName(path, o.path) = LocalName(path, q.path) PROVE o.path = q.path
  <2>1. CASE o.path # path /\ q.path # path
    <3>1. RemovePrefix(folder, o.path) = RemovePrefix(folder, q.path)
      BY <1>8, <2>1 DEF LocalName, folder
    <3> QED
      BY <1>1, <1>3, <1>4, <2>1, <3>1, RestsDiffer
  <2> QED
    BY <1>4, <1>5, <1>6, <2>1
<1> QED
  BY <1>2, <1>7, <1>8

\* So do the names of the objects below a prefix.
LEMMA ObjectNames ==
  ASSUME NEW store, IsStore(store), NEW location \in Places,
         NEW o \in Objects(store, location), NEW q \in Objects(store, location)
  PROVE  /\ RemovePrefix(location.path, o.path) \in Keys
         /\ RemovePrefix(location.path, o.path) = RemovePrefix(location.path, q.path) => o = q
<1>1. /\ o \in Places /\ q \in Places /\ o.bucket = q.bucket
      /\ o.path \in Keys /\ q.path \in Keys /\ location.path \in Keys
      /\ IsPrefix(location.path, o.path) /\ IsPrefix(location.path, q.path)
  BY DEF Objects, IsStore, Places
<1>2. o.path = q.path => o = q
  BY <1>1 DEF Places
<1> QED
  BY <1>1, <1>2, PrefixRemoved, RestsDiffer

\* A name after a fixed first part.
LEMMA Labelled ==
  ASSUME NEW label \in Keys, NEW a \in Keys, NEW b \in Keys
  PROVE  /\ label \o a \in Keys
         /\ label \o a = label \o b => a = b
BY PrefixOfConcat, ConcatSimplifications DEF Keys

LEMMA LastOfConcat ==
  ASSUME NEW a \in Keys, NEW b \in Keys, b # <<>>
  PROVE  a \o b # <<>> /\ Last(a \o b) = Last(b)
<1>1. /\ Len(a) \in Nat /\ Len(b) \in Nat /\ Len(b) # 0
      /\ a \o b \in Keys /\ Len(a \o b) = Len(a) + Len(b)
      /\ \A i \in 1..Len(a) + Len(b) : (a \o b)[i] = IF i <= Len(a) THEN a[i] ELSE b[i - Len(a)]
  BY ConcatProperties, LenProperties, EmptySeq DEF Keys
<1>2. Len(a \o b) \in 1..Len(a) + Len(b) /\ ~(Len(a \o b) <= Len(a)) /\ Len(a \o b) - Len(a) = Len(b)
  BY <1>1
<1>3. (a \o b)[Len(a \o b)] = b[Len(b)]
  BY <1>1, <1>2
<1>4. a \o b # <<>>
  BY <1>1, <1>2, LenProperties
<1> QED
  BY <1>3, <1>4 DEF Last

\* What two keys begin with alike does not matter to whether one is a prefix.
LEMMA PrefixCancelled ==
  ASSUME NEW a \in Keys, NEW b \in Keys, NEW c \in Keys, IsPrefix(a \o b, a \o c)
  PROVE  IsPrefix(b, c)
<1>1. a \o b \in Keys /\ a \o c \in Keys
  BY PrefixOfConcat
<1>2. PICK rest \in Keys : (a \o b) \o rest = a \o c
  BY <1>1, PrefixRemoved
<1>3. (a \o b) \o rest = a \o (b \o rest)
  BY ConcatAssociative DEF Keys
<1>4. b \o rest \in Keys /\ IsPrefix(b, b \o rest)
  BY <1>2, PrefixOfConcat
<1>5. b \o rest = c
  BY <1>2, <1>3, <1>4, Labelled
<1> QED
  BY <1>4, <1>5

\* Of two folders with one part each neither has the other's path as a prefix.
LEMMA OnePart ==
  ASSUME NEW a \in Keys, NEW b \in Keys, IsPrefix(a \o <<"/">>, b \o <<"/">>),
         \A i \in DOMAIN b : b[i] # "/"
  PROVE  a = b
<1>1. /\ <<"/">> \in Keys /\ Len(<<"/">>) = 1 /\ <<"/">>[1] = "/"
  BY Literals
<1>2. /\ Len(a) \in Nat /\ Len(b) \in Nat /\ DOMAIN b = 1..Len(b)
      /\ a \o <<"/">> \in Keys /\ Len(a \o <<"/">>) = Len(a) + 1
      /\ b \o <<"/">> \in Keys /\ Len(b \o <<"/">>) = Len(b) + 1
      /\ \A i \in 1..Len(a) + 1 : (a \o <<"/">>)[i] = IF i <= Len(a) THEN a[i] ELSE <<"/">>[i - Len(a)]
      /\ \A i \in 1..Len(b) + 1 : (b \o <<"/">>)[i] = IF i <= Len(b) THEN b[i] ELSE <<"/">>[i - Len(b)]
  BY <1>1, ConcatProperties, LenProperties DEF Keys
<1>3. /\ Len(a) + 1 <= Len(b) + 1
      /\ \A i \in 1..Len(a) + 1 : (a \o <<"/">>)[i] = (b \o <<"/">>)[i]
  <2> DEFINE A == a \o <<"/">>
             B == b \o <<"/">>
  <2>1. A \in Keys /\ B \in Keys /\ IsPrefix(A, B) /\ Len(A) = Len(a) + 1 /\ Len(B) = Len(b) + 1
    BY <1>2
  <2> HIDE DEF A, B
  <2>2. Len(A) <= Len(B) /\ \A i \in 1..Len(A) : A[i] = B[i]
    BY <2>1, PrefixElements
  <2>3. Len(a) + 1 <= Len(b) + 1 /\ \A i \in 1..Len(a) + 1 : A[i] = B[i]
    BY <2>1, <2>2
  <2> QED
    BY <2>3 DEF A, B
<1>4. (a \o <<"/">>)[Len(a) + 1] = "/"
  <2>1. Len(a) + 1 \in 1..Len(a) + 1 /\ ~(Len(a) + 1 <= Len(a)) /\ Len(a) + 1 - Len(a) = 1
    BY <1>2
  <2> QED
    BY <1>1, <1>2, <2>1
<1>5. Len(a) = Len(b)
  <2>1. SUFFICES ASSUME Len(a) + 1 <= Len(b) PROVE FALSE
    BY <1>2, <1>3
  <2>2. Len(a) + 1 \in 1..Len(a) + 1 /\ Len(a) + 1 \in 1..Len(b) /\ Len(a) + 1 \in 1..Len(b) + 1
    BY <1>2, <2>1
  <2>3. (b \o <<"/">>)[Len(a) + 1] = b[Len(a) + 1]
    BY <1>2, <2>1, <2>2
  <2> QED
    BY <1>2, <1>3, <1>4, <2>2, <2>3
<1>6. \A i \in 1..Len(a) : a[i] = b[i]
  <2> TAKE i \in 1..Len(a)
  <2>1. i \in 1..Len(a) + 1 /\ i \in 1..Len(b) + 1 /\ i <= Len(a) /\ i <= Len(b)
    BY <1>2, <1>5
  <2> QED
    BY <1>2, <1>3, <2>1
<1> QED
  BY <1>5, <1>6, SeqEqual DEF Keys

LEMMA LocalInputSource ==
  ASSUME NEW job \in JobRow, NEW store, IsStore(store)
  PROVE  GoodSource(job, store, LocalInputArtifacts(job, store))
<1> DEFINE source == LocalInputArtifacts(job, store)
           path == job.input_path.path
           label == <<"input", "/">>
           item(o) == Artifact("intermediary_files", label \o LocalName(path, o.path), o)
<1>1. ASSUME source # {}
      PROVE  /\ path \in Keys /\ path \in AllowedLocalPaths(job)
             /\ source = {item(o) : o \in LocalFiles(store, path)}
  <2>1. LocalPaths(job.input_path) = {path} /\ job.input_path # NoLocation
    BY <1>1 DEF LocalInputArtifacts, LocalPaths
  <2>2. path \in Keys
    BY <2>1 DEF JobRow, Places
  <2> QED
    BY <2>1, <2>2 DEF LocalInputArtifacts, AllowedLocalPaths
<1>2. ASSUME NEW b \in source
      PROVE  \E o \in LocalFiles(store, path) : b = item(o)
  BY <1>1
<1>3. ASSUME NEW b \in source PROVE b \in Listing /\ (Plain(b.place) => Downloadable(job, b.place, store))
  <2>1. PICK o \in LocalFiles(store, path) : b = item(o)
    BY <1>2
  <2>2. LocalName(path, o.path) \in Keys /\ path \in Keys /\ path \in AllowedLocalPaths(job)
    BY <1>1, LocalNames
  <2>3. label \o LocalName(path, o.path) \in Keys
    BY <2>2, Literals, Labelled
  <2>4. o \in Places /\ o \in store /\ o.bucket = Local /\ (o.path = path \/ IsPrefix(path \o <<"/">>, o.path))
    BY DEF LocalFiles, IsStore
  <2>5. b \in Listing /\ b.place = o
    BY <2>1, <2>3, <2>4 DEF Artifact, Listing
  <2>6. MayDownloadLocalFile(job, o) /\ o # NoLocation
    BY <2>2, <2>4, PlacesAssumption DEF MayDownloadLocalFile
  <2> QED
    BY <2>4, <2>5, <2>6, PlainAnswer
<1>4. ASSUME NEW b \in source, NEW c \in source, SameName(b, c) PROVE b = c
  <2>1. PICK o \in LocalFiles(store, path) : b = item(o)
    BY <1>2
  <2>2. PICK q \in LocalFiles(store, path) : c = item(q)
    BY <1>2
  <2>3. label \o LocalName(path, o.path) = label \o LocalName(path, q.path)
    BY <1>4, <2>1, <2>2 DEF SameName, Artifact
  <2>4. LocalName(path, o.path) \in Keys /\ LocalName(path, q.path) \in Keys
    BY <1>1, LocalNames
  <2>5. LocalName(path, o.path) = LocalName(path, q.path)
    BY <2>3, <2>4, Literals, Labelled
  <2>6. o = q
    BY <1>1, <2>5, LocalNames
  <2> QED
    BY <2>1, <2>2, <2>6
<1> QED
  BY <1>3, <1>4 DEF GoodSource

LEMMA Grouped ==
  ASSUME NEW name
  PROVE  OutputArtifactGroup(name) \in {"ontology_files", "reports", "intermediary_files"}
BY DEF OutputArtifactGroup

LEMMA LocalOutputSource ==
  ASSUME NEW job \in JobRow, NEW store, IsStore(store)
  PROVE  GoodSource(job, store, LocalOutputArtifacts(job, store))
<1> DEFINE source == LocalOutputArtifacts(job, store)
           path == job.output_dir.path
           label == <<"output", "/">>
           item(o) == Artifact(OutputArtifactGroup(Last(o.path)), label \o LocalName(path, o.path), o)
<1>1. ASSUME source # {}
      PROVE  /\ path \in Keys /\ path \in AllowedLocalPaths(job)
             /\ source = {item(o) : o \in LocalFiles(store, path)}
  <2>1. LocalPaths(job.output_dir) = {path} /\ job.output_dir # NoLocation
    BY <1>1 DEF LocalOutputArtifacts, LocalPaths
  <2>2. path \in Keys
    BY <2>1 DEF JobRow, Places
  <2> QED
    BY <2>1, <2>2 DEF LocalOutputArtifacts, AllowedLocalPaths
<1>2. ASSUME NEW b \in source
      PROVE  \E o \in LocalFiles(store, path) : b = item(o)
  BY <1>1
<1>3. ASSUME NEW b \in source PROVE b \in Listing /\ (Plain(b.place) => Downloadable(job, b.place, store))
  <2>1. PICK o \in LocalFiles(store, path) : b = item(o)
    BY <1>2
  <2>2. LocalName(path, o.path) \in Keys /\ path \in Keys /\ path \in AllowedLocalPaths(job)
    BY <1>1, LocalNames
  <2>3. label \o LocalName(path, o.path) \in Keys
    BY <2>2, Literals, Labelled
  <2>4. o \in Places /\ o \in store /\ o.bucket = Local /\ (o.path = path \/ IsPrefix(path \o <<"/">>, o.path))
    BY DEF LocalFiles, IsStore
  <2>5. b \in Listing /\ b.place = o
    BY <2>1, <2>3, <2>4, Grouped DEF Artifact, Listing
  <2>6. MayDownloadLocalFile(job, o) /\ o # NoLocation
    BY <2>2, <2>4, PlacesAssumption DEF MayDownloadLocalFile
  <2> QED
    BY <2>4, <2>5, <2>6, PlainAnswer
<1>4. ASSUME NEW b \in source, NEW c \in source, SameName(b, c) PROVE b = c
  <2>1. PICK o \in LocalFiles(store, path) : b = item(o)
    BY <1>2
  <2>2. PICK q \in LocalFiles(store, path) : c = item(q)
    BY <1>2
  <2>3. label \o LocalName(path, o.path) = label \o LocalName(path, q.path)
    BY <1>4, <2>1, <2>2 DEF SameName, Artifact
  <2>4. LocalName(path, o.path) \in Keys /\ LocalName(path, q.path) \in Keys
    BY <1>1, LocalNames
  <2>5. LocalName(path, o.path) = LocalName(path, q.path)
    BY <2>3, <2>4, Literals, Labelled
  <2>6. o = q
    BY <1>1, <2>5, LocalNames
  <2> QED
    BY <2>1, <2>2, <2>6
<1> QED
  BY <1>3, <1>4 DEF GoodSource

\* The job's run is at a place in the default bucket.
LEMMA RunPlace ==
  ASSUME NEW job \in JobRow, NEW run \in RunLocations(job)
  PROVE  run \in Places /\ run = Place(DefaultBucket, RunPrefix(job)) /\ run.bucket # Local
<1>1. job.domain \in Keys /\ job.job_runs \in Keys
  BY DEF JobRow
<1>2. job.domain \o <<"/">> \o job.job_runs \in Keys
  <2>1. job.domain \o <<"/">> \in Keys
    BY <1>1, Literals, PrefixOfConcat
  <2> QED
    BY <1>1, <2>1, PrefixOfConcat
<1>3. RunPrefix(job) \in Keys
  BY <1>2, Normalised DEF RunPrefix
<1>4. run = Place(DefaultBucket, RunPrefix(job))
  BY DEF RunLocations
<1> QED
  BY <1>3, <1>4, PlacesAssumption DEF Place, Places

LEMMA InputPlace ==
  ASSUME NEW job \in JobRow, NEW input \in S3Locations(job.input_path)
  PROVE  /\ input \in Places /\ input.bucket # Local /\ job.input_path \in Places
         /\ input = Place(job.input_path.bucket, NormalisePrefix(job.input_path.path))
<1>1. /\ job.input_path # NoLocation /\ job.input_path.bucket # Local
      /\ input = Place(job.input_path.bucket, NormalisePrefix(job.input_path.path))
  BY DEF S3Locations
<1>2. job.input_path \in Places /\ job.input_path.bucket \in Buckets /\ job.input_path.path \in Keys
  BY <1>1 DEF JobRow, Places
<1>3. NormalisePrefix(job.input_path.path) \in Keys
  BY <1>2, Normalised
<1> QED
  BY <1>1, <1>2, <1>3 DEF Place, Places

\* An object at an allowed prefix is handed out.
LEMMA ObjectsAllowed ==
  ASSUME NEW job, NEW store, IsStore(store), NEW location \in AllowedDownloadPrefixes(job),
         location.bucket # Local, NEW o \in Objects(store, location)
  PROVE  o \in Places /\ Downloadable(job, o, store)
BY DEF Objects, IsStore, Downloadable, Requested, MayDownloadFile

LEMMA RunArtifactItem ==
  ASSUME NEW name \in Keys, NEW o \in Places
  PROVE  /\ RunArtifact(name, o) \in Listing
         /\ RunArtifact(name, o).name = name /\ RunArtifact(name, o).place = o
BY Grouped DEF RunArtifact, Artifact, Listing

LEMMA RunSource ==
  ASSUME NEW job \in JobRow, NEW store, IsStore(store)
  PROVE  GoodSource(job, store, RunArtifacts(job, store))
<1> DEFINE source == RunArtifacts(job, store)
           run == Place(DefaultBucket, RunPrefix(job))
           item(o) == RunArtifact(RemovePrefix(run.path, o.path), o)
<1>1. ASSUME NEW b \in source
      PROVE  RunLocations(job) = {run} /\ \E o \in Objects(store, run) : b = item(o)
  <2>1. RunLocations(job) = {run}
    BY <1>1 DEF RunArtifacts, RunLocations
  <2> QED
    BY <1>1, <2>1 DEF RunArtifacts
<1>2. ASSUME NEW b \in source
      PROVE  \E o \in Objects(store, run) :
               /\ b = item(o) /\ o \in Places /\ run \in Places
               /\ RemovePrefix(run.path, o.path) \in Keys /\ Downloadable(job, o, store)
  <2>1. run \in RunLocations(job)
    BY <1>1
  <2>2. PICK o \in Objects(store, run) : b = item(o)
    BY <1>1
  <2>3. run \in Places /\ run.bucket # Local /\ run \in AllowedDownloadPrefixes(job)
    BY <2>1, RunPlace DEF AllowedDownloadPrefixes
  <2> HIDE DEF run
  <2>4. o \in Places /\ Downloadable(job, o, store)
    BY <2>3, ObjectsAllowed
  <2>5. RemovePrefix(run.path, o.path) \in Keys
    BY <2>3, ObjectNames
  <2> QED
    BY <2>2, <2>3, <2>4, <2>5
<1> HIDE DEF run
<1>3. ASSUME NEW b \in source PROVE b \in Listing /\ Downloadable(job, b.place, store)
  BY <1>2, RunArtifactItem
<1>4. ASSUME NEW b \in source, NEW c \in source, SameName(b, c) PROVE b = c
  <2>1. PICK o \in Objects(store, run) :
          b = item(o) /\ o \in Places /\ run \in Places /\ RemovePrefix(run.path, o.path) \in Keys
    BY <1>2
  <2>2. PICK q \in Objects(store, run) :
          c = item(q) /\ q \in Places /\ RemovePrefix(run.path, q.path) \in Keys
    BY <1>2
  <2>3. RemovePrefix(run.path, o.path) = RemovePrefix(run.path, q.path)
    BY <1>4, <2>1, <2>2, RunArtifactItem DEF SameName
  <2>4. o = q
    BY <2>1, <2>3, ObjectNames
  <2> QED
    BY <2>1, <2>2, <2>4
<1> QED
  BY <1>3, <1>4 DEF GoodSource

LEMMA InputSource ==
  ASSUME NEW job \in JobRow, NEW store, IsStore(store)
  PROVE  GoodSource(job, store, InputArtifacts(job, store))
<1> DEFINE source == InputArtifacts(job, store)
           input == Place(job.input_path.bucket, NormalisePrefix(job.input_path.path))
           label == <<"input", "/">>
           item(o) == Artifact("intermediary_files", label \o RemovePrefix(input.path, o.path), o)
<1>1. ASSUME NEW b \in source
      PROVE  S3Locations(job.input_path) = {input} /\ \E o \in Objects(store, input) : b = item(o)
  <2>1. S3Locations(job.input_path) = {input}
    BY <1>1 DEF InputArtifacts, S3Locations
  <2> QED
    BY <1>1, <2>1 DEF InputArtifacts
<1>2. ASSUME NEW b \in source
      PROVE  \E o \in Objects(store, input) :
               /\ b = item(o) /\ o \in Places /\ input \in Places
               /\ RemovePrefix(input.path, o.path) \in Keys /\ Downloadable(job, o, store)
  <2>1. input \in S3Locations(job.input_path)
    BY <1>1
  <2>2. PICK o \in Objects(store, input) : b = item(o)
    BY <1>1
  <2>3. input \in Places /\ input.bucket # Local /\ input \in AllowedDownloadPrefixes(job)
    BY <2>1, InputPlace DEF AllowedDownloadPrefixes
  <2> HIDE DEF input
  <2>4. o \in Places /\ Downloadable(job, o, store)
    BY <2>3, ObjectsAllowed
  <2>5. RemovePrefix(input.path, o.path) \in Keys
    BY <2>3, ObjectNames
  <2> QED
    BY <2>2, <2>3, <2>4, <2>5
<1> HIDE DEF input
<1>3. ASSUME NEW b \in source PROVE b \in Listing /\ Downloadable(job, b.place, store)
  <2>1. PICK o \in Objects(store, input) :
          b = item(o) /\ o \in Places /\ RemovePrefix(input.path, o.path) \in Keys /\ Downloadable(job, o, store)
    BY <1>2
  <2>2. label \o RemovePrefix(input.path, o.path) \in Keys
    BY <2>1, Literals, Labelled
  <2>3. b \in Listing /\ b.place = o
    BY <2>1, <2>2 DEF Artifact, Listing
  <2> QED
    BY <2>1, <2>3
<1>4. ASSUME NEW b \in source, NEW c \in source, SameName(b, c) PROVE b = c
  <2>1. PICK o \in Objects(store, input) :
          b = item(o) /\ input \in Places /\ RemovePrefix(input.path, o.path) \in Keys
    BY <1>2
  <2>2. PICK q \in Objects(store, input) : c = item(q) /\ RemovePrefix(input.path, q.path) \in Keys
    BY <1>2
  <2>3. label \o RemovePrefix(input.path, o.path) = label \o RemovePrefix(input.path, q.path)
    BY <1>4, <2>1, <2>2 DEF SameName, Artifact
  <2>4. RemovePrefix(input.path, o.path) = RemovePrefix(input.path, q.path)
    BY <2>1, <2>2, <2>3, Literals, Labelled
  <2>5. o = q
    BY <2>1, <2>4, ObjectNames
  <2> QED
    BY <2>1, <2>2, <2>5
<1> QED
  BY <1>3, <1>4 DEF GoodSource

ArtifactSources(job, store) ==
  <<RowArtifacts(job), LocalInputArtifacts(job, store), LocalOutputArtifacts(job, store),
    RunArtifacts(job, store), InputArtifacts(job, store)>>

LEMMA GoodSources ==
  ASSUME NEW job \in JobRow, NEW store, IsStore(store)
  PROVE  /\ DOMAIN ArtifactSources(job, store) = 1..5
         /\ \A i \in 1..5 : GoodSource(job, store, ArtifactSources(job, store)[i])
         /\ JobArtifactGroups(job, store) = Deduplicated(ArtifactSources(job, store))
<1>1. DOMAIN ArtifactSources(job, store) = 1..5
  BY DEF ArtifactSources
<1>2. ASSUME NEW i \in 1..5 PROVE GoodSource(job, store, ArtifactSources(job, store)[i])
  <2>1. i = 1 \/ i = 2 \/ i = 3 \/ i = 4 \/ i = 5
    OBVIOUS
  <2> QED
    BY <2>1, RowSource, LocalInputSource, LocalOutputSource, RunSource, InputSource DEF ArtifactSources
<1> QED
  BY <1>1, <1>2 DEF JobArtifactGroups, ArtifactSources

\* A job's page offers no name twice in a group, so that each of its links is what
\* it says, for any job and any store.
THEOREM OfferedOnce ==
  ASSUME NEW job \in JobRow, NEW store, IsStore(store),
         NEW a \in JobArtifactGroups(job, store), NEW b \in JobArtifactGroups(job, store),
         SameName(a, b)
  PROVE  a = b
<1> DEFINE sources == ArtifactSources(job, store)
<1>1. /\ DOMAIN sources = 1..5 /\ a \in Deduplicated(sources) /\ b \in Deduplicated(sources)
      /\ \A i \in 1..5 : sources[i] \subseteq Listing
      /\ \A i \in 1..5 : \A c, d \in sources[i] : SameName(c, d) => c = d
  BY GoodSources DEF GoodSource
<1> HIDE DEF sources
<1>2. 5 \in Nat
  OBVIOUS
<1> QED
  BY <1>1, <1>2, NamesUnique

\* What a job's page offers, the routes that hand files out do not refuse, unless it
\* is a file on the disk whose path the second unquote or the resolving changes.
THEOREM OfferedDownloadable ==
  ASSUME NEW job \in JobRow, NEW store, IsStore(store), NEW a \in JobArtifactGroups(job, store),
         Plain(a.place)
  PROVE  Downloadable(job, a.place, store)
<1> DEFINE sources == ArtifactSources(job, store)
<1>1. /\ DOMAIN sources = 1..5 /\ a \in Deduplicated(sources)
      /\ \A i \in 1..5 : sources[i] \subseteq Listing
      /\ \A i \in 1..5 : \A b \in sources[i] : Plain(b.place) => Downloadable(job, b.place, store)
  BY GoodSources DEF GoodSource
<1> HIDE DEF sources
<1>2. PICK i \in 1..5 : \E b \in sources[i] : First(sources, i, b) /\ a = Shown(sources, b)
  BY <1>1, DeduplicatedFirst
<1>3. PICK b \in sources[i] : a = Shown(sources, b)
  BY <1>2
<1> QED
  BY <1>1, <1>3, ShownSame
=============================================================================
