--------------------------- MODULE StagingProofs ---------------------------
(***************************************************************************)
(* The safety properties of Staging, for any number of requests, chunk     *)
(* counts, crashes and any age limit.                                      *)
(*                                                                         *)
(* TypeOK and TornOnlyWhileWriting are not inductive: StagingInv adds that *)
(* a request at work has a real chunk count and is at one of its chunks    *)
(* (so what it writes is not mistaken for an empty file), that an idle one *)
(* starts at the first, and that the staged names lie below a chunk count. *)
(***************************************************************************)
EXTENDS Staging, FiniteSetTheorems, TLAPS

-----------------------------------------------------------------------------
Labels ==
    {"idle", "body", "write", "write_lost", "meta", "write_meta", "write_meta_lost",
     "stat", "read", "assembled", "remove", "removing"}

\* Where a request works with its chunk count.
Working == Labels \ {"idle", "remove", "removing"}

InvWorking ==
    \A p \in Requests : pc[p] \in Working => total[p] \in Totals /\ at[p] \in 0..(total[p] - 1)

InvIdle == \A p \in Requests : pc[p] = "idle" => at[p] = 0

\* The names of staged chunks are below a chunk count.
InvStaged ==
    \A name \in Names \ {Meta} :
        files[name] # NoFile => \E n \in Totals : name \in 0..(n - 1)

StagingInv ==
    /\ TypeOK
    /\ TornOnlyWhileWriting
    /\ InvWorking
    /\ InvIdle
    /\ InvStaged

-----------------------------------------------------------------------------
\* Chunk indices are names, and no index is the meta file.
LEMMA ChunkIsName ==
    ASSUME NEW n \in Totals, NEW i \in 0..(n - 1)
    PROVE  /\ n \in Nat \ {0} /\ i \in Nat /\ i < n
           /\ i \in Names /\ i # Meta /\ Meta \in Names
           /\ <<n, i>> \in Contents /\ <<n, Meta>> \in Contents
           /\ <<n, i>> # NoFile /\ <<n, i>> # Empty /\ <<n, Meta>> # Empty /\ <<n, Meta>> # NoFile
<1>1. n \in Nat \ {0} /\ i \in Nat /\ i < n
  BY StagingAssumption
<1>2. i \in Indices
  BY <1>1 DEF Indices
<1>3. i \in Names /\ i # Meta /\ Meta \in Names
  BY <1>1, <1>2 DEF Names, Meta
<1>4. <<n, i>> \in Contents /\ <<n, Meta>> \in Contents
  BY <1>3 DEF Contents
<1>5. QED
  BY <1>1, <1>3, <1>4 DEF NoFile, Empty, Meta

\* What a request at work has in hand.
LEMMA AtWork ==
    ASSUME StagingInv, NEW p \in Requests, pc[p] \in Working
    PROVE  /\ total[p] \in Totals /\ at[p] \in 0..(total[p] - 1)
           /\ total[p] \in Nat \ {0} /\ at[p] \in Nat /\ at[p] < total[p]
           /\ at[p] \in Names /\ at[p] # Meta /\ Meta \in Names
           /\ <<total[p], at[p]>> \in Contents /\ <<total[p], Meta>> \in Contents
           /\ <<total[p], at[p]>> # NoFile /\ <<total[p], at[p]>> # Empty
           /\ <<total[p], Meta>> # Empty /\ <<total[p], Meta>> # NoFile
<1>1. total[p] \in Totals /\ at[p] \in 0..(total[p] - 1)
  BY DEF StagingInv, InvWorking
<1>2. QED
  BY <1>1, ChunkIsName

------------------------------------------------------------------------

-----------------------------------------------------------------------------
\* The type invariant in two halves: the variables of the requests and the sweeper,
\* and the others.
LocalTyped ==
    /\ pc \in [Actors -> Labels]
    /\ total \in [Requests -> Totals \cup {0}]
    /\ at \in [Requests -> Nat]
    /\ got \in [Requests -> Seq(Contents)]
    /\ listed \in [Actors -> SUBSET Names]

FileTyped ==
    /\ dirAge \in Age
    /\ files \in [Names -> Contents]
    /\ object \in Seq(Contents)
    /\ faulted \in BOOLEAN
    /\ requests \in 0..MaxRequests
    /\ crashes \in 0..MaxCrashes

\* A step of one actor: no other request moves, and this one, if it is a request, is at a
\* chunk of its count afterwards, or at the first.
OnlyMoves(a) ==
    /\ \A q \in Requests \ {a} : pc'[q] = pc[q] /\ total'[q] = total[q] /\ at'[q] = at[q]
    /\ a \in Requests =>
         /\ pc'[a] \in Working => total'[a] \in Totals /\ at'[a] \in 0..(total'[a] - 1)
         /\ pc'[a] = "idle" => at'[a] = 0
         /\ at'[a] = 0 \/ at'[a] \in 0..(total'[a] - 1)

\* A step of one actor: a file that it creates or truncates is one that it goes on to
\* fill, and a file that it was to fill is not left empty.
KeepsFiles(a) ==
    /\ faulted => faulted'
    /\ \A name \in Names : files'[name] # files[name] =>
         /\ files'[name] = Empty =>
              a \in Requests /\ \/ pc'[a] = "write" /\ at'[a] = name
                                \/ pc'[a] = "write_meta" /\ name = Meta
         /\ name # Meta => \E n \in Totals : name \in 0..(n - 1)
    /\ (a \in Requests /\ ~ faulted') =>
         /\ pc[a] = "write" => files'[at[a]] # Empty
         /\ pc[a] = "write_meta" => files'[Meta] # Empty

\* The invariant gives the two halves, and the label of a request.
LEMMA Typed ==
    ASSUME StagingInv
    PROVE  /\ LocalTyped /\ FileTyped
           /\ \A p \in Requests : at[p] = 0 \/ at[p] \in 0..(total[p] - 1)
           /\ Requests \subseteq Actors
BY DEF StagingInv, TypeOK, LocalTyped, FileTyped, Labels, Actors

\* Any step of one actor that is described so keeps the invariant.
LEMMA StepKeeps ==
    ASSUME StagingInv, NEW a \in Actors, LocalTyped', FileTyped', OnlyMoves(a), KeepsFiles(a)
    PROVE  StagingInv'
<1>0. LocalTyped /\ FileTyped /\ Requests \subseteq Actors
  BY Typed
<1>1. \A p \in Requests : at'[p] = 0 \/ at'[p] \in 0..(total'[p] - 1)
  BY DEF StagingInv, TypeOK, OnlyMoves
<1>2. TypeOK'
  BY <1>1 DEF TypeOK, LocalTyped, FileTyped, Labels
<1>3. InvWorking'
  BY DEF StagingInv, InvWorking, OnlyMoves
<1>4. InvIdle'
  BY DEF StagingInv, InvIdle, OnlyMoves
<1>5. InvStaged'
  BY DEF StagingInv, InvStaged, KeepsFiles
<1>6. TornOnlyWhileWriting'
  <2>1. SUFFICES ASSUME ~ faulted', NEW name \in Names, files'[name] = Empty
                 PROVE  \E p \in Requests : \/ pc'[p] = "write" /\ at'[p] = name
                                            \/ pc'[p] = "write_meta" /\ name = Meta
    BY DEF TornOnlyWhileWriting
  <2>2. CASE files'[name] # files[name]
    BY <2>1, <2>2 DEF KeepsFiles
  <2>3. CASE files'[name] = files[name]
    <3>1. ~ faulted
      BY <2>1 DEF KeepsFiles
    <3>2. PICK p \in Requests : \/ pc[p] = "write" /\ at[p] = name
                                \/ pc[p] = "write_meta" /\ name = Meta
      BY <2>1, <2>3, <3>1 DEF StagingInv, TornOnlyWhileWriting
    <3>3. p # a
      BY <2>1, <3>2 DEF KeepsFiles
    <3>4. QED
      BY <3>2, <3>3 DEF OnlyMoves
  <2>4. QED
    BY <2>2, <2>3
<1>7. QED
  BY <1>2, <1>3, <1>4, <1>5, <1>6 DEF StagingInv

\* The end of a request, whatever it was at.
LEMMA RespondMoves ==
    ASSUME StagingInv, NEW p \in Requests, Respond(p)
    PROVE  LocalTyped' /\ OnlyMoves(p)
<1>0. LocalTyped /\ p \in Actors /\ Requests \subseteq Actors
  BY Typed
<1>1. /\ pc'[p] = "idle" /\ at'[p] = 0
      /\ \A q \in Requests \ {p} : pc'[q] = pc[q] /\ total'[q] = total[q] /\ at'[q] = at[q]
  BY <1>0 DEF LocalTyped, Respond, Goto
<1>2. LocalTyped'
  BY <1>0 DEF LocalTyped, Respond, Goto, Labels
<1>3. QED
  BY <1>1, <1>2 DEF OnlyMoves, Working

\* A step that leaves the files alone, of an actor that was not about to fill one.
LEMMA SameFiles ==
    ASSUME StagingInv, NEW a, files' = files, faulted' = faulted,
           a \in Requests => pc[a] \notin {"write", "write_meta"}
    PROVE  KeepsFiles(a)
BY DEF KeepsFiles

-----------------------------------------------------------------------------
\* api/chunked.go:51-103: a chunk request arrives.
LEMMA UploadChunkKeeps ==
    ASSUME StagingInv, NEW p \in Requests, NEW n \in Totals, NEW i \in Indices,
           UploadChunk(p, n, i)
    PROVE  StagingInv'
<1>0. LocalTyped /\ FileTyped /\ p \in Actors /\ Requests \subseteq Actors
  BY Typed
<1>1. n \in Nat \ {0} /\ i \in 0..(n - 1)
  <2>1. \A m \in Totals : m \in Nat
    BY StagingAssumption
  <2>2. i \in Nat
    BY <2>1 DEF Indices
  <2>3. QED
    BY <2>1, <2>2 DEF UploadChunk, ChunkInRange
<1>2. LocalTyped'
  BY <1>0, <1>1 DEF LocalTyped, Labels, UploadChunk, Goto
<1>3. FileTyped'
  <2>1. dirAge' \in Age
    BY <1>0, StagingAssumption DEF FileTyped, UploadChunk, Age
  <2>2. requests' \in 0..MaxRequests
    BY <1>0, StagingAssumption DEF FileTyped, UploadChunk, Arrive
  <2>3. QED
    BY <1>0, <2>1, <2>2 DEF FileTyped, UploadChunk
<1>4. OnlyMoves(p)
  BY <1>0, <1>1 DEF LocalTyped, OnlyMoves, UploadChunk, Goto
<1>5. KeepsFiles(p)
  BY SameFiles DEF UploadChunk, Arrive
<1>6. QED
  BY <1>0, <1>2, <1>3, <1>4, <1>5, StepKeeps

\* api/chunked.go:100-108: the body does not come.
LEMMA BodyFailsKeeps ==
    ASSUME StagingInv, NEW p \in Requests, BodyFails(p)
    PROVE  StagingInv'
<1>0. LocalTyped /\ FileTyped /\ p \in Actors /\ Requests \subseteq Actors
  BY Typed
<1>1. LocalTyped' /\ OnlyMoves(p)
  BY RespondMoves DEF BodyFails
<1>2. FileTyped'
  BY <1>0 DEF FileTyped, BodyFails
<1>3. KeepsFiles(p)
  BY SameFiles DEF BodyFails
<1>4. QED
  BY <1>0, <1>1, <1>2, <1>3, StepKeeps

\* api/chunked.go:110: the chunk file is created or truncated.
LEMMA OpenChunkKeeps ==
    ASSUME StagingInv, NEW p \in Requests, OpenChunk(p)
    PROVE  StagingInv'
<1>0. LocalTyped /\ FileTyped /\ p \in Actors /\ Requests \subseteq Actors
  BY Typed
<1>a. /\ total[p] \in Totals /\ at[p] \in 0..(total[p] - 1)
      /\ total[p] \in Nat \ {0} /\ at[p] \in Nat /\ at[p] < total[p]
      /\ at[p] \in Names /\ at[p] # Meta /\ Meta \in Names
      /\ <<total[p], at[p]>> \in Contents /\ <<total[p], Meta>> \in Contents
      /\ <<total[p], at[p]>> # NoFile /\ <<total[p], at[p]>> # Empty
      /\ <<total[p], Meta>> # Empty /\ <<total[p], Meta>> # NoFile
  BY AtWork DEF Working, Labels, OpenChunk
<1>1. CASE Open(at[p]) /\ Goto(p, "write") /\ UNCHANGED <<total, at, got, listed>>
  <2>1. LocalTyped'
    BY <1>0, <1>1 DEF LocalTyped, Labels, Goto
  <2>2. files' \in [Names -> Contents] /\ dirAge' \in Age
    <3>1. Empty \in Contents /\ 0 \in Age
      BY StagingAssumption DEF Contents, Age
    <3>2. QED
      BY <1>0, <1>a, <1>1, <3>1 DEF FileTyped, Open
  <2>3. FileTyped'
    BY <1>0, <2>2 DEF FileTyped, OpenChunk
  <2>4. OnlyMoves(p)
    BY <1>0, <1>a, <1>1 DEF LocalTyped, OnlyMoves, Goto
  <2>5. KeepsFiles(p)
    <3>1. /\ pc[p] = "body" /\ pc'[p] = "write" /\ at'[p] = at[p] /\ faulted' = faulted
          /\ \A name \in Names : files'[name] # files[name] => name = at[p]
      BY <1>0, <1>1 DEF LocalTyped, FileTyped, Open, Goto, OpenChunk
    <3>2. QED
      BY <1>a, <3>1 DEF KeepsFiles
  <2>6. QED
    BY <1>0, <2>1, <2>3, <2>4, <2>5, StepKeeps
<1>2. CASE Respond(p) /\ UNCHANGED <<dirAge, files>>
  <2>1. LocalTyped' /\ OnlyMoves(p)
    BY <1>2, RespondMoves
  <2>2. FileTyped'
    BY <1>0, <1>2 DEF FileTyped, OpenChunk
  <2>3. KeepsFiles(p)
    BY <1>2, SameFiles DEF OpenChunk
  <2>4. QED
    BY <1>0, <2>1, <2>2, <2>3, StepKeeps
<1>3. QED
  BY <1>1, <1>2 DEF OpenChunk

\* api/chunked.go:110-113: the chunk is written.
LEMMA WriteChunkKeeps ==
    ASSUME StagingInv, NEW p \in Requests, WriteChunk(p)
    PROVE  StagingInv'
<1>0. LocalTyped /\ FileTyped /\ p \in Actors /\ Requests \subseteq Actors
  BY Typed
<1>a. /\ total[p] \in Totals /\ at[p] \in 0..(total[p] - 1)
      /\ total[p] \in Nat \ {0} /\ at[p] \in Nat /\ at[p] < total[p]
      /\ at[p] \in Names /\ at[p] # Meta /\ Meta \in Names
      /\ <<total[p], at[p]>> \in Contents /\ <<total[p], Meta>> \in Contents
      /\ <<total[p], at[p]>> # NoFile /\ <<total[p], at[p]>> # Empty
      /\ <<total[p], Meta>> # Empty /\ <<total[p], Meta>> # NoFile
  BY AtWork DEF Working, Labels, WriteChunk
<1>1. CASE /\ files' = IF pc[p] = "write" THEN [files EXCEPT ![at[p]] = <<total[p], at[p]>>]
                     ELSE files
           /\ Goto(p, "meta")
           /\ UNCHANGED <<total, at, got, listed, faulted>>
  <2>1. LocalTyped'
    BY <1>0, <1>1 DEF LocalTyped, Labels, Goto
  <2>2. OnlyMoves(p)
    BY <1>0, <1>a, <1>1 DEF LocalTyped, OnlyMoves, Goto
  <2>3. files' \in [Names -> Contents]
    BY <1>0, <1>a, <1>1 DEF FileTyped
  <2>4. FileTyped'
    BY <1>0, <1>1, <2>3 DEF FileTyped, WriteChunk
  <2>5. KeepsFiles(p)
    <3>1. /\ pc[p] \in {"write", "write_lost"} /\ faulted' = faulted
          /\ \A name \in Names : files'[name] # files[name] => name = at[p] /\ files'[name] # Empty
          /\ pc[p] = "write" => files'[at[p]] # Empty
      BY <1>0, <1>a, <1>1 DEF FileTyped, WriteChunk
    <3>2. QED
      BY <1>a, <3>1 DEF KeepsFiles
  <2>6. QED
    BY <1>0, <2>1, <2>2, <2>4, <2>5, StepKeeps
<1>2. CASE Respond(p) /\ faulted' = TRUE /\ UNCHANGED files
  <2>1. LocalTyped' /\ OnlyMoves(p)
    BY <1>2, RespondMoves
  <2>2. FileTyped'
    BY <1>0, <1>2 DEF FileTyped, WriteChunk
  <2>3. KeepsFiles(p)
    BY <1>2 DEF KeepsFiles
  <2>4. QED
    BY <1>0, <2>1, <2>2, <2>3, StepKeeps
<1>3. QED
  BY <1>1, <1>2 DEF WriteChunk

\* api/chunked.go:115: the meta file is created or truncated.
LEMMA OpenMetaKeeps ==
    ASSUME StagingInv, NEW p \in Requests, OpenMeta(p)
    PROVE  StagingInv'
<1>0. LocalTyped /\ FileTyped /\ p \in Actors /\ Requests \subseteq Actors
  BY Typed
<1>a. /\ total[p] \in Totals /\ at[p] \in 0..(total[p] - 1)
      /\ total[p] \in Nat \ {0} /\ at[p] \in Nat /\ at[p] < total[p]
      /\ at[p] \in Names /\ at[p] # Meta /\ Meta \in Names
      /\ <<total[p], at[p]>> \in Contents /\ <<total[p], Meta>> \in Contents
      /\ <<total[p], at[p]>> # NoFile /\ <<total[p], at[p]>> # Empty
      /\ <<total[p], Meta>> # Empty /\ <<total[p], Meta>> # NoFile
  BY AtWork DEF Working, Labels, OpenMeta
<1>1. CASE Open(Meta) /\ Goto(p, "write_meta") /\ UNCHANGED <<total, at, got, listed>>
  <2>1. LocalTyped'
    BY <1>0, <1>1 DEF LocalTyped, Labels, Goto
  <2>2. files' \in [Names -> Contents] /\ dirAge' \in Age
    <3>1. Empty \in Contents /\ 0 \in Age
      BY StagingAssumption DEF Contents, Age
    <3>2. QED
      BY <1>0, <1>a, <1>1, <3>1 DEF FileTyped, Open
  <2>3. FileTyped'
    BY <1>0, <2>2 DEF FileTyped, OpenMeta
  <2>4. OnlyMoves(p)
    BY <1>0, <1>a, <1>1 DEF LocalTyped, OnlyMoves, Goto
  <2>5. KeepsFiles(p)
    <3>1. /\ pc[p] = "meta" /\ pc'[p] = "write_meta" /\ at'[p] = at[p] /\ faulted' = faulted
          /\ \A name \in Names : files'[name] # files[name] => name = Meta
      BY <1>0, <1>1 DEF LocalTyped, FileTyped, Open, Goto, OpenMeta
    <3>2. QED
      BY <1>a, <3>1 DEF KeepsFiles
  <2>6. QED
    BY <1>0, <2>1, <2>3, <2>4, <2>5, StepKeeps
<1>2. CASE Respond(p) /\ UNCHANGED <<dirAge, files>>
  <2>1. LocalTyped' /\ OnlyMoves(p)
    BY <1>2, RespondMoves
  <2>2. FileTyped'
    BY <1>0, <1>2 DEF FileTyped, OpenMeta
  <2>3. KeepsFiles(p)
    BY <1>2, SameFiles DEF OpenMeta
  <2>4. QED
    BY <1>0, <2>1, <2>2, <2>3, StepKeeps
<1>3. QED
  BY <1>1, <1>2 DEF OpenMeta

\* api/chunked.go:115-121: the meta file is written.
LEMMA WriteMetaKeeps ==
    ASSUME StagingInv, NEW p \in Requests, WriteMeta(p)
    PROVE  StagingInv'
<1>0. LocalTyped /\ FileTyped /\ p \in Actors /\ Requests \subseteq Actors
  BY Typed
<1>a. /\ total[p] \in Totals /\ at[p] \in 0..(total[p] - 1)
      /\ total[p] \in Nat \ {0} /\ at[p] \in Nat /\ at[p] < total[p]
      /\ at[p] \in Names /\ at[p] # Meta /\ Meta \in Names
      /\ <<total[p], at[p]>> \in Contents /\ <<total[p], Meta>> \in Contents
      /\ <<total[p], at[p]>> # NoFile /\ <<total[p], at[p]>> # Empty
      /\ <<total[p], Meta>> # Empty /\ <<total[p], Meta>> # NoFile
  BY AtWork DEF Working, Labels, WriteMeta
<1>0a. LocalTyped' /\ OnlyMoves(p)
  BY RespondMoves DEF WriteMeta
<1>1. CASE /\ files' = IF pc[p] = "write_meta" THEN [files EXCEPT ![Meta] = <<total[p], Meta>>]
                     ELSE files
           /\ UNCHANGED faulted
  <2>1. LocalTyped'
    BY <1>0a
  <2>2. OnlyMoves(p)
    BY <1>0a
  <2>3. files' \in [Names -> Contents]
    BY <1>0, <1>a, <1>1 DEF FileTyped
  <2>4. FileTyped'
    BY <1>0, <1>1, <2>3 DEF FileTyped, WriteMeta
  <2>5. KeepsFiles(p)
    <3>1. /\ pc[p] \in {"write_meta", "write_meta_lost"} /\ faulted' = faulted
          /\ \A name \in Names : files'[name] # files[name] => name = Meta /\ files'[name] # Empty
          /\ pc[p] = "write_meta" => files'[Meta] # Empty
      BY <1>0, <1>a, <1>1 DEF FileTyped, WriteMeta
    <3>2. QED
      BY <1>a, <3>1 DEF KeepsFiles
  <2>6. QED
    BY <1>0, <2>1, <2>2, <2>4, <2>5, StepKeeps
<1>2. CASE faulted' = TRUE /\ UNCHANGED files
  <2>1. FileTyped'
    BY <1>0, <1>2 DEF FileTyped, WriteMeta
  <2>2. KeepsFiles(p)
    BY <1>2 DEF KeepsFiles
  <2>3. QED
    BY <1>0, <1>0a, <2>1, <2>2, StepKeeps
<1>3. QED
  BY <1>1, <1>2 DEF WriteMeta

\* api/chunked.go:136-178: a finalize request reads the chunk count.
LEMMA UploadFinalizeKeeps ==
    ASSUME StagingInv, NEW p \in Requests, NEW contracted \in BOOLEAN,
           UploadFinalize(p, contracted)
    PROVE  StagingInv'
<1>0. LocalTyped /\ FileTyped /\ p \in Actors /\ Requests \subseteq Actors
  BY Typed
<1>1. FileTyped'
  <2>1. requests' \in 0..MaxRequests
    BY <1>0, StagingAssumption DEF FileTyped, UploadFinalize, Arrive
  <2>2. QED
    BY <1>0, <2>1 DEF FileTyped, UploadFinalize
<1>2. KeepsFiles(p)
  BY SameFiles DEF UploadFinalize, Arrive
<1>3. at[p] = 0 /\ at' = at
  BY DEF StagingInv, InvIdle, UploadFinalize, Arrive
<1>4. CASE BeginRemoveAll(p) /\ UNCHANGED total
  <2>1. LocalTyped'
    BY <1>0, <1>4 DEF LocalTyped, Labels, BeginRemoveAll, Goto, UploadFinalize
  <2>2. OnlyMoves(p)
    BY <1>0, <1>3, <1>4 DEF LocalTyped, OnlyMoves, Working, BeginRemoveAll, Goto
  <2>3. QED
    BY <1>0, <1>1, <1>2, <2>1, <2>2, StepKeeps
<1>5. CASE /\ files[Meta] \notin {NoFile, Empty}
           /\ total' = [total EXCEPT ![p] = files[Meta][1]]
           /\ Goto(p, "stat")
           /\ UNCHANGED listed
  <2>1. files[Meta][1] \in Totals
    <3>1. files[Meta] \in Contents
      BY <1>0 DEF FileTyped, Names
    <3>2. PICK n \in Totals, name \in Names : files[Meta] = <<n, name>>
      BY <1>5, <3>1 DEF Contents
    <3>3. QED
      BY <3>2
  <2>2. files[Meta][1] \in Nat \ {0}
    BY <2>1, StagingAssumption
  <2>3. LocalTyped'
    BY <1>0, <1>5, <2>1 DEF LocalTyped, Labels, Goto, UploadFinalize
  <2>4. OnlyMoves(p)
    <3>1. total'[p] = files[Meta][1] /\ at'[p] = 0 /\ pc'[p] = "stat"
      BY <1>0, <1>3, <1>5 DEF LocalTyped, Goto
    <3>2. 0 \in 0..(files[Meta][1] - 1)
      BY <2>2
    <3>3. QED
      BY <1>0, <1>3, <1>5, <2>1, <3>1, <3>2 DEF LocalTyped, OnlyMoves, Goto
  <2>5. QED
    BY <1>0, <1>1, <1>2, <2>3, <2>4, StepKeeps
<1>6. QED
  BY <1>4, <1>5 DEF UploadFinalize

\* One round of a loop over the chunks.
LEMMA AdvanceMoves ==
    ASSUME StagingInv, NEW p \in Requests, pc[p] \in Working, NEW loop \in Working,
           NEW label \in Working, Advance(p, loop, label), total' = total, listed' = listed,
           got' \in [Requests -> Seq(Contents)]
    PROVE  LocalTyped' /\ OnlyMoves(p)
<1>0. LocalTyped /\ p \in Actors /\ Requests \subseteq Actors
  BY Typed
<1>1. /\ total[p] \in Totals /\ at[p] \in 0..(total[p] - 1)
      /\ total[p] \in Nat \ {0} /\ at[p] \in Nat
  BY AtWork
<1>2. CASE at[p] + 1 < total[p]
  <2>1. at' = [at EXCEPT ![p] = at[p] + 1] /\ pc' = [pc EXCEPT ![p] = loop]
    BY <1>2 DEF Advance, Goto
  <2>2. LocalTyped'
    BY <1>0, <1>1, <2>1 DEF LocalTyped, Working
  <2>3. QED
    BY <1>0, <1>1, <1>2, <2>1, <2>2 DEF LocalTyped, OnlyMoves, Working
<1>3. CASE ~ (at[p] + 1 < total[p])
  <2>1. at' = [at EXCEPT ![p] = 0] /\ pc' = [pc EXCEPT ![p] = label]
    BY <1>3 DEF Advance, Goto
  <2>2. LocalTyped'
    BY <1>0, <1>1, <2>1 DEF LocalTyped, Working
  <2>3. QED
    BY <1>0, <1>1, <2>1, <2>2 DEF LocalTyped, OnlyMoves, Working
<1>4. QED
  BY <1>2, <1>3

\* api/chunked.go:179-187: the check for missing chunks.
LEMMA StatChunkKeeps ==
    ASSUME StagingInv, NEW p \in Requests, StatChunk(p)
    PROVE  StagingInv'
<1>0. LocalTyped /\ FileTyped /\ p \in Actors /\ Requests \subseteq Actors
  BY Typed
<1>1. FileTyped'
  BY <1>0 DEF FileTyped, StatChunk
<1>2. KeepsFiles(p)
  BY SameFiles DEF StatChunk
<1>3. CASE Respond(p)
  BY <1>0, <1>1, <1>2, <1>3, RespondMoves, StepKeeps
<1>4. CASE Advance(p, "stat", "read") /\ UNCHANGED <<total, got, listed>>
  <2>1. /\ pc[p] \in Working /\ "stat" \in Working /\ "read" \in Working
        /\ got' \in [Requests -> Seq(Contents)]
    BY <1>0, <1>4 DEF StatChunk, Working, Labels, LocalTyped
  <2>2. LocalTyped' /\ OnlyMoves(p)
    BY <1>4, <2>1, AdvanceMoves
  <2>3. QED
    BY <1>0, <1>1, <1>2, <2>2, StepKeeps
<1>5. QED
  BY <1>3, <1>4 DEF StatChunk

\* api/chunked.go:255-284: the chunks are read in order.
LEMMA ReadChunkKeeps ==
    ASSUME StagingInv, NEW p \in Requests, ReadChunk(p)
    PROVE  StagingInv'
<1>0. LocalTyped /\ FileTyped /\ p \in Actors /\ Requests \subseteq Actors
  BY Typed
<1>1. FileTyped'
  BY <1>0 DEF FileTyped, ReadChunk
<1>2. KeepsFiles(p)
  BY SameFiles DEF ReadChunk
<1>3. CASE Respond(p)
  BY <1>0, <1>1, <1>2, <1>3, RespondMoves, StepKeeps
<1>4. CASE /\ got' = [got EXCEPT ![p] = IF files[at[p]] = Empty THEN @
                                      ELSE Append(@, files[at[p]])]
           /\ Advance(p, "read", "assembled")
           /\ UNCHANGED <<total, listed>>
  <2>1. pc[p] \in Working /\ "read" \in Working /\ "assembled" \in Working
    BY DEF ReadChunk, Working, Labels
  <2>2. got' \in [Requests -> Seq(Contents)]
    <3>1. files[at[p]] \in Contents
      BY <1>0, <2>1, AtWork DEF FileTyped
    <3>2. QED
      BY <1>0, <1>4, <3>1 DEF LocalTyped
  <2>3. LocalTyped' /\ OnlyMoves(p)
    BY <1>4, <2>1, <2>2, AdvanceMoves
  <2>4. QED
    BY <1>0, <1>1, <1>2, <2>3, StepKeeps
<1>5. QED
  BY <1>3, <1>4 DEF ReadChunk

\* api/chunked.go:189-246: the verdict on the assembled bytes.
LEMMA FinishFinalizeKeeps ==
    ASSUME StagingInv, NEW p \in Requests, FinishFinalize(p)
    PROVE  StagingInv'
<1>0. LocalTyped /\ FileTyped /\ p \in Actors /\ Requests \subseteq Actors
  BY Typed
<1>1. FileTyped'
  <2>1. object' \in Seq(Contents)
    BY <1>0 DEF LocalTyped, FileTyped, FinishFinalize
  <2>2. QED
    BY <1>0, <2>1 DEF FileTyped, FinishFinalize
<1>2. KeepsFiles(p)
  BY SameFiles DEF FinishFinalize
<1>3. CASE Respond(p)
  BY <1>0, <1>1, <1>2, <1>3, RespondMoves, StepKeeps
<1>4. CASE BeginRemoveAll(p) /\ UNCHANGED <<total, at, got>>
  <2>1. LocalTyped'
    BY <1>0, <1>4 DEF LocalTyped, Labels, BeginRemoveAll, Goto
  <2>2. at[p] = 0 \/ at[p] \in 0..(total[p] - 1)
    BY Typed
  <2>3. OnlyMoves(p)
    BY <1>0, <1>4, <2>2 DEF LocalTyped, OnlyMoves, Working, BeginRemoveAll, Goto
  <2>4. QED
    BY <1>0, <1>1, <1>2, <2>1, <2>3, StepKeeps
<1>5. QED
  BY <1>3, <1>4 DEF FinishFinalize

\* store/store.go:640-653: the sweeper finds a stale directory.
LEMMA SweepStaleStagingKeeps ==
    ASSUME StagingInv, SweepStaleStaging
    PROVE  StagingInv'
<1>0. LocalTyped /\ FileTyped /\ Requests \subseteq Actors
  BY Typed
<1>1. Sweeper \in Actors /\ Sweeper \notin Requests
  BY StagingAssumption DEF Actors
<1>2. LocalTyped'
  BY <1>0, <1>1 DEF LocalTyped, Labels, SweepStaleStaging, BeginRemoveAll, Goto
<1>3. FileTyped'
  BY <1>0 DEF FileTyped, SweepStaleStaging
<1>4. OnlyMoves(Sweeper)
  BY <1>0, <1>1 DEF LocalTyped, OnlyMoves, SweepStaleStaging, BeginRemoveAll, Goto
<1>5. KeepsFiles(Sweeper)
  BY <1>1, SameFiles DEF SweepStaleStaging
<1>6. QED
  BY <1>1, <1>2, <1>3, <1>4, <1>5, StepKeeps

\* RemoveAll lists the directory.
LEMMA ListDirKeeps ==
    ASSUME StagingInv, NEW a \in Actors, ListDir(a)
    PROVE  StagingInv'
<1>0. LocalTyped /\ FileTyped /\ Requests \subseteq Actors
  BY Typed
<1>1. LocalTyped'
  <2>1. Present \in SUBSET Names
    BY DEF Present
  <2>2. QED
    BY <1>0, <2>1 DEF LocalTyped, Labels, ListDir, Goto
<1>2. FileTyped'
  BY <1>0 DEF FileTyped, ListDir
<1>3. OnlyMoves(a)
  <2>1. a \in Requests => at[a] = 0 \/ at[a] \in 0..(total[a] - 1)
    BY Typed
  <2>2. QED
    BY <1>0, <2>1 DEF LocalTyped, OnlyMoves, Working, ListDir, Goto
<1>4. KeepsFiles(a)
  BY SameFiles DEF ListDir
<1>5. QED
  BY <1>1, <1>2, <1>3, <1>4, StepKeeps

\* The end of a removal, be it of a request or of the sweeper.
LEMMA EndRemoveAllMoves ==
    ASSUME StagingInv, NEW a \in Actors, EndRemoveAll(a)
    PROVE  LocalTyped' /\ OnlyMoves(a)
<1>0. LocalTyped /\ Requests \subseteq Actors
  BY Typed
<1>1. CASE /\ a \in Requests
           /\ total' = [total EXCEPT ![a] = 0]
           /\ at' = [at EXCEPT ![a] = 0]
           /\ got' = [got EXCEPT ![a] = <<>>]
  <2>1. LocalTyped'
    BY <1>0, <1>1 DEF LocalTyped, Labels, EndRemoveAll, Goto
  <2>2. OnlyMoves(a)
    BY <1>0, <1>1 DEF LocalTyped, OnlyMoves, Working, EndRemoveAll, Goto
  <2>3. QED
    BY <2>1, <2>2
<1>2. CASE a = Sweeper /\ UNCHANGED <<total, at, got>>
  <2>1. LocalTyped'
    BY <1>0, <1>2 DEF LocalTyped, Labels, EndRemoveAll, Goto
  <2>2. a \notin Requests
    BY <1>2, StagingAssumption
  <2>3. OnlyMoves(a)
    BY <1>0, <1>2, <2>2 DEF LocalTyped, OnlyMoves, EndRemoveAll, Goto
  <2>4. QED
    BY <2>1, <2>3
<1>3. QED
  BY <1>1, <1>2 DEF EndRemoveAll

\* RemoveAll removes the directory.
LEMMA RemoveDirKeeps ==
    ASSUME StagingInv, NEW a \in Actors, RemoveDir(a)
    PROVE  StagingInv'
<1>0. LocalTyped /\ FileTyped /\ Requests \subseteq Actors
  BY Typed
<1>1. LocalTyped' /\ OnlyMoves(a)
  BY EndRemoveAllMoves DEF RemoveDir
<1>2. FileTyped'
  BY <1>0 DEF FileTyped, RemoveDir, Age
<1>3. KeepsFiles(a)
  BY SameFiles DEF RemoveDir
<1>4. QED
  BY <1>1, <1>2, <1>3, StepKeeps

\* RemoveAll gives up.
LEMMA RemoveAllFailsKeeps ==
    ASSUME StagingInv, NEW a \in Actors, RemoveAllFails(a)
    PROVE  StagingInv'
<1>0. LocalTyped /\ FileTyped /\ Requests \subseteq Actors
  BY Typed
<1>1. LocalTyped' /\ OnlyMoves(a)
  BY EndRemoveAllMoves DEF RemoveAllFails
<1>2. FileTyped'
  BY <1>0 DEF FileTyped, RemoveAllFails
<1>3. KeepsFiles(a)
  BY SameFiles DEF RemoveAllFails
<1>4. QED
  BY <1>1, <1>2, <1>3, StepKeeps

\* RemoveAll unlinks a file, perhaps under its writer, whose write then leaves no trace.
LEMMA UnlinkKeeps ==
    ASSUME StagingInv, NEW a \in Actors, NEW name \in Names, Unlink(a, name)
    PROVE  StagingInv'
<1>0. LocalTyped /\ FileTyped /\ Requests \subseteq Actors
  BY Typed
<1>1. \A q \in Requests :
        pc'[q] = IF pc[q] = "write" /\ at[q] = name THEN "write_lost"
                 ELSE IF pc[q] = "write_meta" /\ name = Meta THEN "write_meta_lost"
                 ELSE pc[q]
  BY <1>0 DEF Unlink
<1>2. LocalTyped'
  <2>1. pc' \in [Actors -> Labels]
    BY <1>0 DEF LocalTyped, Labels, Unlink
  <2>2. listed' \in [Actors -> SUBSET Names]
    BY <1>0 DEF LocalTyped, Unlink
  <2>3. QED
    BY <1>0, <2>1, <2>2 DEF LocalTyped, Unlink
<1>3. /\ files' \in [Names -> Contents] /\ files'[name] = NoFile
      /\ \A other \in Names \ {name} : files'[other] = files[other]
  <2>1. NoFile \in Contents
    BY DEF Contents
  <2>2. QED
    BY <1>0, <2>1 DEF FileTyped, Unlink
<1>4. FileTyped'
  <2>1. dirAge' \in Age
    BY <1>0, StagingAssumption DEF FileTyped, Unlink, Age
  <2>2. QED
    BY <1>0, <1>3, <2>1 DEF FileTyped, Unlink
<1>5. at' = at /\ total' = total /\ faulted' = faulted
  BY DEF Unlink
<1>6. TypeOK'
  <2>1. \A p \in Requests : at'[p] = 0 \/ at'[p] \in 0..(total'[p] - 1)
    BY <1>5, Typed
  <2>2. QED
    BY <1>2, <1>4, <2>1 DEF TypeOK, LocalTyped, FileTyped, Labels
<1>7. InvWorking'
  BY <1>1, <1>5 DEF StagingInv, InvWorking, Working, Labels
<1>8. InvIdle'
  BY <1>1, <1>5 DEF StagingInv, InvIdle
<1>9. InvStaged'
  BY <1>3 DEF StagingInv, InvStaged
<1>10. TornOnlyWhileWriting'
  <2>1. SUFFICES ASSUME ~ faulted', NEW other \in Names, files'[other] = Empty
                 PROVE  \E p \in Requests : \/ pc'[p] = "write" /\ at'[p] = other
                                            \/ pc'[p] = "write_meta" /\ other = Meta
    BY DEF TornOnlyWhileWriting
  <2>2. other # name /\ files[other] = Empty
    BY <1>3, <2>1 DEF NoFile, Empty
  <2>3. PICK p \in Requests : \/ pc[p] = "write" /\ at[p] = other
                              \/ pc[p] = "write_meta" /\ other = Meta
    BY <1>5, <2>1, <2>2 DEF StagingInv, TornOnlyWhileWriting
  <2>4. QED
    BY <1>1, <1>5, <2>2, <2>3
<1>11. QED
  BY <1>6, <1>7, <1>8, <1>9, <1>10 DEF StagingInv

\* Time passes.
LEMMA TickKeeps ==
    ASSUME StagingInv, Tick
    PROVE  StagingInv'
<1>0. LocalTyped /\ FileTyped /\ Requests \subseteq Actors
  BY Typed
<1>1. dirAge' \in Age
  BY <1>0, StagingAssumption DEF FileTyped, Tick, Older, Age, Absent
<1>2. TypeOK'
  BY <1>1 DEF StagingInv, TypeOK, Tick, localVars
<1>3. TornOnlyWhileWriting' /\ InvWorking' /\ InvIdle' /\ InvStaged'
  BY DEF StagingInv, TornOnlyWhileWriting, InvWorking, InvIdle, InvStaged, Tick, localVars
<1>4. QED
  BY <1>2, <1>3 DEF StagingInv

\* A crash loses the requests and leaves the files, torn ones too.
LEMMA CrashKeeps ==
    ASSUME StagingInv, Crash
    PROVE  StagingInv'
<1>0. LocalTyped /\ FileTyped /\ Requests \subseteq Actors
  BY Typed
<1>1. LocalTyped'
  BY DEF LocalTyped, Labels, Crash, Idle
<1>2. FileTyped'
  <2>1. crashes' \in 0..MaxCrashes
    BY <1>0, StagingAssumption DEF FileTyped, Crash
  <2>2. faulted' \in BOOLEAN
    BY DEF Crash
  <2>3. QED
    BY <1>0, <2>1, <2>2 DEF FileTyped, Crash
<1>3. \A p \in Requests : pc'[p] = "idle" /\ at'[p] = 0
  BY <1>0 DEF Crash, Idle
<1>4. TypeOK'
  BY <1>1, <1>2, <1>3 DEF TypeOK, LocalTyped, FileTyped, Labels
<1>5. TornOnlyWhileWriting' /\ InvStaged'
  BY DEF StagingInv, TornOnlyWhileWriting, InvStaged, Crash
<1>6. InvWorking' /\ InvIdle'
  BY <1>3 DEF InvWorking, InvIdle, Working
<1>7. QED
  BY <1>4, <1>5, <1>6 DEF StagingInv

-----------------------------------------------------------------------------
\* The initial state satisfies the invariant.
LEMMA StagingInit == Init => StagingInv
<1> SUFFICES ASSUME Init PROVE StagingInv
  OBVIOUS
<1>1. TypeOK
  <2>1. NoFile \in Contents
    BY DEF Contents
  <2>2. LocalTyped
    BY DEF Init, LocalTyped, Labels
  <2>3. FileTyped
    <3>1. files \in [Names -> Contents] /\ object \in Seq(Contents)
      BY <2>1 DEF Init
    <3>2. dirAge \in Age /\ requests \in 0..MaxRequests /\ crashes \in 0..MaxCrashes
      BY StagingAssumption DEF Init, Age
    <3>3. faulted \in BOOLEAN
      BY Zenon DEF Init
    <3>4. QED
      BY <3>1, <3>2, <3>3 DEF FileTyped
  <2>4. \A p \in Requests : at[p] = 0
    BY DEF Init
  <2>5. QED
    BY <2>2, <2>3, <2>4 DEF TypeOK, LocalTyped, FileTyped, Labels
<1>2. TornOnlyWhileWriting /\ InvStaged
  BY DEF Init, TornOnlyWhileWriting, InvStaged, NoFile, Empty
<1>3. InvWorking /\ InvIdle
  BY DEF Init, InvWorking, InvIdle, Working, Actors
<1>4. QED
  BY <1>1, <1>2, <1>3 DEF StagingInv

\* Every step keeps the invariant.
LEMMA StagingStep == StagingInv /\ [Next]_vars => StagingInv'
<1> SUFFICES ASSUME StagingInv, [Next]_vars PROVE StagingInv'
  OBVIOUS
<1>1. ASSUME NEW a \in Actors, RemoveAll(a) PROVE StagingInv'
  BY <1>1, ListDirKeeps, UnlinkKeeps, RemoveDirKeeps, RemoveAllFailsKeeps DEF RemoveAll
<1>2. ASSUME NEW p \in Requests, Serve(p) PROVE StagingInv'
  <2>1. CASE \E n \in Totals, i \in Indices : UploadChunk(p, n, i)
    BY <2>1, UploadChunkKeeps
  <2>2. CASE BodyFails(p)
    BY <2>2, BodyFailsKeeps
  <2>3. CASE OpenChunk(p)
    BY <2>3, OpenChunkKeeps
  <2>4. CASE WriteChunk(p)
    BY <2>4, WriteChunkKeeps
  <2>5. CASE OpenMeta(p)
    BY <2>5, OpenMetaKeeps
  <2>6. CASE WriteMeta(p)
    BY <2>6, WriteMetaKeeps
  <2>7. CASE \E contracted \in BOOLEAN : UploadFinalize(p, contracted)
    BY <2>7, UploadFinalizeKeeps
  <2>8. CASE StatChunk(p)
    BY <2>8, StatChunkKeeps
  <2>9. CASE ReadChunk(p)
    BY <2>9, ReadChunkKeeps
  <2>10. CASE FinishFinalize(p)
    BY <2>10, FinishFinalizeKeeps
  <2>11. CASE RemoveAll(p)
    <3>1. p \in Actors
      BY DEF Actors
    <3>2. QED
      BY <1>1, <2>11, <3>1
  <2>12. QED
    BY <1>2, <2>1, <2>2, <2>3, <2>4, <2>5, <2>6, <2>7, <2>8, <2>9, <2>10, <2>11 DEF Serve
<1>3. CASE Sweep
  <2>1. Sweeper \in Actors
    BY DEF Actors
  <2>2. QED
    BY <1>1, <1>3, <2>1, SweepStaleStagingKeeps DEF Sweep
<1>4. CASE Tick
  BY <1>4, TickKeeps
<1>5. CASE Crash
  BY <1>5, CrashKeeps
<1>6. CASE UNCHANGED vars
  <2>1. TypeOK' /\ TornOnlyWhileWriting'
    BY <1>6 DEF StagingInv, TypeOK, TornOnlyWhileWriting, vars, localVars
  <2>2. InvWorking' /\ InvIdle' /\ InvStaged'
    BY <1>6 DEF StagingInv, InvWorking, InvIdle, InvStaged, vars, localVars
  <2>3. QED
    BY <2>1, <2>2 DEF StagingInv
<1>7. QED
  BY <1>2, <1>3, <1>4, <1>5, <1>6 DEF Next

-----------------------------------------------------------------------------
\* The inductive invariant holds in every reachable state.
THEOREM StagingInvariant == Spec => []StagingInv
<1>1. QED
  BY StagingInit, StagingStep, PTL DEF Spec

\* The type invariant: no request works on an index outside its chunk count.
THEOREM StagingTypeCorrect == Spec => []TypeOK
<1>1. StagingInv => TypeOK
  BY DEF StagingInv
<1>2. QED
  BY <1>1, StagingInvariant, PTL

\* api/chunked.go:110-115, store/store.go:653: without a crash or a failed write, a
\* truncated file is one that a request is about to fill, whoever removes what.
THEOREM NoTornLeftovers == Spec => []TornOnlyWhileWriting
<1>1. StagingInv => TornOnlyWhileWriting
  BY DEF StagingInv
<1>2. QED
  BY <1>1, StagingInvariant, PTL

\* n names below n are all of them.
LEMMA AllStaged ==
    ASSUME NEW n \in Nat, NEW S, S \subseteq 0..(n - 1), Cardinality(S) = n
    PROVE  S = 0..(n - 1)
<1>1. IsFiniteSet(0..(n - 1)) /\ Cardinality(0..(n - 1)) = n
  <2>1. 0 \in Int /\ n - 1 \in Int
    OBVIOUS
  <2> DEFINE m == n - 1
  <2>2. (0 > m <=> n = 0) /\ m - 0 + 1 = n
    OBVIOUS
  <2> HIDE DEF m
  <2>3. IsFiniteSet(0..m) /\ Cardinality(0..m) = IF 0 > m THEN 0 ELSE m - 0 + 1
    BY <2>1, FS_Interval DEF m
  <2>4. Cardinality(0..m) = n
    BY <2>2, <2>3
  <2>5. QED
    BY <2>3, <2>4 DEF m
<1>2. QED
  BY <1>1, FS_Subset

\* api/chunked.go:301-340: if all clients cut the object into n chunks, a status of
\* "complete" means that a finalize finds every chunk.
THEOREM CompleteMeansFinalizable ==
    ASSUME NEW n, Totals = {n}
    PROVE  Spec => []CompleteIsFinalizable
<1>1. StagingInv => CompleteIsFinalizable
  <2>1. SUFFICES ASSUME StagingInv, Complete
                 PROVE  \A i \in 0..(files[Meta][1] - 1) : files[i] # NoFile
    BY DEF CompleteIsFinalizable
  <2>2. files \in [Names -> Contents] /\ Meta \in Names
    BY <2>1 DEF StagingInv, TypeOK, Names
  <2>3. files[Meta][1] = n
    <3>1. files[Meta] \in Contents /\ files[Meta] \notin {NoFile, Empty}
      BY <2>1, <2>2 DEF Complete
    <3>2. PICK m \in Totals, name \in Names : files[Meta] = <<m, name>>
      BY <3>1 DEF Contents
    <3>3. QED
      BY <3>2
  <2>4. Present \ {Meta} \subseteq 0..(n - 1)
    BY <2>1 DEF StagingInv, InvStaged, Present
  <2>5. n \in Nat
    BY StagingAssumption
  <2>6. Present \ {Meta} = 0..(n - 1)
    <3>1. Cardinality(Present \ {Meta}) = n
      BY <2>1, <2>3 DEF Complete
    <3>2. QED
      BY <2>4, <2>5, <3>1, AllStaged
  <2>7. QED
    BY <2>3, <2>6 DEF Present
<1>2. QED
  BY <1>1, StagingInvariant, PTL
=============================================================================
