------------------------- MODULE CatalogFiles_proof -------------------------
(***************************************************************************)
(* What the catalog files hold, for any number of refreshes of the service *)
(* and of the script, any crashes and any failed downloads.                *)
(***************************************************************************)
EXTENDS CatalogFiles, FiniteSetTheorems, TLAPS

-----------------------------------------------------------------------------
(* The inductive invariants.                                               *)

File(C) == [data : C \cup {Absent, Torn}, open : SUBSET Job, bytes : SUBSET (C \cup {Torn})]

Stage == {"new", "scan", "fetch", "body", "rename", "ask", "store", "storing",
          "note", "noting", "merge", "reread", "ok", "over"}
JobRecord == [stage : Stage, download : BOOLEAN, dump : Dump,
              frame : Frame \cup {Absent}, lone : BOOLEAN]

DiskType ==
    /\ disk = [n \in Name |-> disk[n]]
    /\ \A n \in Name : disk[n] \in File(Content(n)) /\ IsFiniteSet(disk[n].bytes)

\* Past its download or its questions, a job has a frame.
Framed(j) == job[j].stage \in {"store", "storing", "note", "noting", "merge", "reread", "ok"}

TypeInv ==
    /\ day \in Nat
    /\ DiskType
    /\ job \in [Job -> JobRecord]
    /\ \A j \in Job : Framed(j) => job[j].frame \in Frame
    /\ service \in [state : {"down", "up", "failed"}, merged : SUBSET Frame,
                    shown : Stamp \cup {Absent}]

\* A job has a file open only at the stage that writes it; a dump's under
\* either name.
Writing(j, n) ==
    CASE n = "parquet" -> job[j].stage = "storing"
      [] n = "meta"    -> job[j].stage = "noting"
      [] OTHER         -> job[j].stage = "body" /\ n \in {job[j].dump, PartOf(job[j].dump)}

OpenInv == \A n \in Name : \A j \in disk[n].open : Writing(j, n)

\* Whoever writes the file writes the same thing.
OneWriting(n) == \E v \in disk[n].bytes : v # Torn /\ disk[n].bytes = {v}

\* As long as no two jobs fetched a dump at once, its file is whole and closed,
\* and the ".part" file belongs to the one that fetches it.
Fetching(j, f) == job[j].dump = f /\ job[j].stage \in {"body", "rename"}

OneFetches(f) ==
    /\ \A p, q \in Job : Fetching(p, f) /\ Fetching(q, f) => p = q
    /\ disk[f].open = {} /\ disk[f].data # Torn
    /\ \A p \in disk[PartOf(f)].open : Fetching(p, f)
    /\ \A p \in Job : Fetching(p, f) =>
        IF job[p].stage = "body"
        THEN disk[PartOf(f)].open = {p} /\ OneWriting(PartOf(f))
        ELSE disk[PartOf(f)].open = {} /\ disk[PartOf(f)].data # Torn

DumpInv == \A f \in Dump : f \notin mishaps => OneFetches(f)

\* As long as no two jobs wrote the parquet file at once and none was cut off,
\* it is whole, or in the hands of one job.
ParquetInv ==
    mishaps \cap {"clash", "cut"} = {} =>
        \/ disk["parquet"].open = {} /\ disk["parquet"].data # Torn
        \/ /\ \E j \in Job : disk["parquet"].open = {j}
           /\ OneWriting("parquet")

\* A thread runs in the service.
ThreadInv == \A j \in Thread \cap Active : service.state = "up"

\* What a lone job has done so far is in the files and in the service.
StampOf(j) == [by |-> j, frame |-> job[j].frame]
Undisturbed(j) == \A q \in Job \ {j} : q \notin Active /\ ~job[q].lone
DoneSoFar(j) ==
    LET stage == job[j].stage
        frame == job[j].frame
    IN  /\ stage # "new"
        /\ stage = "storing" => disk["parquet"].open = {j} /\ disk["parquet"].bytes = {frame}
        /\ stage \in {"note", "noting", "merge", "reread", "ok"} => disk["parquet"] = Whole(frame)
        /\ stage = "noting" => disk["meta"].open = {j} /\ disk["meta"].bytes = {StampOf(j)}
        /\ stage \in {"merge", "reread", "ok"} => disk["meta"] = Whole(StampOf(j))
        /\ stage \in {"merge", "reread"} => j \in Thread
        /\ stage = "reread" => frame \in service.merged
        /\ stage = "ok" /\ j \in Thread /\ service.state = "up" =>
                frame \in service.merged /\ service.shown = StampOf(j)

LoneInv == \A j \in Job : job[j].lone => Undisturbed(j) /\ DoneSoFar(j)

-----------------------------------------------------------------------------
(* Files.                                                                  *)

LEMMA WholeFile ==
    ASSUME NEW C, NEW v \in C \cup {Absent, Torn}
    PROVE  /\ Whole(v) \in File(C) /\ IsFiniteSet(Whole(v).bytes)
           /\ Whole(v).data = v /\ Whole(v).open = {} /\ Whole(v).bytes = {}
BY FS_EmptySet DEF Whole, NoFile, File

LEMMA OpenedFile ==
    ASSUME NEW C, NEW file \in File(C), IsFiniteSet(file.bytes), NEW j \in Job, NEW v \in C
    PROVE  LET opened == Opened(file, j, v) IN
           /\ opened \in File(C) /\ IsFiniteSet(opened.bytes)
           /\ opened.data = Torn /\ opened.open = file.open \cup {j}
           /\ file.open = {} => opened.bytes = {v}
<1>1. IsFiniteSet({v}) /\ IsFiniteSet(file.bytes \cup {v})
  BY FS_Singleton, FS_AddElement
<1> QED
  BY <1>1 DEF Opened, File

LEMMA ClosedFile ==
    ASSUME NEW C, NEW file \in File(C), IsFiniteSet(file.bytes), NEW j
    PROVE  LET closed == Closed(file, j) IN
           /\ closed \in File(C) /\ IsFiniteSet(closed.bytes)
           /\ closed.open = file.open \ {j}
           /\ file.open # {j} => closed.data = file.data /\ closed.bytes = file.bytes
           /\ \A v : file.open = {j} /\ file.bytes = {v} => closed = Whole(v)
<1>1. CASE file.open # {j}
  <2>1. Closed(file, j) = [file EXCEPT !.open = file.open \ {j}]
    BY <1>1 DEF Closed
  <2> QED
    BY <1>1, <2>1 DEF File
<1>2. CASE file.open = {j} /\ Cardinality(file.bytes) = 1
  <2>1. PICK w : file.bytes = {w}
    BY <1>2, FS_Singleton
  <2>2. Closed(file, j) = Whole(w) /\ w \in C \cup {Torn}
    BY <1>2, <2>1 DEF Closed, File
  <2> QED
    BY <1>2, <2>1, <2>2, WholeFile
<1>3. CASE file.open = {j} /\ Cardinality(file.bytes) # 1
  <2>1. Closed(file, j) = Whole(Torn) /\ \A v : file.bytes # {v}
    BY <1>3, FS_Singleton DEF Closed
  <2> QED
    BY <1>3, <2>1, WholeFile
<1> QED
  BY <1>1, <1>2, <1>3

LEMMA DroppedFile ==
    ASSUME NEW C, NEW file \in File(C), IsFiniteSet(file.bytes), NEW J, NEW luck \in BOOLEAN
    PROVE  LET dropped == Dropped(file, J, luck) IN
           /\ dropped \in File(C) /\ IsFiniteSet(dropped.bytes)
           /\ dropped.open = file.open \ J
           /\ file.open \cap J = {} => dropped = file
<1>1. CASE file.open \cap J = {}
  BY <1>1 DEF Dropped, File
<1>2. CASE file.open \cap J # {} /\ file.open \subseteq J
  BY <1>2, WholeFile DEF Dropped
<1>3. CASE file.open \cap J # {} /\ ~(file.open \subseteq J)
  <2> DEFINE b == IF luck THEN file.bytes ELSE file.bytes \cup {Torn}
  <2>1. b \subseteq C \cup {Torn} /\ IsFiniteSet(b)
    BY FS_AddElement DEF File
  <2>2. Dropped(file, J, luck) = [file EXCEPT !.open = file.open \ J, !.bytes = b]
    BY <1>3 DEF Dropped
  <2> HIDE DEF b
  <2> QED
    BY <1>3, <2>1, <2>2 DEF File
<1> QED
  BY <1>1, <1>2, <1>3

LEMMA Names ==
    /\ \A f \in Dump : f \in Name /\ PartOf(f) \in Name
                       /\ f \notin {"parquet", "meta"} /\ PartOf(f) \notin {"parquet", "meta"}
    /\ \A f, g \in Dump : f # PartOf(g) /\ (f # g => PartOf(f) # PartOf(g))
    /\ \A n \in Name : n \notin {"parquet", "meta"} =>
            \E f \in Dump : n = f \/ n = PartOf(f)
    /\ "parquet" \in Name /\ "meta" \in Name
BY DEF Dump, Name, PartOf

\* One file is written.
LEMMA OneFileType ==
    ASSUME DiskType, NEW n \in Name, NEW file \in File(Content(n)), IsFiniteSet(file.bytes),
           disk' = [disk EXCEPT ![n] = file]
    PROVE  DiskType' /\ disk'[n] = file /\ \A m \in Name : m # n => disk'[m] = disk[m]
BY DEF DiskType

-----------------------------------------------------------------------------
(* Jobs.                                                                   *)

\* What every step of a job but its first does to the jobs.
Moves(j, from, to) ==
    /\ job' \in [Job -> JobRecord]
    /\ \A q \in Job : q # j => job'[q] = job[q]
    /\ job[j].stage = from /\ job'[j].stage \in to
    /\ job'[j].lone => job[j].lone
    /\ job'[j].stage # "over" => job'[j].lone = job[j].lone
    /\ job'[j].stage \in {"body", "rename"} => job'[j].dump = job[j].dump
    /\ Framed(j)' => job'[j].frame \in Frame
    /\ Framed(j) /\ Framed(j)' => job'[j].frame = job[j].frame

LEMMA FreshJobs ==
    /\ NewJob \in JobRecord /\ NewJob.stage = "new" /\ ~NewJob.lone /\ NewJob.frame = Absent
    /\ OverJob \in JobRecord /\ OverJob.stage = "over" /\ ~OverJob.lone
<1>1. /\ NewJob \in JobRecord /\ NewJob.stage = "new" /\ NewJob.lone = FALSE
      /\ NewJob.frame = Absent
  BY DEF NewJob, JobRecord, Stage, Dump
<1>2. OverJob \in JobRecord /\ OverJob.stage = "over" /\ OverJob.lone = FALSE
  BY <1>1 DEF OverJob, JobRecord, Stage
<1> QED
  BY <1>1, <1>2

LEMMA MoveMoves ==
    ASSUME TypeInv, NEW j \in Job, NEW stage \in Stage, Move(j, stage),
           stage \in {"store", "storing", "note", "noting", "merge", "reread", "ok"} => Framed(j)
    PROVE  Moves(j, job[j].stage, {stage})
BY DEF TypeInv, JobRecord, Moves, Framed, Move

LEMMA OverMoves ==
    ASSUME TypeInv, NEW j \in Job, job' = [job EXCEPT ![j] = OverJob]
    PROVE  Moves(j, job[j].stage, {"over"})
<1>1. job'[j] = OverJob
  BY DEF TypeInv
<1> QED
  BY <1>1, FreshJobs DEF TypeInv, Moves, Framed

LEMMA SucceedMoves ==
    ASSUME TypeInv, NEW j \in Job, Framed(j), Succeed(j)
    PROVE  Moves(j, job[j].stage, {"ok", "over"}) /\ (job[j].lone => job'[j].stage = "ok")
<1>1. CASE job[j].lone
  <2> DEFINE r == [job[j] EXCEPT !.stage = "ok"]
  <2>1. /\ r \in JobRecord /\ r.stage = "ok" /\ r.lone = job[j].lone
        /\ r.dump = job[j].dump /\ r.frame = job[j].frame
    BY DEF TypeInv, JobRecord, Stage
  <2>2. job' = [job EXCEPT ![j] = r]
    BY <1>1 DEF Succeed
  <2> HIDE DEF r
  <2> QED
    BY <1>1, <2>1, <2>2 DEF TypeInv, Moves, Framed
<1>2. CASE ~job[j].lone
  <2>1. job' = [job EXCEPT ![j] = OverJob]
    BY <1>2 DEF Succeed
  <2> QED
    BY <1>2, <2>1, OverMoves DEF Moves
<1> QED
  BY <1>1, <1>2

\* A job that gets its frame.
LEMMA FrameMoves ==
    ASSUME TypeInv, NEW j \in Job, ~Framed(j), NEW frame \in Frame,
           job' = [job EXCEPT ![j] = [@ EXCEPT !.stage = "store", !.frame = frame]]
    PROVE  Moves(j, job[j].stage, {"store"})
<1> DEFINE r == [job[j] EXCEPT !.stage = "store", !.frame = frame]
<1>1. /\ r \in JobRecord /\ r.stage = "store" /\ r.lone = job[j].lone
      /\ r.dump = job[j].dump /\ r.frame = frame
  BY DEF TypeInv, JobRecord, Stage
<1>2. job' = [job EXCEPT ![j] = r]
  OBVIOUS
<1> HIDE DEF r
<1> QED
  BY <1>1, <1>2 DEF TypeInv, Moves, Framed

LEMMA ScanEffect ==
    ASSUME TypeInv, NEW j \in Job, Scan(j)
    PROVE  Moves(j, "scan", {"store", "fetch", "ask"})
<1>1. CASE Readable("basics") /\ Readable("ratings")
  <2>1. FromDumps(disk["basics"].data, disk["ratings"].data) \in Frame
    <3>1. /\ "basics" \in Name /\ "ratings" \in Name
          /\ Content("basics") = Nat /\ Content("ratings") = Nat
      BY DEF Name, Dump, Content
    <3>2. disk["basics"].data \in Nat /\ disk["ratings"].data \in Nat
      BY <1>1, <3>1 DEF Readable, TypeInv, DiskType, File
    <3> QED
      BY <3>2 DEF FromDumps, Frame
  <2>2. ~Framed(j) /\ job[j].stage = "scan"
    BY DEF Scan, Framed
  <2> QED
    BY <1>1, <2>1, <2>2, FrameMoves DEF Scan, Moves
<1>2. CASE ~(Readable("basics") /\ Readable("ratings"))
  BY <1>2, MoveMoves DEF Scan, Moves, Stage
<1> QED
  BY <1>1, <1>2

LEMMA AskEffect ==
    ASSUME TypeInv, NEW j \in Job, Ask(j)
    PROVE  Moves(j, "ask", {"store", "over"})
<1>1. ASSUME NEW Y \in SUBSET Year \ {{}},
             job' = [job EXCEPT ![j] = [@ EXCEPT !.stage = "store", !.frame = FromYears(Y)]]
      PROVE  Moves(j, "ask", {"store", "over"})
  <2>1. FromYears(Y) \in Frame /\ ~Framed(j) /\ job[j].stage = "ask"
    BY DEF FromYears, Frame, Ask, Framed
  <2> QED
    BY <1>1, <2>1, FrameMoves DEF Moves
<1>2. CASE Fail(j)
  BY <1>2, OverMoves DEF Ask, Fail, Moves
<1> QED
  BY <1>1, <1>2 DEF Ask

-----------------------------------------------------------------------------
(* What a step does to the files.                                          *)

\* Job j has opened the file n to write v.
Opens(j, n, v) ==
    /\ DiskType'
    /\ \A m \in Name : m # n => disk'[m] = disk[m]
    /\ disk'[n].data = Torn /\ disk'[n].open = disk[n].open \cup {j}
    /\ disk[n].open = {} => disk'[n].bytes = {v}

\* Job j has closed the file n.
Closes(j, n) ==
    /\ DiskType'
    /\ \A m \in Name : m # n => disk'[m] = disk[m]
    /\ disk'[n].open = disk[n].open \ {j}
    /\ disk[n].open # {j} => disk'[n].data = disk[n].data /\ disk'[n].bytes = disk[n].bytes
    /\ \A v : disk[n].open = {j} /\ disk[n].bytes = {v} => disk'[n] = Whole(v)

LEMMA OpensFile ==
    ASSUME DiskType, NEW j \in Job, NEW n \in Name, NEW v \in Content(n),
           disk' = [disk EXCEPT ![n] = Opened(@, j, v)]
    PROVE  Opens(j, n, v)
<1> DEFINE file == Opened(disk[n], j, v)
<1>1. /\ file \in File(Content(n)) /\ IsFiniteSet(file.bytes)
      /\ file.data = Torn /\ file.open = disk[n].open \cup {j}
      /\ disk[n].open = {} => file.bytes = {v}
  BY OpenedFile DEF DiskType
<1>2. disk' = [disk EXCEPT ![n] = file]
  OBVIOUS
<1> HIDE DEF file
<1> QED
  BY <1>1, <1>2, OneFileType DEF Opens

LEMMA ClosesFile ==
    ASSUME DiskType, NEW j \in Job, NEW n \in Name, disk' = [disk EXCEPT ![n] = Closed(@, j)]
    PROVE  Closes(j, n)
<1> DEFINE file == Closed(disk[n], j)
<1>1. /\ file \in File(Content(n)) /\ IsFiniteSet(file.bytes)
      /\ file.open = disk[n].open \ {j}
      /\ disk[n].open # {j} => file.data = disk[n].data /\ file.bytes = disk[n].bytes
      /\ \A v : disk[n].open = {j} /\ disk[n].bytes = {v} => file = Whole(v)
  BY ClosedFile DEF DiskType
<1>2. disk' = [disk EXCEPT ![n] = file]
  OBVIOUS
<1> HIDE DEF file
<1> QED
  BY <1>1, <1>2, OneFileType DEF Closes

LEMMA FetchEffect ==
    ASSUME TypeInv, NEW j \in Job, Fetch(j)
    PROVE  /\ Moves(j, "fetch", {"body", "ask"})
           /\ \/ job'[j].stage = "ask" /\ UNCHANGED <<disk, mishaps>>
              \/ /\ job'[j].stage = "body"
                 /\ Opens(j, PartOf(job[j].dump), day) /\ mishaps \subseteq mishaps'
                 /\ \A q \in Job \ {j} :
                        Fetching(q, job[j].dump) => job[j].dump \in mishaps'
<1> DEFINE f == job[j].dump
<1>1. f \in Dump /\ job[j].stage = "fetch"
  BY DEF TypeInv, JobRecord, Fetch
<1>2. CASE /\ disk' = [disk EXCEPT ![PartOf(f)] = Opened(@, j, day)]
           /\ Move(j, "body")
           /\ mishaps' = IF \E q \in Active \ {j} : job[q].dump = f /\ job[q].stage \in {"body", "rename"}
                         THEN mishaps \cup {f} ELSE mishaps
  <2>1. Moves(j, "fetch", {"body", "ask"}) /\ job'[j].stage = "body"
    BY <1>1, <1>2, MoveMoves DEF Moves, Stage
  <2>2. PartOf(f) \in Name /\ day \in Content(PartOf(f))
    BY <1>1, Names DEF TypeInv, Content
  <2>3. Opens(j, PartOf(f), day)
    BY <1>2, <2>2, OpensFile DEF TypeInv
  <2>4. \A q \in Job \ {j} : Fetching(q, f) => f \in mishaps'
    BY <1>2 DEF Fetching, Active
  <2> QED
    BY <1>2, <2>1, <2>3, <2>4
<1>3. CASE Move(j, "ask") /\ UNCHANGED <<disk, mishaps>>
  <2>1. Moves(j, "fetch", {"ask"})
    BY <1>1, <1>3, MoveMoves DEF Stage
  <2> QED
    BY <1>3, <2>1 DEF Moves
<1> QED
  BY <1>2, <1>3 DEF Fetch

LEMMA ReceiveEffect ==
    ASSUME TypeInv, NEW j \in Job, Receive(j)
    PROVE  /\ Moves(j, "body", {"rename", "ask"})
           /\ DiskType' /\ mishaps' = mishaps
           /\ \A n \in Name : disk'[n].open = disk[n].open \ {j}
           /\ \A n \in Name : j \notin disk[n].open => disk'[n] = disk[n]
           /\ job'[j].stage = "rename" => \A n \in Name : \A v :
                disk[n].open = {j} /\ disk[n].bytes = {v} => disk'[n] = Whole(v)
<1>1. CASE /\ disk' = [n \in Name |-> IF j \in disk[n].open THEN Closed(disk[n], j) ELSE disk[n]]
           /\ Move(j, "rename")
  <2>1. Moves(j, "body", {"rename"})
    BY <1>1, MoveMoves DEF Receive, Stage
  <2>2. \A n \in Name : /\ disk[n] \in File(Content(n)) /\ IsFiniteSet(disk[n].bytes)
                        /\ disk[n].open \subseteq Job
    BY DEF TypeInv, DiskType, File
  <2>3. ASSUME NEW n \in Name
        PROVE  /\ disk'[n] \in File(Content(n)) /\ IsFiniteSet(disk'[n].bytes)
               /\ disk'[n].open = disk[n].open \ {j}
               /\ j \notin disk[n].open => disk'[n] = disk[n]
               /\ \A v : disk[n].open = {j} /\ disk[n].bytes = {v} => disk'[n] = Whole(v)
    BY <1>1, <2>2, ClosedFile
  <2>4. DiskType'
    BY <1>1, <2>3 DEF DiskType
  <2> QED
    BY <2>1, <2>3, <2>4 DEF Moves, Receive
<1>2. ASSUME NEW luck \in BOOLEAN,
             disk' = [n \in Name |-> Dropped(disk[n], {j}, luck)], Move(j, "ask")
      PROVE  /\ Moves(j, "body", {"ask"})
             /\ DiskType' /\ mishaps' = mishaps
             /\ \A n \in Name : disk'[n].open = disk[n].open \ {j}
             /\ \A n \in Name : j \notin disk[n].open => disk'[n] = disk[n]
  <2>1. Moves(j, "body", {"ask"})
    BY <1>2, MoveMoves DEF Receive, Stage
  <2>2. \A n \in Name : disk[n] \in File(Content(n)) /\ IsFiniteSet(disk[n].bytes)
    BY DEF TypeInv, DiskType
  <2>3. ASSUME NEW n \in Name
        PROVE  /\ disk'[n] \in File(Content(n)) /\ IsFiniteSet(disk'[n].bytes)
               /\ disk'[n].open = disk[n].open \ {j}
               /\ j \notin disk[n].open => disk'[n] = disk[n]
    BY <1>2, <2>2, DroppedFile
  <2>4. DiskType'
    BY <1>2, <2>3 DEF DiskType
  <2> QED
    BY <2>1, <2>3, <2>4 DEF Receive
<1> QED
  BY <1>1, <1>2 DEF Receive, Moves

LEMMA RenameEffect ==
    ASSUME TypeInv, NEW j \in Job, Rename(j)
    PROVE  LET f == job[j].dump IN
           /\ Moves(j, "rename", {"ask", "fetch", "scan"}) /\ f \in Dump
           /\ mishaps' = mishaps /\ DiskType'
           /\ \/ disk' = disk /\ job'[j].stage = "ask"
              \/ /\ \A n \in Name : n # f /\ n # PartOf(f) => disk'[n] = disk[n]
                 /\ disk'[f] = disk[PartOf(f)] /\ disk'[PartOf(f)] = NoFile
<1> DEFINE f == job[j].dump
<1>1. f \in Dump /\ job[j].stage = "rename" /\ ~Framed(j)
  BY DEF TypeInv, JobRecord, Rename, Framed
<1>2. CASE disk[PartOf(f)].data = Absent
  <2>1. Moves(j, "rename", {"ask"}) /\ disk' = disk
    BY <1>1, <1>2, MoveMoves DEF Rename, Stage
  <2> QED
    BY <1>1, <2>1 DEF Moves, Rename, TypeInv, DiskType
<1>3. CASE disk[PartOf(f)].data # Absent
  <2>1. disk' = [disk EXCEPT ![f] = disk[PartOf(f)], ![PartOf(f)] = NoFile]
    BY <1>3 DEF Rename
  <2>2. /\ f \in Name /\ PartOf(f) \in Name /\ f # PartOf(f)
        /\ Content(f) = Nat /\ Content(PartOf(f)) = Nat
    BY <1>1, Names DEF Content
  <2>3. NoFile \in File(Nat) /\ IsFiniteSet(NoFile.bytes)
    BY FS_EmptySet DEF NoFile, File
  <2>4. /\ disk'[f] = disk[PartOf(f)] /\ disk'[PartOf(f)] = NoFile
        /\ \A n \in Name : n # f /\ n # PartOf(f) => disk'[n] = disk[n]
        /\ disk' = [n \in Name |-> disk'[n]]
    BY <2>1, <2>2 DEF TypeInv, DiskType
  <2>5. DiskType'
    BY <2>2, <2>3, <2>4 DEF TypeInv, DiskType
  <2> DEFINE r == IF f = "basics" THEN [job[j] EXCEPT !.stage = "fetch", !.dump = "ratings"]
                                  ELSE [job[j] EXCEPT !.stage = "scan", !.download = FALSE]
  <2>6. /\ r \in JobRecord /\ r.stage \in {"fetch", "scan"} /\ r.lone = job[j].lone
    BY DEF TypeInv, JobRecord, Stage, Dump
  <2>7. job' = [job EXCEPT ![j] = r]
    BY <1>3 DEF Rename
  <2> HIDE DEF r
  <2>8. Moves(j, "rename", {"ask", "fetch", "scan"})
    BY <1>1, <2>6, <2>7 DEF TypeInv, Moves, Framed
  <2> QED
    BY <1>1, <2>4, <2>5, <2>8 DEF Rename
<1> QED
  BY <1>2, <1>3

LEMMA StoreEffect ==
    ASSUME TypeInv, NEW j \in Job, Store(j)
    PROVE  /\ Moves(j, "store", {"storing"})
           /\ Opens(j, "parquet", job[j].frame) /\ mishaps \subseteq mishaps'
           /\ disk["parquet"].open # {} => "clash" \in mishaps'
<1>1. job[j].stage = "store" /\ Framed(j) /\ job[j].frame \in Frame
  BY DEF Store, Framed, TypeInv
<1>2. Moves(j, "store", {"storing"})
  BY <1>1, MoveMoves DEF Store, Stage
<1>3. Opens(j, "parquet", job[j].frame)
  <2>1. job[j].frame \in Content("parquet")
    BY <1>1 DEF Content
  <2> QED
    BY <2>1, Names, OpensFile DEF Store, TypeInv
<1> QED
  BY <1>2, <1>3 DEF Store

LEMMA StoredEffect ==
    ASSUME TypeInv, NEW j \in Job, Stored(j)
    PROVE  Moves(j, "storing", {"note"}) /\ Closes(j, "parquet") /\ mishaps' = mishaps
<1>1. Moves(j, "storing", {"note"})
  BY MoveMoves DEF Stored, Stage, Framed
<1> QED
  BY <1>1, Names, ClosesFile DEF Stored, TypeInv

LEMMA NoteEffect ==
    ASSUME TypeInv, NEW j \in Job, Note(j)
    PROVE  Moves(j, "note", {"noting"}) /\ Opens(j, "meta", StampOf(j)) /\ mishaps' = mishaps
<1>1. Framed(j) /\ job[j].frame \in Frame
  BY DEF Note, Framed, TypeInv
<1>2. Moves(j, "note", {"noting"})
  BY <1>1, MoveMoves DEF Note, Stage
<1>3. StampOf(j) \in Content("meta")
  BY <1>1 DEF StampOf, Content, Stamp
<1> QED
  BY <1>2, <1>3, Names, OpensFile DEF Note, TypeInv, StampOf

LEMMA NotedEffect ==
    ASSUME TypeInv, NEW j \in Job, Noted(j)
    PROVE  /\ Moves(j, "noting", {"merge", "ok", "over"}) /\ Closes(j, "meta")
           /\ mishaps' = mishaps
           /\ job[j].lone => job'[j].stage = IF j \in Thread THEN "merge" ELSE "ok"
           /\ job'[j].stage = "merge" => j \in Thread
<1>1. Framed(j) /\ job[j].stage = "noting"
  BY DEF Noted, Framed
<1>2. /\ Moves(j, "noting", {"merge", "ok", "over"})
      /\ job[j].lone => job'[j].stage = IF j \in Thread THEN "merge" ELSE "ok"
      /\ job'[j].stage = "merge" => j \in Thread
  <2>1. CASE j \in Thread
    BY <1>1, <2>1, MoveMoves DEF Noted, Stage, Moves
  <2>2. CASE j \notin Thread
    BY <1>1, <2>2, SucceedMoves DEF Noted, Moves
  <2> QED
    BY <2>1, <2>2
<1> QED
  BY <1>2, Names, ClosesFile DEF Noted, TypeInv

LEMMA MergeEffect ==
    ASSUME TypeInv, NEW j \in Job, Merge(j)
    PROVE  /\ Moves(j, "merge", {"reread"}) /\ UNCHANGED <<disk, mishaps>>
           /\ job[j].frame \in Frame
           /\ service'.merged = service.merged \cup {job[j].frame}
           /\ service'.state = service.state /\ service'.shown = service.shown
           /\ service' \in [state : {"down", "up", "failed"}, merged : SUBSET Frame,
                            shown : Stamp \cup {Absent}]
<1>1. Framed(j) /\ job[j].frame \in Frame
  BY DEF Merge, Framed, TypeInv
<1>2. Moves(j, "merge", {"reread"})
  BY <1>1, MoveMoves DEF Merge, Stage
<1> QED
  BY <1>1, <1>2 DEF Merge, TypeInv

LEMMA StampType ==
    ASSUME TypeInv, NEW old \in Stamp \cup {Absent}
    PROVE  StampRead(old) \in Stamp \cup {Absent}
BY Names DEF StampRead, TypeInv, DiskType, File, Content

LEMMA RereadEffect ==
    ASSUME TypeInv, NEW j \in Job, Reread(j)
    PROVE  /\ Moves(j, "reread", {"ok", "over"}) /\ UNCHANGED <<disk, mishaps>>
           /\ job[j].lone => job'[j].stage = "ok"
           /\ service'.merged = service.merged
           /\ service'.state = service.state /\ service'.shown = StampRead(service.shown)
           /\ service' \in [state : {"down", "up", "failed"}, merged : SUBSET Frame,
                            shown : Stamp \cup {Absent}]
<1>1. Framed(j) /\ job[j].stage = "reread"
  BY DEF Reread, Framed
<1>2. Moves(j, "reread", {"ok", "over"}) /\ (job[j].lone => job'[j].stage = "ok")
  BY <1>1, SucceedMoves DEF Reread
<1>3. StampRead(service.shown) \in Stamp \cup {Absent}
  BY StampType DEF TypeInv
<1> QED
  BY <1>2, <1>3 DEF Reread, TypeInv

\* The jobs J end, and lose the files they have open.
LEMMA StopEffect ==
    ASSUME TypeInv, NEW J \in SUBSET Job, Stop(J)
    PROVE  /\ DiskType'
           /\ \A n \in Name : disk'[n].open = disk[n].open \ J
           /\ \A n \in Name : disk[n].open \cap J = {} => disk'[n] = disk[n]
           /\ job' \in [Job -> JobRecord]
           /\ \A q \in Job : job'[q] = IF q \in J THEN OverJob ELSE job[q]
           /\ mishaps \subseteq mishaps'
           /\ disk["parquet"].open \cap J # {} => "cut" \in mishaps'
<1>1. PICK luck \in BOOLEAN : disk' = [n \in Name |-> Dropped(disk[n], J, luck)]
  BY DEF Stop
<1>2. \A n \in Name : disk[n] \in File(Content(n)) /\ IsFiniteSet(disk[n].bytes)
  BY DEF TypeInv, DiskType
<1>3. ASSUME NEW n \in Name
      PROVE  /\ disk'[n] \in File(Content(n)) /\ IsFiniteSet(disk'[n].bytes)
             /\ disk'[n].open = disk[n].open \ J
             /\ disk[n].open \cap J = {} => disk'[n] = disk[n]
  BY <1>1, <1>2, DroppedFile
<1>4. DiskType'
  BY <1>1, <1>3 DEF DiskType
<1>5. /\ job' \in [Job -> JobRecord]
      /\ \A q \in Job : job'[q] = IF q \in J THEN OverJob ELSE job[q]
  BY FreshJobs DEF Stop, TypeInv
<1> QED
  BY <1>3, <1>4, <1>5 DEF Stop

LEMMA BeginEffect ==
    ASSUME TypeInv, NEW j \in Job, NEW force \in BOOLEAN, Begin(j, force)
    PROVE  /\ job' \in [Job -> JobRecord]
           /\ job[j].stage = "new" /\ job'[j].stage = "scan"
           /\ job'[j].lone => Active = {}
           /\ \A q \in Job : q # j =>
                /\ ~job'[q].lone
                /\ \/ job[q].stage = "ok" /\ job'[q].stage = "over"
                   \/ /\ job'[q].stage = job[q].stage /\ job'[q].dump = job[q].dump
                      /\ job'[q].frame = job[q].frame
           /\ UNCHANGED <<day, disk, service, mishaps>>
           /\ j \in Thread => service.state = "up"
<1> DEFINE first == [NewJob EXCEPT !.stage = "scan", !.download = force, !.lone = (Active = {})]
<1>1. first \in JobRecord /\ first.stage = "scan" /\ (first.lone => Active = {})
  BY FreshJobs DEF JobRecord, Stage
<1>2. \A q \in Job : LET other == [job[q] EXCEPT !.lone = FALSE] IN
        /\ other \in JobRecord /\ ~other.lone /\ other.stage = job[q].stage
        /\ other.dump = job[q].dump /\ other.frame = job[q].frame
  BY DEF TypeInv, JobRecord
<1>3. job' = [q \in Job |-> IF q = j THEN first
                            ELSE IF job[q].stage = "ok" THEN OverJob
                            ELSE [job[q] EXCEPT !.lone = FALSE]]
  BY DEF Begin
<1>4. /\ UNCHANGED <<day, disk, service, mishaps>> /\ job[j].stage = "new"
      /\ j \in Thread => service.state = "up"
  BY DEF Begin
<1> HIDE DEF first
<1>5. job'[j] = first /\ job' \in [Job -> JobRecord]
  BY <1>1, <1>2, <1>3, FreshJobs
<1>6. ASSUME NEW q \in Job, q # j
      PROVE  /\ ~job'[q].lone
             /\ \/ job[q].stage = "ok" /\ job'[q].stage = "over"
                \/ /\ job'[q].stage = job[q].stage /\ job'[q].dump = job[q].dump
                   /\ job'[q].frame = job[q].frame
  BY <1>2, <1>3, <1>6, FreshJobs
<1> QED
  BY <1>1, <1>4, <1>5, <1>6

-----------------------------------------------------------------------------
(* Types.                                                                  *)

LEMMA TypeInvInit == Init => TypeInv
<1> SUFFICES ASSUME Init PROVE TypeInv
  OBVIOUS
<1>1. PICK frame \in {Absent, FromDumps(0, 0)} :
        disk = [n \in Name |->
                  IF frame = Absent \/ n \notin {"parquet", "meta"} THEN NoFile
                  ELSE Whole(IF n = "parquet" THEN frame ELSE [by |-> "image", frame |-> frame])]
  BY DEF Init
<1>2. FromDumps(0, 0) \in Frame
  BY DEF FromDumps, Frame
<1>3. \A n \in Name : disk[n] \in File(Content(n)) /\ IsFiniteSet(disk[n].bytes)
  <2> SUFFICES ASSUME NEW n \in Name
               PROVE  disk[n] \in File(Content(n)) /\ IsFiniteSet(disk[n].bytes)
    OBVIOUS
  <2>1. NoFile \in File(Content(n)) /\ IsFiniteSet(NoFile.bytes)
    BY FS_EmptySet DEF NoFile, File
  <2>2. CASE frame = Absent \/ n \notin {"parquet", "meta"}
    <3>1. disk[n] = NoFile
      BY <1>1, <2>2
    <3> QED
      BY <2>1, <3>1
  <2>3. CASE frame # Absent /\ n = "parquet"
    <3>1. disk[n] = Whole(frame) /\ frame \in Content(n)
      BY <1>1, <1>2, <2>3 DEF Content
    <3> QED
      BY <3>1, WholeFile
  <2>4. CASE frame # Absent /\ n = "meta"
    <3>1. disk[n] = Whole([by |-> "image", frame |-> frame])
      BY <1>1, <2>4
    <3>2. [by |-> "image", frame |-> frame] \in Content(n)
      BY <1>2, <2>4 DEF Content, Stamp
    <3> QED
      BY <3>1, <3>2, WholeFile
  <2> QED
    BY <2>2, <2>3, <2>4
<1>4. DiskType
  BY <1>1, <1>3 DEF DiskType
<1>5. job \in [Job -> JobRecord] /\ \A j \in Job : ~Framed(j)
  BY FreshJobs DEF Init, Framed
<1>6. service \in [state : {"down", "up", "failed"}, merged : SUBSET Frame,
                   shown : Stamp \cup {Absent}]
  BY DEF Init
<1> QED
  BY <1>4, <1>5, <1>6 DEF TypeInv, Init

ServiceType == service \in [state : {"down", "up", "failed"}, merged : SUBSET Frame,
                            shown : Stamp \cup {Absent}]

LEMMA MovesType ==
    ASSUME TypeInv, NEW j \in Job, NEW from, NEW to, Moves(j, from, to)
    PROVE  job' \in [Job -> JobRecord] /\ \A q \in Job : Framed(q)' => job'[q].frame \in Frame
BY DEF Moves, TypeInv, Framed

LEMMA StopType ==
    ASSUME TypeInv, NEW J \in SUBSET Job, Stop(J)
    PROVE  /\ DiskType' /\ job' \in [Job -> JobRecord]
           /\ \A q \in Job : Framed(q)' => job'[q].frame \in Frame
<1>1. \A q \in Job : Framed(q)' => q \notin J /\ Framed(q) /\ job'[q] = job[q]
  BY StopEffect, FreshJobs DEF Framed
<1> QED
  BY <1>1, StopEffect DEF TypeInv

LEMMA StartEffect ==
    ASSUME TypeInv, Start
    PROVE  /\ UNCHANGED <<day, disk, job, crashes, mishaps>> /\ service.state # "up"
           /\ ServiceType'
           /\ service'.state = "up" =>
                IF disk["parquet"].data = Absent THEN service'.merged = {}
                ELSE /\ service'.merged = {disk["parquet"].data}
                     /\ service'.shown = StampRead(Absent)
<1> DEFINE frame == disk["parquet"].data
<1>1. frame \in Frame \cup {Absent, Torn}
  BY Names DEF TypeInv, DiskType, File, Content
<1>2. StampRead(Absent) \in Stamp \cup {Absent}
  BY StampType
<1>3. /\ UNCHANGED <<day, disk, job, crashes, mishaps>> /\ service.state # "up"
      /\ service' = IF frame = Torn THEN [state |-> "failed", merged |-> {}, shown |-> Absent]
                    ELSE IF frame = Absent THEN [state |-> "up", merged |-> {}, shown |-> Absent]
                    ELSE [state |-> "up", merged |-> {frame}, shown |-> StampRead(Absent)]
  BY DEF Start
<1> HIDE DEF frame
<1>4. ServiceType'
  BY <1>1, <1>2, <1>3 DEF ServiceType
<1>5. service'.state = "up" =>
        IF frame = Absent THEN service'.merged = {}
        ELSE service'.merged = {frame} /\ service'.shown = StampRead(Absent)
  BY <1>3
<1> QED
  BY <1>3, <1>4, <1>5 DEF frame

\* The steps of a job between its start and its end.
WorkStep(j) ==
    \/ Scan(j) \/ Fetch(j) \/ Receive(j) \/ Rename(j) \/ Ask(j)
    \/ Store(j) \/ Stored(j) \/ Note(j) \/ Noted(j) \/ Merge(j) \/ Reread(j)

LEMMA NextCases ==
    ASSUME [Next]_vars
    PROVE  \/ \E j \in Job, force \in BOOLEAN : Begin(j, force)
           \/ \E j \in Job : WorkStep(j)
           \/ \E j \in Job : Break(j)
           \/ Publish \/ Crash \/ Start \/ UNCHANGED vars
BY DEF Next, Step, WorkStep

\* A job's steps leave the calendar, and all but two of them the service.
LEMMA WorkEffect ==
    ASSUME NEW j \in Job, WorkStep(j)
    PROVE  day' = day /\ (Merge(j) \/ Reread(j) \/ service' = service)
BY DEF WorkStep, Scan, Fetch, Receive, Rename, Ask, Store, Stored, Note, Noted, Merge, Reread

LEMMA WorkType ==
    ASSUME TypeInv, NEW j \in Job, WorkStep(j)
    PROVE  TypeInv'
<1>1. DiskType /\ ServiceType /\ day \in Nat
  BY DEF TypeInv, ServiceType
<1>2. /\ DiskType' /\ job' \in [Job -> JobRecord]
      /\ \A q \in Job : Framed(q)' => job'[q].frame \in Frame
  <2>1. CASE Scan(j) \/ Ask(j)
    <3>1. disk' = disk
      BY <2>1 DEF Scan, Ask
    <3>2. DiskType'
      BY <1>1, <3>1 DEF DiskType
    <3> QED
      BY <2>1, <3>2, ScanEffect, AskEffect, MovesType
  <2>2. CASE Fetch(j)
    <3>1. DiskType'
      BY <1>1, <2>2, FetchEffect DEF DiskType, Opens
    <3> QED
      BY <2>2, <3>1, FetchEffect, MovesType
  <2>3. CASE Receive(j)
    BY <2>3, ReceiveEffect, MovesType
  <2>4. CASE Rename(j)
    BY <2>4, RenameEffect, MovesType
  <2>5. CASE Store(j) \/ Note(j)
    BY <2>5, StoreEffect, NoteEffect, MovesType DEF Opens
  <2>6. CASE Stored(j) \/ Noted(j)
    BY <2>6, StoredEffect, NotedEffect, MovesType DEF Closes
  <2>7. CASE Merge(j) \/ Reread(j)
    <3>1. disk' = disk
      BY <2>7 DEF Merge, Reread
    <3>2. DiskType'
      BY <1>1, <3>1 DEF DiskType
    <3> QED
      BY <2>7, <3>2, MergeEffect, RereadEffect, MovesType
  <2> QED
    BY <2>1, <2>2, <2>3, <2>4, <2>5, <2>6, <2>7 DEF WorkStep
<1>3. day' \in Nat
  BY <1>1, WorkEffect
<1>4. ServiceType'
  BY <1>1, WorkEffect, MergeEffect, RereadEffect DEF ServiceType
<1> QED
  BY <1>2, <1>3, <1>4 DEF TypeInv, ServiceType

LEMMA TypeInvStep == TypeInv /\ [Next]_vars => TypeInv'
<1> SUFFICES ASSUME TypeInv, [Next]_vars PROVE TypeInv'
  OBVIOUS
<1>1. ASSUME NEW j \in Job, NEW force \in BOOLEAN, Begin(j, force) PROVE TypeInv'
  <2>1. \A q \in Job : Framed(q)' => job'[q].frame \in Frame
    BY <1>1, BeginEffect DEF Framed, TypeInv
  <2>2. job' \in [Job -> JobRecord] /\ UNCHANGED <<day, disk, service>>
    BY <1>1, BeginEffect
  <2> QED
    BY <2>1, <2>2 DEF TypeInv, DiskType
<1>2. ASSUME NEW j \in Job, WorkStep(j) PROVE TypeInv'
  BY <1>2, WorkType
<1>3. ASSUME NEW j \in Job, Break(j) PROVE TypeInv'
  <2>1. Stop({j}) /\ {j} \in SUBSET Job /\ UNCHANGED <<day, service>>
    BY <1>3 DEF Break
  <2> QED
    BY <2>1, StopType DEF TypeInv
<1>4. CASE Publish
  BY <1>4 DEF Publish, TypeInv, DiskType, Framed
<1>5. CASE Crash
  <2>1. Stop(Active \cap Thread) /\ Active \cap Thread \in SUBSET Job /\ day' = day
    BY <1>5 DEF Crash, Active
  <2>2. ServiceType'
    BY <1>5 DEF Crash, ServiceType
  <2> QED
    BY <2>1, <2>2, StopType DEF TypeInv, ServiceType
<1>6. CASE Start
  BY <1>6, StartEffect DEF TypeInv, DiskType, Framed, ServiceType
<1>7. CASE UNCHANGED vars
  BY <1>7 DEF vars, TypeInv, DiskType, Framed
<1> QED
  BY <1>1, <1>2, <1>3, <1>4, <1>5, <1>6, <1>7, NextCases

-----------------------------------------------------------------------------
(* Who has a file open.                                                    *)

LEMMA OpenInvInit == Init => OpenInv
<1> SUFFICES ASSUME Init, NEW n \in Name PROVE disk[n].open = {}
  BY DEF OpenInv
<1> QED
  BY DEF Init, NoFile, Whole

\* A job that opens a file writes it; one that is not writing it has it closed.
LEMMA OpenInvStep == TypeInv /\ OpenInv /\ [Next]_vars => OpenInv'
<1> SUFFICES ASSUME TypeInv, OpenInv, [Next]_vars PROVE OpenInv'
  OBVIOUS
<1>0. \A n \in Name : disk[n].open \subseteq Job
  BY DEF TypeInv, DiskType, File
<1>1. ASSUME NEW j \in Job, NEW force \in BOOLEAN, Begin(j, force) PROVE OpenInv'
  <2>1. disk' = disk /\ job[j].stage = "new"
    BY <1>1, BeginEffect
  <2>2. \A q \in Job, n \in Name : Writing(q, n) => Writing(q, n)'
    BY <1>1, BeginEffect DEF Writing
  <2> QED
    BY <1>0, <2>1, <2>2 DEF OpenInv
<1>2. ASSUME NEW j \in Job, WorkStep(j) PROVE OpenInv'
  <2>1. ASSUME NEW from, NEW to, Moves(j, from, to)
        PROVE  \A q \in Job \ {j}, n \in Name : Writing(q, n) => Writing(q, n)'
    BY <2>1 DEF Moves, Writing
  <2>2. CASE Scan(j) \/ Ask(j) \/ Merge(j) \/ Reread(j)
    <3>1. /\ disk' = disk /\ job[j].stage \notin {"storing", "noting", "body"}
          /\ \A q \in Job \ {j}, n \in Name : Writing(q, n) => Writing(q, n)'
      BY <2>1, <2>2, ScanEffect, AskEffect, MergeEffect, RereadEffect
         DEF Scan, Ask, Merge, Reread
    <3> QED
      BY <1>0, <3>1 DEF OpenInv, Writing
  <2>3. CASE Fetch(j)
    <3> DEFINE f == job[j].dump
    <3>1. f \in Dump /\ PartOf(f) \in Name /\ PartOf(f) \notin {"parquet", "meta"}
      BY Names DEF TypeInv, JobRecord
    <3>2. /\ job[j].stage = "fetch"
          /\ \A q \in Job \ {j}, n \in Name : Writing(q, n) => Writing(q, n)'
          /\ \/ disk' = disk
             \/ /\ \A m \in Name : m # PartOf(f) => disk'[m] = disk[m]
                /\ disk'[PartOf(f)].open = disk[PartOf(f)].open \cup {j}
                /\ job'[j].stage = "body" /\ job'[j].dump = f
      BY <2>1, <2>3, FetchEffect DEF Opens, Moves
    <3>3. \A n \in Name : j \notin disk[n].open
      BY <3>2 DEF OpenInv, Writing
    <3>4. \A n \in Name : \A q \in disk'[n].open :
            (q # j /\ q \in disk[n].open) \/ (q = j /\ n = PartOf(f) /\ Writing(j, n)')
      BY <3>1, <3>2, <3>3 DEF Writing
    <3> QED
      BY <1>0, <3>2, <3>4 DEF OpenInv
  <2>4. CASE Receive(j)
    <3>1. /\ \A n \in Name : disk'[n].open = disk[n].open \ {j}
          /\ \A q \in Job \ {j}, n \in Name : Writing(q, n) => Writing(q, n)'
      BY <2>1, <2>4, ReceiveEffect
    <3> QED
      BY <1>0, <3>1 DEF OpenInv
  <2>5. CASE Rename(j)
    <3> DEFINE f == job[j].dump
    <3>1. /\ f \in Dump /\ job[j].stage = "rename"
          /\ \A q \in Job \ {j}, n \in Name : Writing(q, n) => Writing(q, n)'
          /\ \/ disk' = disk
             \/ /\ \A n \in Name : n # f /\ n # PartOf(f) => disk'[n] = disk[n]
                /\ disk'[f] = disk[PartOf(f)] /\ disk'[PartOf(f)] = NoFile
      BY <2>1, <2>5, RenameEffect DEF Moves
    <3>2. \A n \in Name : j \notin disk[n].open
      BY <3>1 DEF OpenInv, Writing
    <3>3. \A q \in Job : Writing(q, PartOf(f)) => Writing(q, f)
      BY <3>1 DEF Writing, Dump, PartOf, TypeInv, JobRecord
    <3>4. CASE disk' = disk
      BY <1>0, <3>1, <3>2, <3>4 DEF OpenInv
    <3>5. CASE disk' # disk
      <4>1. \A n \in Name : \A q \in disk'[n].open :
                q \in disk[n].open \/ (n = f /\ q \in disk[PartOf(f)].open)
        BY <3>1, <3>5 DEF NoFile
      <4>2. \A n \in Name : \A q \in disk'[n].open : q \in Job \ {j} /\ Writing(q, n)
        BY <1>0, <3>1, <3>2, <3>3, <4>1, Names DEF OpenInv
      <4> QED
        BY <3>1, <4>2 DEF OpenInv
    <3> QED
      BY <3>4, <3>5
  <2>6. ASSUME NEW n \in {"parquet", "meta"}, NEW v, Opens(j, n, v),
               Moves(j, IF n = "parquet" THEN "store" ELSE "note",
                        {IF n = "parquet" THEN "storing" ELSE "noting"})
        PROVE  OpenInv'
    <3>1. /\ job[j].stage \in {"store", "note"}
          /\ \A q \in Job \ {j}, m \in Name : Writing(q, m) => Writing(q, m)'
          /\ \A m \in Name : m # n => disk'[m] = disk[m]
          /\ disk'[n].open = disk[n].open \cup {j}
          /\ job'[j].stage = IF n = "parquet" THEN "storing" ELSE "noting"
      BY <2>1, <2>6 DEF Opens, Moves
    <3>2. \A m \in Name : j \notin disk[m].open
      BY <3>1 DEF OpenInv, Writing
    <3>3. Writing(j, n)'
      BY <3>1 DEF Writing
    <3> QED
      BY <1>0, <3>1, <3>2, <3>3 DEF OpenInv
  <2>7. ASSUME NEW n \in {"parquet", "meta"}, Closes(j, n), NEW to,
               Moves(j, IF n = "parquet" THEN "storing" ELSE "noting", to)
        PROVE  OpenInv'
    <3>1. /\ job[j].stage = IF n = "parquet" THEN "storing" ELSE "noting"
          /\ \A q \in Job \ {j}, m \in Name : Writing(q, m) => Writing(q, m)'
          /\ \A m \in Name : m # n => disk'[m] = disk[m]
          /\ disk'[n].open = disk[n].open \ {j}
      BY <2>1, <2>7 DEF Closes, Moves
    <3>2. \A m \in Name : m # n => j \notin disk[m].open
      BY <3>1 DEF OpenInv, Writing
    <3> QED
      BY <1>0, <3>1, <3>2 DEF OpenInv
  <2>8. CASE Store(j)
    BY <2>8, <2>6, StoreEffect
  <2>9. CASE Note(j)
    BY <2>9, <2>6, NoteEffect
  <2>10. CASE Stored(j)
    BY <2>10, <2>7, StoredEffect
  <2>11. CASE Noted(j)
    BY <2>11, <2>7, NotedEffect
  <2> QED
    BY <1>2, <2>2, <2>3, <2>4, <2>5, <2>8, <2>9, <2>10, <2>11 DEF WorkStep
<1>3. ASSUME NEW J \in SUBSET Job, Stop(J) PROVE OpenInv'
  <2>1. /\ \A n \in Name : disk'[n].open = disk[n].open \ J
        /\ \A q \in Job \ J : job'[q] = job[q]
    BY <1>3, StopEffect
  <2> QED
    BY <1>0, <2>1 DEF OpenInv, Writing
<1>4. ASSUME NEW j \in Job, Break(j) PROVE OpenInv'
  BY <1>3, <1>4 DEF Break
<1>5. CASE Crash
  BY <1>3, <1>5 DEF Crash, Active
<1>6. CASE Publish \/ Start \/ UNCHANGED vars
  BY <1>6 DEF Publish, Start, vars, OpenInv, Writing
<1> QED
  BY <1>1, <1>2, <1>4, <1>5, <1>6, NextCases

-----------------------------------------------------------------------------
(* The dumps.                                                              *)

LEMMA DumpInvInit == Init => DumpInv
<1> SUFFICES ASSUME Init, NEW f \in Dump PROVE OneFetches(f)
  BY DEF DumpInv
<1>1. f \in Name /\ PartOf(f) \in Name /\ f \notin {"parquet", "meta"}
      /\ PartOf(f) \notin {"parquet", "meta"}
  BY Names
<1>2. disk[f] = NoFile /\ disk[PartOf(f)] = NoFile
  BY <1>1 DEF Init
<1>3. \A p \in Job : ~Fetching(p, f)
  BY FreshJobs DEF Init, Fetching
<1> QED
  BY <1>2, <1>3, FilesAssumption DEF OneFetches, NoFile

\* A step that leaves a dump, its ".part" file and those who fetch it alone.
LEMMA DumpQuiet ==
    ASSUME NEW f \in Dump, OneFetches(f),
           disk'[f] = disk[f], disk'[PartOf(f)] = disk[PartOf(f)],
           \A p \in Job : Fetching(p, f)' <=> Fetching(p, f),
           \A p \in Job : Fetching(p, f) => job'[p].stage = job[p].stage,
           disk[PartOf(f)].open \subseteq Job
    PROVE  OneFetches(f)'
BY DEF OneFetches, OneWriting

LEMMA DumpInvStep == TypeInv /\ OpenInv /\ DumpInv /\ [Next]_vars => DumpInv'
<1> SUFFICES ASSUME TypeInv, OpenInv, DumpInv, [Next]_vars,
                    NEW f \in Dump, f \notin mishaps'
             PROVE  OneFetches(f)'
  BY DEF DumpInv
<1>0. /\ f \in Name /\ PartOf(f) \in Name /\ {f, PartOf(f)} \cap {"parquet", "meta"} = {}
      /\ disk[f].open \subseteq Job /\ disk[PartOf(f)].open \subseteq Job
      /\ f \notin mishaps => OneFetches(f)
  BY Names DEF TypeInv, DiskType, File, DumpInv
<1>1. ASSUME NEW j \in Job, NEW force \in BOOLEAN, Begin(j, force) PROVE OneFetches(f)'
  BY <1>0, <1>1, BeginEffect, DumpQuiet DEF Fetching
<1>2. ASSUME NEW j \in Job, NEW from, NEW to, Moves(j, from, to), mishaps \subseteq mishaps',
             disk'[f] = disk[f], disk'[PartOf(f)] = disk[PartOf(f)],
             ~Fetching(j, f), ~Fetching(j, f)'
      PROVE  OneFetches(f)'
  BY <1>0, <1>2, DumpQuiet DEF Moves, Fetching
<1>3. ASSUME NEW j \in Job, Scan(j) \/ Ask(j) \/ Merge(j) \/ Reread(j) PROVE OneFetches(f)'
  <2>1. UNCHANGED <<disk, mishaps>>
    BY <1>3 DEF Scan, Ask, Merge, Reread
  <2>2. /\ Scan(j) => Moves(j, "scan", {"store", "fetch", "ask"})
        /\ Ask(j) => Moves(j, "ask", {"store", "over"})
        /\ Merge(j) => Moves(j, "merge", {"reread"})
        /\ Reread(j) => Moves(j, "reread", {"ok", "over"})
    BY ScanEffect, AskEffect, MergeEffect, RereadEffect
  <2>3. ~Fetching(j, f) /\ ~Fetching(j, f)'
    BY <1>3, <2>2 DEF Moves, Fetching
  <2> QED
    BY <1>2, <1>3, <2>1, <2>2, <2>3
<1>4. ASSUME NEW j \in Job, Store(j) \/ Stored(j) \/ Note(j) \/ Noted(j) PROVE OneFetches(f)'
  <2>1. /\ disk'[f] = disk[f] /\ disk'[PartOf(f)] = disk[PartOf(f)]
        /\ mishaps \subseteq mishaps'
    BY <1>0, <1>4, StoreEffect, StoredEffect, NoteEffect, NotedEffect DEF Opens, Closes
  <2>2. /\ Store(j) => Moves(j, "store", {"storing"})
        /\ Stored(j) => Moves(j, "storing", {"note"})
        /\ Note(j) => Moves(j, "note", {"noting"})
        /\ Noted(j) => Moves(j, "noting", {"merge", "ok", "over"})
    BY StoreEffect, StoredEffect, NoteEffect, NotedEffect
  <2>3. ~Fetching(j, f) /\ ~Fetching(j, f)'
    BY <1>4, <2>2 DEF Moves, Fetching
  <2> QED
    BY <1>2, <1>4, <2>1, <2>2, <2>3
<1>5. ASSUME NEW j \in Job, Fetch(j) PROVE OneFetches(f)'
  <2> DEFINE g == job[j].dump
  <2>1. /\ g \in Dump /\ Moves(j, "fetch", {"body", "ask"})
        /\ \/ job'[j].stage = "ask" /\ UNCHANGED <<disk, mishaps>>
           \/ /\ job'[j].stage = "body" /\ Opens(j, PartOf(g), day) /\ mishaps \subseteq mishaps'
              /\ \A q \in Job \ {j} : Fetching(q, g) => g \in mishaps'
    BY <1>5, FetchEffect DEF TypeInv, JobRecord
  <2>2. ~Fetching(j, f) /\ OneFetches(f)
    BY <1>0, <2>1 DEF Moves, Fetching
  <2>3. CASE job'[j].stage = "ask" \/ g # f
    <3>1. disk'[f] = disk[f] /\ disk'[PartOf(f)] = disk[PartOf(f)] /\ mishaps \subseteq mishaps'
      BY <1>0, <2>1, <2>3, Names DEF Opens
    <3>2. ~Fetching(j, f)'
      BY <2>1, <2>3 DEF Moves, Fetching
    <3> QED
      BY <1>2, <2>1, <2>2, <3>1, <3>2
  <2>4. CASE job'[j].stage = "body" /\ g = f
    <3>1. \A q \in Job : ~Fetching(q, f)
      BY <2>1, <2>2, <2>4
    <3>2. disk[PartOf(f)].open = {}
      BY <1>0, <2>2, <3>1 DEF OneFetches
    <3>3. /\ disk'[PartOf(f)].open = {j} /\ disk'[PartOf(f)].bytes = {day}
          /\ disk'[f] = disk[f]
      BY <1>0, <2>1, <2>4, <3>2, Names DEF Opens
    <3>4. day # Torn
      BY <1>0, FilesAssumption DEF TypeInv, Content
    <3>5. \A q \in Job : Fetching(q, f)' <=> q = j
      BY <2>1, <2>4, <3>1 DEF Moves, Fetching
    <3> QED
      BY <2>2, <2>4, <3>3, <3>4, <3>5 DEF OneFetches, OneWriting
  <2> QED
    BY <2>1, <2>3, <2>4
<1>6. ASSUME NEW j \in Job, Receive(j) PROVE OneFetches(f)'
  <2> DEFINE g == job[j].dump
  <2>1. /\ g \in Dump /\ Moves(j, "body", {"rename", "ask"}) /\ mishaps' = mishaps
        /\ \A n \in Name : disk'[n].open = disk[n].open \ {j}
        /\ \A n \in Name : j \notin disk[n].open => disk'[n] = disk[n]
        /\ job'[j].stage = "rename" => \A n \in Name : \A v :
                disk[n].open = {j} /\ disk[n].bytes = {v} => disk'[n] = Whole(v)
    BY <1>6, ReceiveEffect DEF TypeInv, JobRecord
  <2>2. OneFetches(f) /\ job[j].stage = "body" /\ Fetching(j, g)
    BY <1>0, <2>1 DEF Moves, Fetching
  <2>3. CASE g # f
    <3>1. j \notin disk[f].open /\ j \notin disk[PartOf(f)].open
      BY <1>0, <2>1, <2>3, Names DEF OpenInv, Writing
    <3>2. ~Fetching(j, f) /\ ~Fetching(j, f)'
      BY <2>1, <2>3 DEF Moves, Fetching
    <3> QED
      BY <1>0, <1>2, <2>1, <3>1, <3>2
  <2>4. CASE g = f
    <3>1. /\ disk[PartOf(f)].open = {j} /\ OneWriting(PartOf(f))
          /\ disk[f].open = {} /\ disk[f].data # Torn
          /\ \A q \in Job \ {j} : ~Fetching(q, f)
      BY <2>2, <2>4 DEF OneFetches
    <3>2. /\ disk'[f] = disk[f] /\ disk'[PartOf(f)].open = {}
          /\ \A q \in Job : Fetching(q, f)' => q = j /\ job'[j].stage = "rename"
      BY <1>0, <2>1, <3>1 DEF Moves, Fetching
    <3>3. job'[j].stage = "rename" => disk'[PartOf(f)].data # Torn
      <4>1. PICK v : v # Torn /\ disk[PartOf(f)].bytes = {v}
        BY <3>1 DEF OneWriting
      <4>2. job'[j].stage = "rename" => disk'[PartOf(f)] = Whole(v)
        BY <1>0, <2>1, <3>1, <4>1
      <4> QED
        BY <4>1, <4>2 DEF Whole, NoFile
    <3> QED
      BY <3>1, <3>2, <3>3 DEF OneFetches
  <2> QED
    BY <2>3, <2>4
<1>7. ASSUME NEW j \in Job, Rename(j) PROVE OneFetches(f)'
  <2> DEFINE g == job[j].dump
  <2>1. /\ g \in Dump /\ Moves(j, "rename", {"ask", "fetch", "scan"}) /\ mishaps' = mishaps
        /\ \/ disk' = disk /\ job'[j].stage = "ask"
           \/ /\ \A n \in Name : n # g /\ n # PartOf(g) => disk'[n] = disk[n]
              /\ disk'[g] = disk[PartOf(g)] /\ disk'[PartOf(g)] = NoFile
    BY <1>7, RenameEffect
  <2>2. OneFetches(f) /\ job[j].stage = "rename" /\ ~Fetching(j, f)'
    BY <1>0, <2>1 DEF Moves, Fetching
  <2>3. CASE g # f
    <3>1. disk'[f] = disk[f] /\ disk'[PartOf(f)] = disk[PartOf(f)]
      BY <1>0, <2>1, <2>3, Names
    <3>2. ~Fetching(j, f)
      BY <2>3 DEF Fetching
    <3> QED
      BY <1>2, <2>1, <2>2, <3>1, <3>2
  <2>4. CASE g = f
    <3>1. /\ disk[PartOf(f)].open = {} /\ disk[PartOf(f)].data # Torn
          /\ \A q \in Job \ {j} : ~Fetching(q, f)
      BY <2>2, <2>4 DEF OneFetches, Fetching
    <3>2. \A q \in Job : ~Fetching(q, f)'
      BY <2>1, <2>2, <3>1 DEF Moves, Fetching
    <3>3. disk'[PartOf(f)].open = {} /\ disk'[f].open = {} /\ disk'[f].data # Torn
      BY <2>1, <2>2, <2>4, <3>1 DEF NoFile, OneFetches
    <3> QED
      BY <3>2, <3>3 DEF OneFetches
  <2> QED
    BY <2>3, <2>4
<1>8. ASSUME NEW J \in SUBSET Job, Stop(J) PROVE OneFetches(f)'
  <2>1. /\ \A n \in Name : disk'[n].open = disk[n].open \ J
        /\ \A n \in Name : disk[n].open \cap J = {} => disk'[n] = disk[n]
        /\ \A q \in Job : job'[q] = IF q \in J THEN OverJob ELSE job[q]
        /\ mishaps \subseteq mishaps'
    BY <1>8, StopEffect
  <2>2. OneFetches(f)
    BY <1>0, <2>1
  <2>3. \A q \in Job : Fetching(q, f)' =>
            q \notin J /\ Fetching(q, f) /\ job'[q].stage = job[q].stage
    BY <2>1, FreshJobs DEF Fetching
  <2>4. disk'[f] = disk[f]
    BY <1>0, <2>1, <2>2 DEF OneFetches
  <2>5. \A q \in disk'[PartOf(f)].open : Fetching(q, f)'
    BY <1>0, <2>1, <2>2 DEF OneFetches, Fetching
  <2>6. \A q \in Job : Fetching(q, f)' => disk'[PartOf(f)] = disk[PartOf(f)]
    <3> SUFFICES ASSUME NEW q \in Job, Fetching(q, f)'
                 PROVE  disk[PartOf(f)].open \cap J = {}
      BY <1>0, <2>1
    <3>1. disk[PartOf(f)].open \subseteq {q}
      BY <2>2, <2>3 DEF OneFetches
    <3> QED
      BY <2>3, <3>1
  <2> QED
    BY <2>2, <2>3, <2>4, <2>5, <2>6 DEF OneFetches, OneWriting
<1>9. ASSUME NEW j \in Job, Break(j) PROVE OneFetches(f)'
  BY <1>8, <1>9 DEF Break
<1>10. CASE Crash
  BY <1>8, <1>10 DEF Crash, Active
<1>11. CASE Publish \/ Start \/ UNCHANGED vars
  <2>1. UNCHANGED <<disk, job, mishaps>>
    BY <1>11 DEF Publish, Start, vars
  <2> QED
    BY <1>0, <2>1, DumpQuiet DEF Fetching
<1> QED
  BY <1>1, <1>3, <1>4, <1>5, <1>6, <1>7, <1>9, <1>10, <1>11, NextCases DEF WorkStep

-----------------------------------------------------------------------------
(* The parquet file.                                                       *)

\* Only the steps that are named for them change the parquet file and the metadata.
LEMMA WorkLeaves ==
    ASSUME TypeInv, OpenInv, NEW j \in Job, WorkStep(j)
    PROVE  /\ ~Store(j) /\ ~Stored(j) => disk'["parquet"] = disk["parquet"]
           /\ ~Note(j) /\ ~Noted(j) => disk'["meta"] = disk["meta"]
           /\ mishaps \subseteq mishaps'
<1>1. CASE Scan(j) \/ Ask(j) \/ Merge(j) \/ Reread(j)
  BY <1>1 DEF Scan, Ask, Merge, Reread
<1>2. CASE Fetch(j)
  <2>1. job[j].dump \in Dump
    BY DEF TypeInv, JobRecord
  <2> QED
    BY <1>2, <2>1, FetchEffect, Names DEF Opens
<1>3. CASE Receive(j)
  <2>1. job[j].stage = "body"
    BY <1>3 DEF Receive
  <2>2. j \notin disk["parquet"].open /\ j \notin disk["meta"].open
    BY <2>1, Names DEF OpenInv, Writing
  <2> QED
    BY <1>3, <2>2, ReceiveEffect, Names
<1>4. CASE Rename(j)
  BY <1>4, RenameEffect, Names
<1>5. CASE Store(j) \/ Note(j)
  BY <1>5, StoreEffect, NoteEffect, Names DEF Opens
<1>6. CASE Stored(j) \/ Noted(j)
  BY <1>6, StoredEffect, NotedEffect, Names DEF Closes
<1> QED
  BY <1>1, <1>2, <1>3, <1>4, <1>5, <1>6 DEF WorkStep

LEMMA ParquetInvInit == Init => ParquetInv
<1> SUFFICES ASSUME Init PROVE disk["parquet"].open = {} /\ disk["parquet"].data # Torn
  BY DEF ParquetInv
<1>1. FromDumps(0, 0) \in Content("parquet")
  BY DEF FromDumps, Frame, Content
<1> QED
  BY <1>1, Names, FilesAssumption DEF Init, NoFile, Whole

LEMMA ParquetInvStep == TypeInv /\ OpenInv /\ ParquetInv /\ [Next]_vars => ParquetInv'
<1> SUFFICES ASSUME TypeInv, OpenInv, ParquetInv, [Next]_vars PROVE ParquetInv'
  OBVIOUS
<1>1. ASSUME disk'["parquet"] = disk["parquet"], mishaps \subseteq mishaps' PROVE ParquetInv'
  BY <1>1 DEF ParquetInv, OneWriting
<1>2. ASSUME NEW j \in Job, Store(j) PROVE ParquetInv'
  <2>1. /\ Opens(j, "parquet", job[j].frame) /\ mishaps \subseteq mishaps'
        /\ disk["parquet"].open # {} => "clash" \in mishaps'
    BY <1>2, StoreEffect
  <2>2. job[j].frame # Torn
    BY <1>2, Names, FilesAssumption DEF Store, TypeInv, Framed, Content
  <2> QED
    BY <2>1, <2>2 DEF Opens, ParquetInv, OneWriting
<1>3. ASSUME NEW j \in Job, Stored(j) PROVE ParquetInv'
  <2>1. Closes(j, "parquet") /\ mishaps' = mishaps
    BY <1>3, StoredEffect
  <2>2. CASE disk["parquet"].open = {j}
    <3>1. OneWriting("parquet") => disk'["parquet"].open = {} /\ disk'["parquet"].data # Torn
      BY <2>1, <2>2 DEF Closes, OneWriting, Whole, NoFile
    <3> QED
      BY <2>1, <2>2, <3>1 DEF ParquetInv
  <2>3. CASE disk["parquet"].open # {j}
    BY <2>1, <2>3 DEF Closes, ParquetInv, OneWriting
  <2> QED
    BY <2>2, <2>3
<1>4. ASSUME NEW j \in Job, WorkStep(j) PROVE ParquetInv'
  BY <1>1, <1>2, <1>3, <1>4, WorkLeaves
<1>5. ASSUME NEW J \in SUBSET Job, Stop(J) PROVE ParquetInv'
  BY <1>5, StopEffect, Names DEF ParquetInv, OneWriting
<1>6. ASSUME NEW j \in Job, Break(j) PROVE ParquetInv'
  BY <1>5, <1>6 DEF Break
<1>7. CASE Crash
  BY <1>5, <1>7 DEF Crash, Active
<1>8. ASSUME NEW j \in Job, NEW force \in BOOLEAN, Begin(j, force) PROVE ParquetInv'
  BY <1>1, <1>8, BeginEffect
<1>9. CASE Publish \/ Start \/ UNCHANGED vars
  BY <1>1, <1>9 DEF Publish, Start, vars
<1> QED
  BY <1>4, <1>6, <1>7, <1>8, <1>9, NextCases

-----------------------------------------------------------------------------
(* A lone refresh.                                                         *)

LEMMA ThreadInvInit == Init => ThreadInv
BY FreshJobs DEF Init, ThreadInv, Active

LEMMA ThreadInvStep == TypeInv /\ ThreadInv /\ [Next]_vars => ThreadInv'
<1> SUFFICES ASSUME TypeInv, ThreadInv, [Next]_vars PROVE ThreadInv'
  OBVIOUS
<1> USE DEF ThreadInv, Active
<1>1. ASSUME NEW j \in Job, NEW force \in BOOLEAN, Begin(j, force) PROVE ThreadInv'
  BY <1>1, BeginEffect DEF Job
<1>2. ASSUME NEW j \in Job, WorkStep(j) PROVE ThreadInv'
  <2>1. j \in Active /\ service'.state = service.state
    BY <1>2, WorkEffect, MergeEffect, RereadEffect
       DEF WorkStep, Scan, Fetch, Receive, Rename, Ask, Store, Stored, Note, Noted, Merge, Reread
  <2>2. \A q \in Job : q # j => job'[q] = job[q]
    BY <1>2, ScanEffect, FetchEffect, ReceiveEffect, RenameEffect, AskEffect, StoreEffect,
       StoredEffect, NoteEffect, NotedEffect, MergeEffect, RereadEffect DEF WorkStep, Moves
  <2> QED
    BY <2>1, <2>2
<1>3. ASSUME NEW J \in SUBSET Job, Stop(J)
      PROVE  Active' = Active \ J
  BY <1>3, StopEffect, FreshJobs
<1>4. ASSUME NEW j \in Job, Break(j) PROVE ThreadInv'
  BY <1>3, <1>4 DEF Break
<1>5. CASE Crash
  <2>1. Active' = Active \ (Active \cap Thread)
    BY <1>3, <1>5 DEF Crash
  <2> QED
    BY <2>1
<1>6. CASE Start
  BY <1>6, StartEffect
<1>7. CASE Publish \/ UNCHANGED vars
  BY <1>7 DEF Publish, vars
<1> QED
  BY <1>1, <1>2, <1>4, <1>5, <1>6, <1>7, NextCases

LEMMA LoneInvInit == Init => LoneInv
BY FreshJobs DEF Init, LoneInv

\* The files a lone job writes are open to no one else.
LEMMA LoneOpen ==
    ASSUME TypeInv, OpenInv, NEW j \in Job, Undisturbed(j), NEW n \in Name
    PROVE  disk[n].open \subseteq {j} /\ (disk[n].open # {} => Writing(j, n))
<1>1. disk[n].open \subseteq Job
  BY DEF TypeInv, DiskType, File
<1>2. \A q \in disk[n].open : q \in Active
  BY <1>1 DEF OpenInv, Writing, Active
<1> QED
  BY <1>1, <1>2 DEF Undisturbed, OpenInv

\* Each step of a lone job adds its own to what was done.
LEMMA LoneWork ==
    ASSUME TypeInv, OpenInv, NEW j \in Job, WorkStep(j), job[j].lone, job'[j].lone,
           Undisturbed(j), DoneSoFar(j)
    PROVE  DoneSoFar(j)'
<1> USE DEF DoneSoFar, StampOf
<1>1. CASE Scan(j) \/ Fetch(j) \/ Receive(j) \/ Rename(j) \/ Ask(j)
  <2>1. job'[j].stage \in {"store", "fetch", "ask", "body", "rename", "scan", "over"}
    BY <1>1, ScanEffect, FetchEffect, ReceiveEffect, RenameEffect, AskEffect DEF Moves
  <2> QED
    BY <2>1
<1>2. CASE Store(j)
  <2>1. Moves(j, "store", {"storing"}) /\ Opens(j, "parquet", job[j].frame)
    BY <1>2, StoreEffect
  <2>2. disk["parquet"].open = {}
    BY <2>1, LoneOpen, Names DEF Moves, Writing
  <2> QED
    BY <2>1, <2>2 DEF Moves, Opens, Framed
<1>3. CASE Stored(j)
  BY <1>3, StoredEffect DEF Moves, Closes, Framed
<1>4. CASE Note(j)
  <2>1. Moves(j, "note", {"noting"}) /\ Opens(j, "meta", StampOf(j))
    BY <1>4, NoteEffect
  <2>2. disk["meta"].open = {} /\ disk'["parquet"] = disk["parquet"]
    BY <2>1, LoneOpen, Names DEF Moves, Writing, Opens
  <2> QED
    BY <2>1, <2>2 DEF Moves, Opens, Framed
<1>5. CASE Noted(j)
  <2>1. /\ Moves(j, "noting", {"merge", "ok", "over"}) /\ Closes(j, "meta")
        /\ job'[j].stage = IF j \in Thread THEN "merge" ELSE "ok"
    BY <1>5, NotedEffect
  <2>2. job'[j].frame = job[j].frame /\ disk'["parquet"] = disk["parquet"]
    BY <2>1, Names DEF Moves, Framed, Closes
  <2>3. disk'["meta"] = Whole(StampOf(j))
    BY <2>1 DEF Moves, Closes
  <2> QED
    BY <2>1, <2>2, <2>3 DEF Moves
<1>6. CASE Merge(j)
  BY <1>6, MergeEffect DEF Moves, Framed
<1>7. CASE Reread(j)
  <2>1. /\ Moves(j, "reread", {"ok", "over"}) /\ disk' = disk /\ job'[j].stage = "ok"
        /\ service'.merged = service.merged /\ service'.shown = StampRead(service.shown)
    BY <1>7, RereadEffect
  <2>2. StampOf(j) # Absent /\ StampOf(j) # Torn
    <3>1. StampOf(j) \in Content("meta")
      BY <2>1 DEF Moves, TypeInv, Framed, Content, Stamp
    <3> QED
      BY <3>1, Names, FilesAssumption
  <2>3. StampRead(service.shown) = StampOf(j)
    BY <2>1, <2>2 DEF StampRead, Moves, Whole, NoFile
  <2> QED
    BY <2>1, <2>3 DEF Moves, Framed
<1> QED
  BY <1>1, <1>2, <1>3, <1>4, <1>5, <1>6, <1>7 DEF WorkStep

\* After a restart the service has what a lone refresh left in the files.
LEMMA LoneStart ==
    ASSUME TypeInv, ThreadInv, Start, NEW j \in Job, job[j].lone, DoneSoFar(j)
    PROVE  DoneSoFar(j)'
<1>1. /\ UNCHANGED <<disk, job>> /\ service.state # "up"
      /\ service'.state = "up" =>
            IF disk["parquet"].data = Absent THEN service'.merged = {}
            ELSE /\ service'.merged = {disk["parquet"].data}
                 /\ service'.shown = StampRead(Absent)
  BY StartEffect
<1>2. job[j].stage # "reread"
  BY <1>1 DEF ThreadInv, Active, DoneSoFar
<1>3. CASE job[j].stage = "ok"
  <2>1. /\ disk["parquet"].data = job[j].frame /\ disk["meta"].data = StampOf(j)
        /\ disk["parquet"] = Whole(job[j].frame) /\ disk["meta"] = Whole(StampOf(j))
    BY <1>3 DEF DoneSoFar, Whole, NoFile
  <2>2. job[j].frame \in Content("parquet") /\ StampOf(j) \in Content("meta")
    BY <1>3 DEF TypeInv, Framed, Content, StampOf, Stamp
  <2>3. job[j].frame # Absent /\ StampOf(j) \notin {Absent, Torn}
    BY <2>2, Names, FilesAssumption
  <2>4. StampRead(Absent) = StampOf(j)
    BY <2>1, <2>3 DEF StampRead
  <2> QED
    BY <1>1, <1>3, <2>1, <2>3, <2>4 DEF DoneSoFar, StampOf
<1>4. CASE job[j].stage # "ok"
  BY <1>1, <1>2, <1>4 DEF DoneSoFar, StampOf
<1> QED
  BY <1>3, <1>4

LEMMA LoneInvStep ==
    TypeInv /\ OpenInv /\ ThreadInv /\ LoneInv /\ [Next]_vars => LoneInv'
<1> SUFFICES ASSUME TypeInv, OpenInv, ThreadInv, LoneInv, [Next]_vars PROVE LoneInv'
  OBVIOUS
<1>1. ASSUME NEW j \in Job, NEW force \in BOOLEAN, Begin(j, force) PROVE LoneInv'
  <2>1. /\ \A q \in Job : job'[q].lone => q = j
        /\ job'[j].stage = "scan" /\ (job'[j].lone => Active = {})
    BY <1>1, BeginEffect
  <2>2. Active = {} => \A q \in Job \ {j} : q \notin Active'
    BY <1>1, BeginEffect DEF Active
  <2> QED
    BY <2>1, <2>2 DEF LoneInv, Undisturbed, DoneSoFar
<1>2. ASSUME NEW j \in Job, WorkStep(j) PROVE LoneInv'
  <2>1. /\ j \in Active
        /\ \A q \in Job : q # j => job'[q] = job[q]
        /\ job'[j].lone => job[j].lone
    BY <1>2, ScanEffect, FetchEffect, ReceiveEffect, RenameEffect, AskEffect, StoreEffect,
       StoredEffect, NoteEffect, NotedEffect, MergeEffect, RereadEffect
       DEF WorkStep, Moves, Active
  <2>2. \A p \in Job : job'[p].lone => p = j /\ job[j].lone
    BY <2>1 DEF LoneInv, Undisturbed
  <2>3. job[j].lone => Undisturbed(j)'
    BY <2>1 DEF LoneInv, Undisturbed, Active
  <2> QED
    BY <1>2, <2>2, <2>3, LoneWork DEF LoneInv
<1>3. ASSUME NEW J \in SUBSET Active, Stop(J), NEW p \in Job, job'[p].lone
      PROVE  J = {} /\ job[p].lone /\ Undisturbed(p)' /\ disk' = disk /\ job' = job
  <2>1. J \in SUBSET Job /\ J \subseteq Active
    BY DEF Active
  <2>2. /\ \A q \in Job : job'[q] = IF q \in J THEN OverJob ELSE job[q]
        /\ job' \in [Job -> JobRecord] /\ DiskType'
        /\ \A n \in Name : disk[n].open \cap J = {} => disk'[n] = disk[n]
    BY <1>3, <2>1, StopEffect
  <2>3. p \notin J /\ job[p].lone
    BY <1>3, <2>2, FreshJobs
  <2>4. J = {}
    BY <2>1, <2>3 DEF LoneInv, Undisturbed
  <2>5. job' = job
    BY <2>2, <2>4 DEF TypeInv
  <2>6. disk' = disk
    BY <2>2, <2>4 DEF TypeInv, DiskType
  <2> QED
    BY <2>3, <2>4, <2>5, <2>6 DEF LoneInv, Undisturbed, Active
<1>4. ASSUME NEW j \in Job, Break(j) PROVE LoneInv'
  BY <1>3, <1>4 DEF Break, LoneInv
<1>5. CASE Crash
  <2> SUFFICES ASSUME NEW p \in Job, job'[p].lone
               PROVE  Undisturbed(p)' /\ DoneSoFar(p)'
    BY DEF LoneInv
  <2>1. /\ Active \cap Thread = {} /\ job[p].lone /\ Undisturbed(p)'
        /\ disk' = disk /\ job' = job
    BY <1>3, <1>5 DEF Crash
  <2>2. DoneSoFar(p) /\ (p \in Thread => p \notin Active) /\ service'.state = "down"
    BY <1>5, <2>1 DEF LoneInv, Crash
  <2>3. DoneSoFar(p)'
    BY <2>1, <2>2 DEF DoneSoFar, StampOf, Active
  <2> QED
    BY <2>1, <2>3
<1>6. CASE Start
  BY <1>6, StartEffect, LoneStart DEF LoneInv, Undisturbed, Active
<1>7. CASE Publish \/ UNCHANGED vars
  BY <1>7 DEF Publish, vars, LoneInv, Undisturbed, DoneSoFar, StampOf, Active
<1> QED
  BY <1>1, <1>2, <1>4, <1>5, <1>6, <1>7, NextCases

-----------------------------------------------------------------------------
(* The theorems.                                                           *)

FilesInv == TypeInv /\ OpenInv /\ DumpInv /\ ParquetInv /\ ThreadInv /\ LoneInv

LEMMA FilesInvHolds == Spec => []FilesInv
<1>1. Init => FilesInv
  BY TypeInvInit, OpenInvInit, DumpInvInit, ParquetInvInit, ThreadInvInit, LoneInvInit
     DEF FilesInv
<1>2. FilesInv /\ [Next]_vars => FilesInv'
  BY TypeInvStep, OpenInvStep, DumpInvStep, ParquetInvStep, ThreadInvStep, LoneInvStep
     DEF FilesInv
<1> QED
  BY <1>1, <1>2, PTL DEF Spec

\* A dump is torn under its own name only after two downloads of it at once
\* (imdb.py, _download).
THEOREM DumpsStayWhole == Spec => []DumpsAreWhole
<1>1. FilesInv => DumpsAreWhole
  BY DEF FilesInv, DumpInv, OneFetches, DumpsAreWhole
<1> QED
  BY <1>1, FilesInvHolds, PTL

\* The service finds a whole parquet file, or none, unless a job was cut off
\* while it wrote it or two wrote it at once (imdb.py, refresh_imdb_parquet).
THEOREM ServiceStarts == Spec => []ServiceCanStart
<1>1. FilesInv => ServiceCanStart
  BY DEF FilesInv, ParquetInv, ServiceCanStart
<1> QED
  BY <1>1, FilesInvHolds, PTL

\* What a lone refresh wrote is in the files, and is what the service serves at
\* once and after every restart (app.py, _merge_live_catalog, _load).
THEOREM LoneRefreshLasts == Spec => []LoneRefreshIsDurable
<1>1. FilesInv => LoneRefreshIsDurable
  BY DEF FilesInv, LoneInv, DoneSoFar, StampOf, LoneRefreshIsDurable
<1> QED
  BY <1>1, FilesInvHolds, PTL
=============================================================================
