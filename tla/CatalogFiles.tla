---------------------------- MODULE CatalogFiles ----------------------------
(***************************************************************************)
(* The files behind the live catalog: the two IMDb dumps, the parquet file *)
(* built from them and its metadata (watchnext/catalog/imdb.py,            *)
(* wikidata.py), written by refreshes of the ML service (app.py) and by    *)
(* scripts/refresh_catalog.py, and read again when the service starts.     *)
(*                                                                         *)
(* A file is written in place between its opening and its closing, except  *)
(* for a dump, which is written under a ".part" name and renamed.  Nothing *)
(* is locked.  What rows a frame has is CatalogRefresh's subject; here a   *)
(* frame is known by the dumps, or the years of Wikidata, it was built     *)
(* from.  Files are those of a POSIX system: a rename moves what is open.  *)
(***************************************************************************)
EXTENDS Naturals, FiniteSets

CONSTANTS
    Thread,     \* calls of POST /internal/catalog/refresh
    Script,     \* runs of scripts/refresh_catalog.py
    Year,       \* the years asked from Wikidata
    Absent,     \* no file; no stamp
    Torn,       \* a file that cannot be read
    MaxDays,    \* bound: days on which IMDb publishes its dumps
    MaxCrashes  \* bound: crashes of the service

Job  == Thread \cup Script
Dump == {"basics", "ratings"}
Name == Dump \cup {"basics.part", "ratings.part", "parquet", "meta"}

\* What a file holds: a dump the day it was published, the parquet file a frame,
\* the metadata a stamp.
Frame == [source : {"imdb"}, dumps : Nat \X Nat]
            \cup [source : {"wikidata"}, years : SUBSET Year \ {{}}]
Stamp == [by : Job \cup {"image"}, frame : Frame]
Content(n) == CASE n = "parquet" -> Frame [] n = "meta" -> Stamp [] OTHER -> Nat

ASSUME FilesAssumption ==
    /\ Thread \cap Script = {}
    /\ Absent # Torn
    /\ \A n \in Name : Absent \notin Content(n) /\ Torn \notin Content(n)
    /\ MaxDays \in Nat \ {0} /\ MaxCrashes \in Nat

VARIABLES
    day,        \* the dumps IMDb publishes are those of this day
    disk,       \* disk[n]: the file of name n
    job,        \* job[j]: where a refresh stands
    service,    \* the ML service: its state, the frames merged, the stamp it shows
    crashes,
    mishaps     \* the dumps two jobs fetched at once; "clash" and "cut" of the parquet file

vars == <<day, disk, job, service, crashes, mishaps>>

-----------------------------------------------------------------------------
(* Files.                                                                  *)

\* open: the jobs that write it; bytes: what they are writing.
NoFile == [data |-> Absent, open |-> {}, bytes |-> {}]
Whole(value) == [NoFile EXCEPT !.data = value]
Readable(n) == disk[n].data \notin {Absent, Torn}

Opened(file, j, value) ==
    [data |-> Torn, open |-> file.open \cup {j},
     bytes |-> IF file.open = {} THEN {value} ELSE file.bytes \cup {value}]

\* Whole again when the last writer closes it and all have written the same.
Closed(file, j) ==
    IF file.open # {j} THEN [file EXCEPT !.open = @ \ {j}]
    ELSE IF Cardinality(file.bytes) = 1
    THEN Whole(CHOOSE value \in file.bytes : TRUE)
    ELSE Whole(Torn)

\* The jobs J stop writing half-way: what they leave may or may not be written
\* over by those that go on.
Dropped(file, J, luck) ==
    IF file.open \cap J = {} THEN file
    ELSE IF file.open \subseteq J THEN Whole(Torn)
    ELSE [file EXCEPT !.open = @ \ J,
                      !.bytes = IF luck THEN @ ELSE @ \cup {Torn}]

\* Mutant: the dump is written under its own name.
OwnName(f) == f
PartOf(f) == IF f = "basics" THEN "basics.part" ELSE "ratings.part"

FromDumps(b, r) == [source |-> "imdb", dumps |-> <<b, r>>]
FromYears(Y)    == [source |-> "wikidata", years |-> Y]

-----------------------------------------------------------------------------
\* lone says that no other job ran beside it or was started after it; of a job
\* that fails, or ends and is not alone, nothing is remembered.
NewJob == [stage |-> "new", download |-> FALSE, dump |-> "basics",
           frame |-> Absent, lone |-> FALSE]
OverJob == [NewJob EXCEPT !.stage = "over"]
Active == {j \in Job : job[j].stage \notin {"new", "ok", "over"}}

Move(j, stage) == job' = [job EXCEPT ![j].stage = stage]
Fail(j)        == job' = [job EXCEPT ![j] = OverJob]
Succeed(j)     == job' = [job EXCEPT ![j] = IF @.lone THEN [@ EXCEPT !.stage = "ok"] ELSE OverJob]

\* The image may come with a parquet file and its metadata (Dockerfile).
Init ==
    /\ day = 1
    /\ \E frame \in {Absent, FromDumps(0, 0)} :
        disk = [n \in Name |->
                  IF frame = Absent \/ n \notin {"parquet", "meta"} THEN NoFile
                  ELSE Whole(IF n = "parquet" THEN frame ELSE [by |-> "image", frame |-> frame])]
    /\ job = [j \in Job |-> NewJob]
    /\ service = [state |-> "down", merged |-> {}, shown |-> Absent]
    /\ crashes = 0
    /\ mishaps = {}

Publish ==
    /\ day < MaxDays
    /\ day' = day + 1
    /\ UNCHANGED <<disk, job, service, crashes, mishaps>>

\* A refresh starts; the service always forces it, the script when told to.
Begin(j, force) ==
    /\ job[j].stage = "new"
    /\ j \in Thread => force /\ service.state = "up"
    /\ job' = [q \in Job |->
                CASE q = j -> [NewJob EXCEPT !.stage = "scan", !.download = force,
                                             !.lone = (Active = {})]
                  [] q # j /\ job[q].stage = "ok" -> OverJob
                  [] OTHER -> [job[q] EXCEPT !.lone = FALSE]]
    /\ UNCHANGED <<day, disk, service, crashes, mishaps>>

\* build_imdb_frame, before and after a download: a dump that is missing or
\* torn raises.  Only a forced refresh without a frame downloads.
Scan(j) ==
    /\ job[j].stage = "scan"
    /\ IF Readable("basics") /\ Readable("ratings")
       THEN job' = [job EXCEPT ![j] =
                        [@ EXCEPT !.stage = "store",
                                  !.frame = FromDumps(disk["basics"].data, disk["ratings"].data)]]
       ELSE Move(j, IF job[j].download THEN "fetch" ELSE "ask")
    /\ UNCHANGED <<day, disk, service, crashes, mishaps>>

\* _download opens the connection, then the file, and writes it; a failure of
\* the connection ends the downloads.
Fetch(j) ==
    LET f == job[j].dump IN
    /\ job[j].stage = "fetch"
    /\ \/ /\ disk' = [disk EXCEPT ![PartOf(f)] = Opened(@, j, day)]
          /\ Move(j, "body")
          /\ mishaps' = IF \E q \in Active \ {j} : job[q].dump = f /\ job[q].stage \in {"body", "rename"}
                        THEN mishaps \cup {f} ELSE mishaps
       \/ Move(j, "ask") /\ UNCHANGED <<disk, mishaps>>
    /\ UNCHANGED <<day, service, crashes>>

\* The file a job writes may have been renamed by another one.
Receive(j) ==
    /\ job[j].stage = "body"
    /\ \E luck \in BOOLEAN :
        \/ /\ disk' = [n \in Name |-> IF j \in disk[n].open THEN Closed(disk[n], j) ELSE disk[n]]
           /\ Move(j, "rename")
        \/ /\ disk' = [n \in Name |-> Dropped(disk[n], {j}, luck)]
           /\ Move(j, "ask")
    /\ UNCHANGED <<day, service, crashes, mishaps>>

\* tmp.replace(dest) fails if another job has renamed the file already.
Rename(j) ==
    LET f == job[j].dump IN
    /\ job[j].stage = "rename"
    /\ IF disk[PartOf(f)].data = Absent
       THEN Move(j, "ask") /\ UNCHANGED disk
       ELSE /\ disk' = [disk EXCEPT ![f] = disk[PartOf(f)], ![PartOf(f)] = NoFile]
            /\ job' = IF f = "basics"
                      THEN [job EXCEPT ![j] = [@ EXCEPT !.stage = "fetch", !.dump = "ratings"]]
                      ELSE [job EXCEPT ![j] = [@ EXCEPT !.stage = "scan", !.download = FALSE]]
    /\ UNCHANGED <<day, service, crashes, mishaps>>

\* Mutant: the file is opened before there is something to write.
AskWithOpenFile(j) ==
    /\ job[j].stage = "ask"
    /\ \/ \E Y \in SUBSET Year \ {{}} :
            job' = [job EXCEPT ![j] = [@ EXCEPT !.stage = "store", !.frame = FromYears(Y)]]
          /\ UNCHANGED disk
       \/ Fail(j) /\ disk' = [disk EXCEPT !["parquet"] = Whole(Torn)]
    /\ UNCHANGED <<day, service, crashes, mishaps>>
\* fetch_wikidata_movies: a year that fails three times is left out; without
\* any film it raises, and nothing has been written.
Ask(j) ==
    /\ job[j].stage = "ask"
    /\ \/ \E Y \in SUBSET Year \ {{}} :
            job' = [job EXCEPT ![j] = [@ EXCEPT !.stage = "store", !.frame = FromYears(Y)]]
       \/ Fail(j)
    /\ UNCHANGED <<day, disk, service, crashes, mishaps>>

\* frame.write_parquet(dest), in place.
Store(j) ==
    /\ job[j].stage = "store"
    /\ disk' = [disk EXCEPT !["parquet"] = Opened(@, j, job[j].frame)]
    /\ mishaps' = IF disk["parquet"].open # {} THEN mishaps \cup {"clash"} ELSE mishaps
    /\ Move(j, "storing")
    /\ UNCHANGED <<day, service, crashes>>

Stored(j) ==
    /\ job[j].stage = "storing"
    /\ disk' = [disk EXCEPT !["parquet"] = Closed(@, j)]
    /\ Move(j, "note")
    /\ UNCHANGED <<day, service, crashes, mishaps>>

\* The metadata; the stamp is the job's own.
Note(j) ==
    /\ job[j].stage = "note"
    /\ disk' = [disk EXCEPT !["meta"] = Opened(@, j, [by |-> j, frame |-> job[j].frame])]
    /\ Move(j, "noting")
    /\ UNCHANGED <<day, service, crashes, mishaps>>

Noted(j) ==
    /\ job[j].stage = "noting"
    /\ disk' = [disk EXCEPT !["meta"] = Closed(@, j)]
    /\ IF j \in Thread THEN Move(j, "merge") ELSE Succeed(j)
    /\ UNCHANGED <<day, service, crashes, mishaps>>

\* The service merges the frame it holds, not the file.
Merge(j) ==
    /\ job[j].stage = "merge"
    /\ service' = [service EXCEPT !.merged = @ \cup {job[j].frame}]
    /\ Move(j, "reread")
    /\ UNCHANGED <<day, disk, crashes, mishaps>>

\* Mutant: a stamp is read once.
FirstStamp(old) == IF old # Absent \/ disk["meta"].data = Torn THEN old ELSE disk["meta"].data
\* catalog_updated_at after the metadata was read: a torn file leaves none.
StampRead(old) ==
    IF disk["meta"].data = Absent THEN old
    ELSE IF disk["meta"].data = Torn THEN Absent ELSE disk["meta"].data

Reread(j) ==
    /\ job[j].stage = "reread"
    /\ service' = [service EXCEPT !.shown = StampRead(@)]
    /\ Succeed(j)
    /\ UNCHANGED <<day, disk, crashes, mishaps>>

\* The jobs J end half-way, with the files they have open.
Stop(J) ==
    /\ \E luck \in BOOLEAN : disk' = [n \in Name |-> Dropped(disk[n], J, luck)]
    /\ job' = [j \in Job |-> IF j \in J THEN OverJob ELSE job[j]]
    /\ mishaps' = IF disk["parquet"].open \cap J # {} THEN mishaps \cup {"cut"} ELSE mishaps

\* A write fails, or the script is killed.
Break(j) ==
    /\ j \in Active
    /\ Stop({j})
    /\ UNCHANGED <<day, service, crashes>>

Crash ==
    /\ service.state = "up"
    /\ crashes < MaxCrashes
    /\ crashes' = crashes + 1
    /\ Stop(Active \cap Thread)
    /\ service' = [state |-> "down", merged |-> {}, shown |-> Absent]
    /\ UNCHANGED day

\* _load: without a parquet file there are no live titles and no stamp; a torn
\* one raises, and the service does not come up.
Start ==
    LET frame == disk["parquet"].data IN
    /\ service.state # "up"
    /\ service' =
         IF frame = Torn THEN [state |-> "failed", merged |-> {}, shown |-> Absent]
         ELSE IF frame = Absent THEN [state |-> "up", merged |-> {}, shown |-> Absent]
         ELSE [state |-> "up", merged |-> {frame}, shown |-> StampRead(Absent)]
    /\ UNCHANGED <<day, disk, job, crashes, mishaps>>

Step(j) ==
    \/ \E force \in BOOLEAN : Begin(j, force)
    \/ Scan(j) \/ Fetch(j) \/ Receive(j) \/ Rename(j) \/ Ask(j)
    \/ Store(j) \/ Stored(j) \/ Note(j) \/ Noted(j)
    \/ Merge(j) \/ Reread(j) \/ Break(j)

Next ==
    \/ \E j \in Job : Step(j)
    \/ Publish \/ Crash \/ Start

Spec == Init /\ [][Next]_vars
-----------------------------------------------------------------------------
(* What must hold.                                                         *)

\* A dump is never torn under its own name by a download that failed or was
\* killed, only by two downloads of it at once, which share the ".part" file
\* (imdb.py, _download: written aside, then renamed).
DumpsAreWhole == \A f \in Dump : disk[f].data = Torn => f \in mishaps

\* The service can start whenever no one writes the parquet file, unless a job
\* was cut off in the middle of writing it or two wrote it at once: refreshes
\* that fail in any other place leave the last catalog as it was (imdb.py,
\* refresh_imdb_parquet opens the file last; app.py, _load has no fallback).
ServiceCanStart ==
    (disk["parquet"].data = Torn /\ disk["parquet"].open = {})
        => mishaps \cap {"clash", "cut"} # {}

\* A refresh that succeeds with no other beside or after it leaves the parquet
\* file and the metadata of one frame, whatever crashes and failures came
\* before it; and the service that ran it serves that frame under its stamp, at
\* once and after every restart (imdb.py, app.py, _merge_live_catalog, _load).
LoneRefreshIsDurable ==
    \A j \in Job :
        (job[j].stage = "ok" /\ job[j].lone) =>
            LET stamp == [by |-> j, frame |-> job[j].frame] IN
            /\ disk["parquet"] = Whole(job[j].frame)
            /\ disk["meta"] = Whole(stamp)
            /\ (j \in Thread /\ service.state = "up") =>
                    job[j].frame \in service.merged /\ service.shown = stamp
=============================================================================
