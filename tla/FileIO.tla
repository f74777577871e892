------------------------------- MODULE FileIO -------------------------------
(***************************************************************************)
(* internal/fileio: a plugin asks the server to write a file below its     *)
(* output directory, from inline content or from a file in the plugin's    *)
(* own tmpdir, or to read one back.  Requests of one plugin are served     *)
(* concurrently; the server may crash between any two steps, and stale     *)
(* temporary files are removed when a plugin is prepared.  A path is a     *)
(* target, either directly in the output directory or in a subdirectory    *)
(* of it; that subdirectory may be replaced by a link at any time, and     *)
(* every access through os.Root then fails.                                *)
(***************************************************************************)
EXTENDS Integers, FiniteSets

CONSTANTS
  Targets, InSub,   \* paths, and those that lie in the subdirectory
  Sources,          \* files of the plugin's tmpdir
  FileValues,       \* contents
  Oversized,        \* contents above the size limit
  FileWriters, FileReaders,
  WriteRequests,    \* [path, mkdir, valid, content, source]; an absent content or
                    \* source is NoContent
  MaxWrites,        \* bound: write requests
  MaxCrashes        \* bound: crashes

NoContent == "none"
FileRequest == [path : Targets, mkdir : BOOLEAN, valid : BOOLEAN,
                content : FileValues \cup {NoContent},
                source : Sources \cup {NoContent}]

ASSUME FileAssumption ==
  /\ NoContent \notin FileWriters \cup FileValues \cup Sources
  /\ WriteRequests \subseteq FileRequest

Whole(v) == [value |-> v, whole |-> TRUE]
Missing == Whole(NoContent)
Partial(v) == [value |-> v, whole |-> FALSE]

VARIABLES
  target,       \* [Targets -> Missing or a file]
  sub,          \* the subdirectory: "absent" | "dir" | "link"
  temps,        \* temporary files: [owner, path, file, old]
  source,       \* [Sources -> FileValues or NoContent]
  writer, reader,
  delivered,    \* contents that have been installed in a target
  writes, fileCrashes
fileVars == <<target, sub, temps, source, writer, reader, delivered, writes, fileCrashes>>

NotServing == [pc |-> "idle"]
FileInit ==
  /\ target = [t \in Targets |-> Missing] /\ sub = "absent" /\ temps = {}
  /\ source = [s \in Sources |-> NoContent]
  /\ writer = [w \in FileWriters |-> NotServing]
  /\ reader = [r \in FileReaders |-> NotServing]
  /\ delivered = {} /\ writes = 0 /\ fileCrashes = 0

-----------------------------------------------------------------------------
Reachable(t) == t \in InSub => sub = "dir"
WriterAt(w, pc) == writer[w].pc = pc
GoTo(w, pc) == writer' = [writer EXCEPT ![w].pc = pc]
Fail(w) == writer' = [writer EXCEPT ![w] = NotServing]
TempOf(w) == {f \in temps : f.owner = w}

(* HandleFileIO passes a request of the plugin on to WriteFile. *)
WriteFile(w) ==
  /\ writer[w] = NotServing /\ writes < MaxWrites
  /\ \E q \in WriteRequests :
       writer' = [writer EXCEPT ![w] = [pc |-> "resolve", req |-> q, data |-> NoContent]]
  /\ writes' = writes + 1
  /\ UNCHANGED <<target, sub, temps, source, reader, delivered, fileCrashes>>

(* Content or source, not both; the path's form; the parent directories   *)
(* are created unless mkdir is false.                                     *)
ResolvePath(w) ==
  LET q == writer[w].req
  IN  /\ WriterAt(w, "resolve")
      /\ IF q.valid /\ (q.content = NoContent) # (q.source = NoContent)
         THEN /\ GoTo(w, "walk")
              /\ sub' = IF q.path \in InSub /\ q.mkdir /\ sub = "absent" THEN "dir" ELSE sub
         ELSE Fail(w) /\ UNCHANGED sub
      /\ UNCHANGED <<target, temps, source, reader, delivered, writes, fileCrashes>>

(* The second look at every component of the parent directory. *)
WalkParent(w) ==
  /\ WriterAt(w, "walk")
  /\ IF Reachable(writer[w].req.path) THEN GoTo(w, "content") ELSE Fail(w)
  /\ UNCHANGED <<target, sub, temps, source, reader, delivered, writes, fileCrashes>>

(* decodeContent, or readSourcePath, which leaves the source in place. *)
Content(q) == IF q.source = NoContent THEN q.content ELSE source[q.source]
ReadContentEager(w) ==
  LET q == writer[w].req
  IN  /\ WriterAt(w, "content")
      /\ IF Content(q) \in FileValues \ Oversized
         THEN /\ writer' = [writer EXCEPT ![w].pc = "temp", ![w].data = Content(q)]
              /\ source' = [s \in Sources |-> IF s = q.source THEN NoContent ELSE source[s]]
         ELSE Fail(w) /\ UNCHANGED source
      /\ UNCHANGED <<target, sub, temps, reader, delivered, writes, fileCrashes>>
ReadContent(w) ==
  LET q == writer[w].req
  IN  /\ WriterAt(w, "content")
      /\ IF Content(q) \in FileValues \ Oversized
         THEN writer' = [writer EXCEPT ![w].pc = "temp", ![w].data = Content(q)]
         ELSE Fail(w)
      /\ UNCHANGED <<target, sub, temps, source, reader, delivered, writes, fileCrashes>>

(* rootAtomicWrite: a new temporary file beside the target, its content,   *)
(* the rename.  On an error the temporary file is removed if the root      *)
(* still reaches it.                                                       *)
CreateTemp(w) ==
  LET q == writer[w].req
  IN  /\ WriterAt(w, "temp")
      /\ \/ /\ Reachable(q.path) /\ GoTo(w, "fill")
            /\ temps' = temps \cup {[owner |-> w, path |-> q.path, old |-> FALSE,
                                     file |-> Partial(writer[w].data)]}
         \/ Fail(w) /\ UNCHANGED temps
      /\ UNCHANGED <<target, sub, source, reader, delivered, writes, fileCrashes>>

Cleaned(w) ==
  (temps \ TempOf(w))
    \cup {[f EXCEPT !.owner = NoContent] : f \in {g \in TempOf(w) : ~Reachable(g.path)}}
FillTempUnsynced(w) ==
  /\ WriterAt(w, "fill") /\ GoTo(w, "rename")
  /\ UNCHANGED <<target, sub, temps, source, reader, delivered, writes, fileCrashes>>
FillTemp(w) ==
  /\ WriterAt(w, "fill")
  /\ \/ /\ GoTo(w, "rename")
        /\ temps' = {IF f \in TempOf(w) THEN [f EXCEPT !.file.whole = TRUE] ELSE f : f \in temps}
     \/ Fail(w) /\ temps' = Cleaned(w)
  /\ UNCHANGED <<target, sub, source, reader, delivered, writes, fileCrashes>>

RenameTemp(w) ==
  LET q == writer[w].req
  IN  /\ WriterAt(w, "rename")
      /\ \/ \E f \in TempOf(w) :
              /\ Reachable(q.path)
              /\ target' = [target EXCEPT ![q.path] = f.file]
              /\ delivered' = delivered \cup {f.file.value}
              /\ temps' = temps \ {f}
              /\ IF q.source = NoContent THEN Fail(w) ELSE GoTo(w, "cleanup")
         \/ /\ Fail(w) /\ temps' = Cleaned(w)
            /\ UNCHANGED <<target, delivered>>
      /\ UNCHANGED <<sub, source, reader, writes, fileCrashes>>

(* The source is removed after the write only. *)
RemoveSource(w) ==
  /\ WriterAt(w, "cleanup") /\ Fail(w)
  /\ source' = [source EXCEPT ![writer[w].req.source] = NoContent]
  /\ UNCHANGED <<target, sub, temps, reader, delivered, writes, fileCrashes>>

(* ReadFile: resolveReadPath, then the size and the content of whatever    *)
(* the path names by then.                                                 *)
ResolveReadPath(r) ==
  /\ reader[r] = NotServing
  /\ \E t \in Targets :
       /\ Reachable(t) /\ target[t] # Missing
       /\ reader' = [reader EXCEPT ![r] = [pc |-> "open", path |-> t]]
  /\ UNCHANGED <<target, sub, temps, source, writer, delivered, writes, fileCrashes>>

OpenRead(r) ==
  /\ reader[r].pc = "open"
  /\ LET f == target[reader[r].path]
     IN  reader' = [reader EXCEPT ![r] =
           IF Reachable(reader[r].path) /\ f # Missing /\ f.value \notin Oversized
           THEN [pc |-> "got", file |-> f] ELSE NotServing]
  /\ UNCHANGED <<target, sub, temps, source, writer, delivered, writes, fileCrashes>>

Reply(r) ==
  /\ reader[r].pc = "got" /\ reader' = [reader EXCEPT ![r] = NotServing]
  /\ UNCHANGED <<target, sub, temps, source, writer, delivered, writes, fileCrashes>>

(* CleanupStaleTempFiles, whenever the plugin is prepared: temporary files *)
(* of the output directory itself that are older than an hour.             *)
CleanupStaleTempFiles ==
  /\ temps' = {f \in temps : f.path \in InSub \/ ~f.old} /\ temps' # temps
  /\ UNCHANGED <<target, sub, source, writer, reader, delivered, writes, fileCrashes>>

-----------------------------------------------------------------------------
(* The surroundings: a crash, time, the plugin that drops files into its   *)
(* tmpdir (not while a request of its own still uses the file), and who    *)
(* replaces the subdirectory.                                              *)
CrashFileIO ==
  /\ fileCrashes < MaxCrashes /\ fileCrashes' = fileCrashes + 1
  /\ writer' = [w \in FileWriters |-> NotServing]
  /\ reader' = [r \in FileReaders |-> NotServing]
  /\ temps' = {[f EXCEPT !.owner = NoContent] : f \in temps}
  /\ UNCHANGED <<target, sub, source, delivered, writes>>

HourPasses ==
  /\ \E f \in temps : ~f.old
  /\ temps' = {[f EXCEPT !.old = TRUE] : f \in temps}
  /\ UNCHANGED <<target, sub, source, writer, reader, delivered, writes, fileCrashes>>

DropSource ==
  /\ \E s \in Sources, v \in FileValues :
       /\ \A w \in FileWriters : writer[w] # NotServing => writer[w].req.source # s
       /\ source' = [source EXCEPT ![s] = v]
  /\ UNCHANGED <<target, sub, temps, writer, reader, delivered, writes, fileCrashes>>

ReplaceSub ==
  /\ sub # "absent" /\ sub' = IF sub = "dir" THEN "link" ELSE "dir"
  /\ UNCHANGED <<target, temps, source, writer, reader, delivered, writes, fileCrashes>>

FileNext ==
  \/ \E w \in FileWriters :
       \/ WriteFile(w) \/ ResolvePath(w) \/ WalkParent(w) \/ ReadContent(w)
       \/ CreateTemp(w) \/ FillTemp(w) \/ RenameTemp(w) \/ RemoveSource(w)
  \/ \E r \in FileReaders : ResolveReadPath(r) \/ OpenRead(r) \/ Reply(r)
  \/ CleanupStaleTempFiles \/ CrashFileIO \/ HourPasses \/ DropSource \/ ReplaceSub

FileSpec == FileInit /\ [][FileNext]_fileVars

-----------------------------------------------------------------------------
(* Properties *)

(* A file the server has written is always whole, and so is what a reader *)
(* gets, whatever writers, crashes and clean-ups happen meanwhile.         *)
WholeFiles ==
  /\ \A t \in Targets : target[t].whole
  /\ \A r \in FileReaders : reader[r].pc = "got" => reader[r].file.whole

(* A source file only disappears once its content is installed in a       *)
(* target: a request that fails or dies on the way can be repeated.        *)
SourceKept ==
  [][\A s \in Sources :
       (source[s] # NoContent /\ source'[s] = NoContent) => source[s] \in delivered]_fileVars

=============================================================================
